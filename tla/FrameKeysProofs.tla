------------------------- MODULE FrameKeysProofs -------------------------
(***************************************************************************)
(* What TLAPS proves of FrameKeys, for any number of participants, keys,   *)
(* slots and calls, and for every admissible option; of FrameFormat, for   *)
(* any codec, frames, IVs and sizes, that frames arrive.                   *)
(***************************************************************************)
EXTENDS FrameKeys, FrameFormat, FiniteSetTheorems, SequenceTheorems, WellFoundedInduction, TLAPS

\* The shared handler as it is once the second half of setSharedKey is done.
Meant == IF half = None THEN shared ELSE SetKey(shared, half.material, half.index)

Agree(h, g) == h.ring = g.ring /\ h.cur = g.cur

\* SharedKeyHolds, also between the two halves.
SharedInv ==
  /\ half # None => opts.shared /\ shared # None
  /\ opts.shared => \A p \in Participants : keys[p] # None /\ p \notin parted =>
       shared # None /\ Agree(keys[p], Meant)

Sound(h) ==
  (\E s \in Slots : h.ring[s] # None) =>
    IF opts.tolerance = Forever THEN h.valid
    ELSE h.valid <=> h.fails = 0 \/ h.fails < opts.tolerance

\* A frame is being tried only with a handler that has a key.
KeyedWhileWorking ==
  \A p \in Participants : work[p] # None =>
    keys[p] # None /\ \E s \in Slots : keys[p].ring[s] # None

ValidInv ==
  /\ shared # None => Sound(shared)
  /\ \A p \in Participants : keys[p] # None => Sound(keys[p])
  /\ KeyedWhileWorking

Inv == KeysTypeOK /\ SharedInv /\ ValidInv

----------------------------------------------------------------------------
LEMMA MaterialTypes ==
  /\ \A w \in Passwords : <<w, 0>> \in Materials
  /\ <<Empty, 0>> \in Materials
BY FrameKeysAssumption DEF Materials

LEMMA SlotType ==
  ASSUME NEW i \in Indices
  PROVE  BoundIndex(i) % RingSize \in Slots
<1>1. RingSize \in Nat /\ RingSize > 0
  BY FrameKeysAssumption
<1>2. BoundIndex(i) \in Nat
  BY <1>1 DEF BoundIndex, Indices
<1> QED BY <1>1, <1>2 DEF Slots

\* setKeyFromMaterial: the handler keeps its type, and has a key.
LEMMA WriteType ==
  ASSUME NEW h \in Handlers, NEW m \in Materials, NEW i \in Indices \cup {None}
  PROVE  /\ SetKeyFromMaterial(h, m, i) \in Handlers
         /\ SetKeyFromMaterial(h, m, i).fails = h.fails
         /\ SetKeyFromMaterial(h, m, i).valid = h.valid
         /\ \E s \in Slots : SetKeyFromMaterial(h, m, i).ring[s] # None
<1> DEFINE cur == IF i = None THEN h.cur ELSE BoundIndex(i) % RingSize
<1>1. cur \in Slots
  BY SlotType DEF Handlers
<1>2. SetKeyFromMaterial(h, m, i) = [ring |-> [h.ring EXCEPT ![cur] = m], cur |-> cur,
                                     fails |-> h.fails, valid |-> h.valid]
  BY DEF SetKeyFromMaterial
<1>3. [h.ring EXCEPT ![cur] = m] \in [Slots -> Materials \cup {None}]
  BY <1>1 DEF Handlers
<1>4. [h.ring EXCEPT ![cur] = m][cur] = m
  BY <1>1 DEF Handlers
<1>5. m # None
  BY FrameKeysAssumption
<1> HIDE DEF cur
<1> QED BY <1>1, <1>2, <1>3, <1>4, <1>5 DEF Handlers

LEMMA SetKeyType ==
  ASSUME NEW h \in Handlers, NEW m \in Materials, NEW i \in Indices \cup {None}
  PROVE  /\ SetKey(h, m, i) \in Handlers
         /\ SetKey(h, m, i).fails = 0 /\ SetKey(h, m, i).valid
         /\ SetKey(h, m, i) # None
<1> DEFINE g == SetKeyFromMaterial(h, m, i)
<1>1. g \in Handlers
  BY WriteType
<1>2. SetKey(h, m, i) = [ring |-> g.ring, cur |-> g.cur, fails |-> 0, valid |-> TRUE]
  BY DEF SetKey, SetHasValidKey
<1> HIDE DEF g
<1>3. SetKey(h, m, i) \in Handlers
  BY <1>1, <1>2 DEF Handlers
<1>4. SetKey(h, m, i).fails = 0 /\ SetKey(h, m, i).valid
  BY <1>2
<1>5. SetKey(h, m, i) # None
  BY <1>3, FrameKeysAssumption
<1> QED BY <1>3, <1>4, <1>5

\* Handlers that agree agree after the same key is set in both.
LEMMA SetKeyAgrees ==
  ASSUME NEW h \in Handlers, NEW g \in Handlers, Agree(h, g),
         NEW m \in Materials, NEW i \in Indices \cup {None}
  PROVE  Agree(SetKey(h, m, i), SetKey(g, m, i))
<1> DEFINE cur == IF i = None THEN h.cur ELSE BoundIndex(i) % RingSize
<1>1. SetKey(h, m, i).ring = [h.ring EXCEPT ![cur] = m] /\ SetKey(h, m, i).cur = cur
  BY DEF SetKey, SetHasValidKey, SetKeyFromMaterial
<1>2. SetKey(g, m, i).ring = [h.ring EXCEPT ![cur] = m] /\ SetKey(g, m, i).cur = cur
  BY DEF SetKey, SetHasValidKey, SetKeyFromMaterial, Agree
<1> QED BY <1>1, <1>2 DEF Agree

LEMMA FailureType ==
  ASSUME NEW h \in Handlers, KeysTypeOK, Sound(h), \E s \in Slots : h.ring[s] # None
  PROVE  /\ DecryptionFailure(h) \in Handlers
         /\ Agree(DecryptionFailure(h), h)
         /\ Sound(DecryptionFailure(h))
<1>1. CASE opts.tolerance = Forever
  BY <1>1 DEF DecryptionFailure, Agree
<1>2. CASE opts.tolerance # Forever
  <2>1. opts.tolerance \in Nat
    BY <1>2, FrameKeysAssumption DEF KeysTypeOK
  <2>2. DecryptionFailure(h) =
          [ring |-> h.ring, cur |-> h.cur,
           fails |-> IF h.fails <= opts.tolerance THEN h.fails + 1 ELSE h.fails,
           valid |-> h.fails + 1 < opts.tolerance]
    BY <1>2 DEF DecryptionFailure
  <2>3. h.fails \in Nat
    BY DEF Handlers
  <2>4. DecryptionFailure(h).fails \in Nat /\ DecryptionFailure(h).fails # 0
    BY <2>1, <2>2, <2>3
  <2>5. DecryptionFailure(h).valid <=> DecryptionFailure(h).fails < opts.tolerance
    <3>1. CASE h.fails <= opts.tolerance
      <4>1. DecryptionFailure(h).fails = h.fails + 1
        BY <2>2, <3>1
      <4>2. DecryptionFailure(h).valid = (h.fails + 1 < opts.tolerance)
        BY <2>2
      <4> QED BY <4>1, <4>2
    <3>2. CASE ~(h.fails <= opts.tolerance)
      <4>1. DecryptionFailure(h).fails = h.fails
        BY <2>2, <3>2
      <4>2. ~(h.fails < opts.tolerance) /\ ~(h.fails + 1 < opts.tolerance)
        BY <2>1, <2>3, <3>2
      <4>3. DecryptionFailure(h).valid = (h.fails + 1 < opts.tolerance)
        BY <2>2
      <4> QED BY <4>1, <4>2, <4>3
    <3> QED BY <3>1, <3>2
  <2>6. DecryptionFailure(h) \in Handlers /\ Agree(DecryptionFailure(h), h)
    BY <2>2, <2>4 DEF Handlers, Agree
  <2> QED BY <1>2, <2>4, <2>5, <2>6 DEF Sound
<1> QED BY <1>1, <1>2

LEMMA NewHandlerType == NewHandler \in Handlers /\ Sound(NewHandler)
BY FrameKeysAssumption DEF NewHandler, Handlers, Slots, Sound

\* A handler given a key, or a new one, is a handler and is sound.
LEMMA SetKeySound ==
  ASSUME NEW h \in Handlers, NEW m \in Materials, NEW i \in Indices \cup {None}
  PROVE  Sound(SetKey(h, m, i))
BY SetKeyType DEF Sound

LEMMA WriteSound ==
  ASSUME NEW h \in Handlers, NEW m \in Materials, NEW i \in Indices \cup {None},
         Sound(h), \E s \in Slots : h.ring[s] # None
  PROVE  Sound(SetKeyFromMaterial(h, m, i))
BY WriteType DEF Sound

LEMMA InitInv == KeysInit => Inv
<1> SUFFICES ASSUME KeysInit PROVE Inv
  OBVIOUS
<1>1. KeysTypeOK
  BY FrameKeysAssumption DEF KeysInit, KeysTypeOK, CryptorStates
<1>2. SharedInv /\ ValidInv
  BY DEF KeysInit, SharedInv, ValidInv, KeyedWhileWorking
<1> QED BY <1>1, <1>2 DEF Inv

----------------------------------------------------------------------------
\* The same key for every participant that has a handler.
SetAll(m, i) ==
  keys' = [p \in Participants |-> IF keys[p] = None THEN None ELSE SetKey(keys[p], m, i)]

LEMMA SetAllKeeps ==
  ASSUME KeysTypeOK, NEW m \in Materials, NEW i \in Indices \cup {None},
         SetAll(m, i), UNCHANGED <<opts, work>>, KeyedWhileWorking
  PROVE  /\ keys' \in [Participants -> Handlers \cup {None}]
         /\ \A p \in Participants : keys'[p] # None <=> keys[p] # None
         /\ \A p \in Participants : keys'[p] # None =>
              keys'[p] = SetKey(keys[p], m, i) /\ Sound(keys[p])'
         /\ KeyedWhileWorking'
<1>1. \A p \in Participants : keys[p] # None =>
        /\ keys[p] \in Handlers
        /\ SetKey(keys[p], m, i) \in Handlers /\ SetKey(keys[p], m, i) # None
        /\ Sound(SetKey(keys[p], m, i))
        /\ \E s \in Slots : SetKey(keys[p], m, i).ring[s] # None
  <2> TAKE p \in Participants
  <2> HAVE keys[p] # None
  <2>1. keys[p] \in Handlers
    BY DEF KeysTypeOK
  <2>2. \E s \in Slots : SetKey(keys[p], m, i).ring[s] # None
    BY <2>1, WriteType DEF SetKey, SetHasValidKey
  <2> QED BY <2>1, <2>2, SetKeyType, SetKeySound
<1>2. \A p \in Participants :
        keys'[p] = IF keys[p] = None THEN None ELSE SetKey(keys[p], m, i)
  BY DEF SetAll
<1>3. keys' \in [Participants -> Handlers \cup {None}]
  BY <1>1 DEF SetAll
<1>4. \A p \in Participants : keys'[p] # None <=> keys[p] # None
  BY <1>1, <1>2
<1>5. \A p \in Participants : keys'[p] # None =>
        keys'[p] = SetKey(keys[p], m, i) /\ Sound(keys[p])'
  BY <1>1, <1>2 DEF Sound
<1>6. KeyedWhileWorking'
  BY <1>1, <1>2 DEF KeyedWhileWorking
<1> QED BY <1>3, <1>4, <1>5, <1>6

\* emplaceHandler: the handler there is, or a new one.
LEMMA HandlerType ==
  ASSUME KeysTypeOK, NEW h \in Handlers \cup {None}, h # None => Sound(h)
  PROVE  /\ Handler(h) \in Handlers /\ Sound(Handler(h)) /\ Handler(h) # None
         /\ h # None => Handler(h) = h
BY NewHandlerType, FrameKeysAssumption DEF Handler

LEMMA SetSharedKeyKeeps ==
  ASSUME Inv, NEW w \in Passwords, NEW i \in Indices \cup {None}, SetSharedKey(w, i)
  PROVE  Inv'
<1> USE DEF Inv
<1> DEFINE m == <<w, 0>>
<1>1. m \in Materials /\ half' = [material |-> m, index |-> i] /\ half' \in Halves /\ half' # None
  BY MaterialTypes, FrameKeysAssumption DEF SetSharedKey, Halves
<1>2. SetAll(m, i) /\ UNCHANGED <<opts, work>> /\ KeyedWhileWorking
  BY DEF SetSharedKey, SetAll, ValidInv
<1> HIDE DEF m
<1>3. /\ keys' \in [Participants -> Handlers \cup {None}]
      /\ \A p \in Participants : keys'[p] # None <=> keys[p] # None
      /\ \A p \in Participants : keys'[p] # None =>
           keys'[p] = SetKey(keys[p], m, i) /\ Sound(keys[p])'
      /\ KeyedWhileWorking'
  BY <1>1, <1>2, SetAllKeeps
<1>4. /\ shared' \in Handlers /\ shared' # None /\ Sound(shared)'
      /\ shared # None => shared' = shared
  BY HandlerType DEF SetSharedKey, ValidInv, KeysTypeOK, Sound
<1>5. calls' \in 0..MaxCalls
  BY FrameKeysAssumption DEF SetSharedKey, Call, KeysTypeOK
<1>6. KeysTypeOK'
  BY <1>1, <1>3, <1>4, <1>5 DEF SetSharedKey, KeysTypeOK
<1>7. ValidInv'
  BY <1>3, <1>4 DEF ValidInv
<1>8. SharedInv'
  <2>1. Meant' = SetKey(shared', m, i) /\ opts.shared /\ parted' = parted /\ half = None
    BY <1>1 DEF Meant, SetSharedKey, Call
  <2>2. ASSUME NEW p \in Participants, keys'[p] # None, p \notin parted
        PROVE  Agree(keys'[p], Meant')
    <3>1. keys[p] # None /\ keys[p] \in Handlers /\ keys'[p] = SetKey(keys[p], m, i)
      BY <1>3, <2>2 DEF KeysTypeOK
    <3>2. shared # None /\ Agree(keys[p], shared)
      BY <2>1, <2>2, <3>1 DEF SharedInv, Meant
    <3>3. Agree(keys[p], shared') /\ shared' \in Handlers
      BY <1>4, <3>2
    <3> QED BY <1>1, <2>1, <3>1, <3>3, SetKeyAgrees
  <2> QED BY <1>2, <1>1, <1>4, <2>1, <2>2 DEF SharedInv, Agree
<1> QED BY <1>6, <1>7, <1>8

LEMMA SetSharedKeyEndKeeps ==
  ASSUME Inv, SetSharedKeyEnd
  PROVE  Inv'
<1> USE DEF Inv
<1>1. half \in Halves /\ half # None /\ half' = None /\ shared # None /\ shared \in Handlers
  BY DEF SetSharedKeyEnd, KeysTypeOK, SharedInv
<1>2. half.material \in Materials /\ half.index \in Indices \cup {None}
  BY <1>1 DEF Halves
<1>3. shared' \in Handlers /\ shared' # None /\ Sound(shared)' /\ shared' = Meant
  BY <1>1, <1>2, SetKeyType, SetKeySound DEF SetSharedKeyEnd, Meant, Sound
<1>4. KeysTypeOK'
  BY <1>1, <1>3 DEF SetSharedKeyEnd, KeysTypeOK
<1>5. ValidInv'
  BY <1>3 DEF SetSharedKeyEnd, ValidInv, Sound, KeyedWhileWorking
<1>6. Meant' = Meant
  BY <1>1, <1>3 DEF Meant
<1>7. SharedInv'
  BY <1>1, <1>3, <1>6 DEF SetSharedKeyEnd, SharedInv, Agree
<1> QED BY <1>4, <1>5, <1>7

LEMMA RatchetKeeps ==
  ASSUME Inv, NEW i \in Indices \cup {None}, RatchetSharedKey(i)
  PROVE  Inv'
<1> USE DEF Inv
<1> DEFINE old == KeySet(shared, i)
           m   == IF old = None THEN <<Empty, 0>> ELSE Ratchet(old, 1)
<1>1. /\ m \in Materials /\ half = None /\ shared # None /\ shared \in Handlers
      /\ shared' = IF old = None THEN shared ELSE SetKey(shared, m, i)
      /\ SetAll(m, i)
      /\ parted' = IF old = None THEN {p \in Participants : keys[p] # None} \cup parted
                   ELSE parted
      /\ UNCHANGED <<opts, half, work, lastDec, lastEnc>> /\ calls' = calls + 1 /\ calls < MaxCalls
  BY DEF RatchetSharedKey, Call, KeysTypeOK, SetAll
<1> HIDE DEF m, old
<1>2. KeyedWhileWorking
  BY DEF ValidInv
<1>3. /\ keys' \in [Participants -> Handlers \cup {None}]
      /\ \A p \in Participants : keys'[p] # None <=> keys[p] # None
      /\ \A p \in Participants : keys'[p] # None =>
           keys'[p] = SetKey(keys[p], m, i) /\ Sound(keys[p])'
      /\ KeyedWhileWorking'
  BY <1>1, <1>2, SetAllKeeps
<1>4. shared' \in Handlers /\ shared' # None /\ Sound(shared)'
  BY <1>1, SetKeyType, SetKeySound DEF ValidInv, Sound
<1>5. calls' \in 0..MaxCalls
  BY <1>1, FrameKeysAssumption DEF KeysTypeOK
<1>6. parted' \subseteq Participants
  BY <1>1 DEF KeysTypeOK
<1>7. KeysTypeOK'
  BY <1>1, <1>3, <1>4, <1>5, <1>6 DEF KeysTypeOK
<1>8. ValidInv'
  BY <1>3, <1>4 DEF ValidInv
<1>9. SharedInv'
  <2>1. Meant = shared /\ Meant' = shared'
    BY <1>1 DEF Meant
  <2>2. ASSUME opts.shared, NEW p \in Participants, keys'[p] # None, p \notin parted'
        PROVE  Agree(keys'[p], shared')
    <3>1. keys[p] # None /\ keys[p] \in Handlers /\ keys'[p] = SetKey(keys[p], m, i)
      BY <1>3, <2>2 DEF KeysTypeOK
    <3>2. old # None /\ p \notin parted
      BY <1>1, <2>2, <3>1
    <3>3. Agree(keys[p], shared)
      BY <2>1, <2>2, <3>1, <3>2 DEF SharedInv
    <3> QED BY <1>1, <3>1, <3>2, <3>3, SetKeyAgrees
  <2> QED BY <1>1, <1>4, <2>1, <2>2 DEF SharedInv, Agree
<1> QED BY <1>7, <1>8, <1>9

LEMMA SetOwnKeyKeeps ==
  ASSUME Inv, NEW p \in Participants, NEW w \in Passwords, NEW i \in Indices \cup {None},
         SetOwnKey(p, w, i)
  PROVE  Inv'
<1> USE DEF Inv
<1> DEFINE m == <<w, 0>>
           h == Handler(keys[p])
<1>1. /\ m \in Materials /\ half = None /\ calls' \in 0..MaxCalls
      /\ keys' = [keys EXCEPT ![p] = SetKey(h, m, i)]
      /\ parted' = parted \cup {p}
      /\ UNCHANGED <<opts, shared, half, work, lastDec, lastEnc>>
  BY MaterialTypes, FrameKeysAssumption DEF SetOwnKey, Call, KeysTypeOK
<1>2. h \in Handlers
  BY HandlerType DEF KeysTypeOK, ValidInv
<1> HIDE DEF m, h
<1>3. /\ SetKey(h, m, i) \in Handlers /\ SetKey(h, m, i) # None /\ Sound(SetKey(h, m, i))
      /\ \E s \in Slots : SetKey(h, m, i).ring[s] # None
  BY <1>1, <1>2, SetKeyType, SetKeySound, WriteType DEF SetKey, SetHasValidKey
<1>4. /\ keys'[p] = SetKey(h, m, i)
      /\ \A q \in Participants \ {p} : keys'[q] = keys[q]
      /\ keys' \in [Participants -> Handlers \cup {None}]
  BY <1>1, <1>3 DEF KeysTypeOK
<1>5. KeysTypeOK'
  BY <1>1, <1>4 DEF KeysTypeOK
<1>6. ValidInv'
  BY <1>1, <1>3, <1>4 DEF ValidInv, Sound, KeyedWhileWorking
<1>7. SharedInv'
  <2>1. Meant' = Meant
    BY <1>1 DEF Meant
  <2> QED BY <1>1, <1>4, <2>1 DEF SharedInv, Agree
<1> QED BY <1>5, <1>6, <1>7

----------------------------------------------------------------------------
\* keyHandler() of a cryptor: a copy of the shared handler is as sound as it is, and
\* agrees with it unless the key is half set.
LEMMA KeyHandlerKeeps ==
  ASSUME Inv, NEW p \in Participants, KeyHandler(p), UNCHANGED <<opts, shared, half>>,
         Idle(p), work' \in [Participants -> Frames \cup {None}],
         \A q \in Participants \ {p} : work'[q] = work[q],
         work'[p] # None => keys'[p] # None /\ \E s \in Slots : keys'[p].ring[s] # None
  PROVE  /\ keys' \in [Participants -> Handlers \cup {None}]
         /\ parted' \subseteq Participants
         /\ SharedInv' /\ ValidInv'
<1> USE DEF Inv
<1>0. keys \in [Participants -> Handlers \cup {None}] /\ shared \in Handlers \cup {None}
  BY DEF KeysTypeOK
<1>1. /\ \A q \in Participants \ {p} : keys'[q] = keys[q]
      /\ keys' \in [Participants -> Handlers \cup {None}]
      /\ keys'[p] = keys[p] \/ (opts.shared /\ keys[p] = None /\ keys'[p] = shared)
  <2>1. CASE opts.shared /\ keys[p] = None
    <3>1. keys' = [keys EXCEPT ![p] = shared]
      BY <2>1 DEF KeyHandler, SharedHandler
    <3>2. keys'[p] = shared /\ \A q \in Participants \ {p} : keys'[q] = keys[q]
      BY <1>0, <3>1
    <3>3. keys' \in [Participants -> Handlers \cup {None}]
      BY <1>0, <3>1
    <3> QED BY <2>1, <3>2, <3>3
  <2>2. CASE ~(opts.shared /\ keys[p] = None)
    <3>1. keys' = keys
      BY <1>0, <2>2 DEF KeyHandler, SharedHandler
    <3> QED BY <1>0, <3>1
  <2> QED BY <2>1, <2>2
<1>2. parted' \subseteq Participants
  BY DEF KeyHandler, SharedHandler, KeysTypeOK
<1>4. parted \subseteq parted'
  BY DEF KeyHandler, SharedHandler
<1>5. ValidInv'
  BY <1>1 DEF ValidInv, Sound, KeyedWhileWorking
<1>6. Meant' = Meant
  BY DEF Meant
<1>7. ASSUME opts.shared, keys[p] = None, keys'[p] = shared, shared # None, p \notin parted'
      PROVE  Agree(shared, Meant)
  <2>1. half = None
    BY <1>7 DEF KeyHandler, SharedHandler
  <2> QED BY <2>1 DEF Meant, Agree
<1>8. SharedInv'
  BY <1>1, <1>4, <1>6, <1>7 DEF SharedInv, Agree
<1> QED BY <1>1, <1>2, <1>5, <1>8

LEMMA NoHandlerKeeps ==
  ASSUME Inv, NEW p \in Participants, NoHandler(p)
  PROVE  Inv'
<1>1. SharedInv' /\ ValidInv' /\ keys' \in [Participants -> Handlers \cup {None}]
        /\ parted' \subseteq Participants
  BY KeyHandlerKeeps DEF NoHandler, Inv, Idle, KeysTypeOK
<1>2. KeysTypeOK'
  BY <1>1 DEF NoHandler, Inv, KeysTypeOK, CryptorStates
<1> QED BY <1>1, <1>2 DEF Inv

LEMMA MissingKeyKeeps ==
  ASSUME Inv, NEW p \in Participants, NEW i \in Indices, MissingKey(p, i)
  PROVE  Inv'
<1>1. SharedInv' /\ ValidInv' /\ keys' \in [Participants -> Handlers \cup {None}]
        /\ parted' \subseteq Participants
  BY KeyHandlerKeeps DEF MissingKey, Inv, Idle, KeysTypeOK
<1>2. KeysTypeOK'
  BY <1>1 DEF MissingKey, Inv, KeysTypeOK, CryptorStates
<1> QED BY <1>1, <1>2 DEF Inv

LEMMA TakeFrameKeeps ==
  ASSUME Inv, NEW p \in Participants, NEW m \in Materials, NEW i \in Slots,
         TakeFrame(p, m, i)
  PROVE  Inv'
<1>1. keys'[p] # None /\ keys'[p].ring[i] # None
  <2>1. i < RingSize /\ i # None
    BY FrameKeysAssumption DEF Slots
  <2> QED BY <2>1 DEF TakeFrame, HasKey, KeySet, BoundIndex
<1>2. keys'[p] \in Handlers
  BY <1>1 DEF TakeFrame, Inv, KeysTypeOK, KeyHandler, SharedHandler
<1>3. KeySet(keys'[p], i) \in Materials
  <2>1. i < RingSize /\ i # None
    BY FrameKeysAssumption DEF Slots
  <2>2. KeySet(keys'[p], i) = keys'[p].ring[i]
    BY <2>1 DEF KeySet, BoundIndex
  <2> QED BY <1>1, <1>2, <2>2 DEF Handlers
<1>4. [key |-> DeriveKeys(Salt, m), index |-> i, material |-> KeySet(keys'[p], i),
       failed |-> FALSE] \in Frames
  BY <1>3 DEF Frames, DeriveKeys
<1>5. /\ work' \in [Participants -> Frames \cup {None}]
      /\ \A q \in Participants \ {p} : work'[q] = work[q]
  BY <1>4 DEF TakeFrame, Inv, KeysTypeOK
<1>6. SharedInv' /\ ValidInv' /\ keys' \in [Participants -> Handlers \cup {None}]
        /\ parted' \subseteq Participants
  BY <1>1, <1>5, KeyHandlerKeeps DEF TakeFrame
<1>7. KeysTypeOK'
  BY <1>5, <1>6 DEF TakeFrame, Inv, KeysTypeOK
<1> QED BY <1>6, <1>7 DEF Inv

LEMMA DecryptKeeps ==
  ASSUME Inv, NEW p \in Participants, Decrypt(p)
  PROVE  Inv'
<1>1. KeysTypeOK'
  BY DEF Decrypt, Inv, KeysTypeOK, CryptorStates
<1>2. ValidInv'
  BY DEF Decrypt, Inv, ValidInv, Sound, KeyedWhileWorking, KeysTypeOK
<1>3. SharedInv'
  BY DEF Decrypt, Inv, SharedInv, Agree, Meant
<1> QED BY <1>1, <1>2, <1>3 DEF Inv

\* The derived keys of the window never fit: the salt takes the place of the password.
LEMMA NoHits ==
  ASSUME KeysTypeOK, NEW p \in Participants, work[p] # None
  PROVE  Hits(p) = {}
<1>1. work[p].key \in Materials \X {Salt}
  BY DEF KeysTypeOK, Frames
<1>2. work[p].key[1] \in Materials
  BY <1>1
<1> QED BY <1>2, FrameKeysAssumption DEF Hits, DeriveKeys

LEMMA TryWindowKeeps ==
  ASSUME Inv, NEW p \in Participants, TryWindow(p)
  PROVE  Inv'
<1> USE DEF Inv
<1> DEFINE h == SetKeyFromMaterial(keys[p], work[p].material, work[p].index)
<1>1. work[p] # None /\ Hits(p) = {}
  BY NoHits DEF TryWindow, Decrypting, Idle
<1>2. work[p] \in Frames /\ keys[p] # None /\ keys[p] \in Handlers
        /\ \E s \in Slots : keys[p].ring[s] # None
  BY <1>1 DEF KeysTypeOK, ValidInv, KeyedWhileWorking
<1>3. work[p].material \in Materials /\ work[p].index \in Indices
  BY <1>2, FrameKeysAssumption DEF Frames, Slots, Indices
<1>4. h \in Handlers /\ Sound(h) /\ \E s \in Slots : h.ring[s] # None
  BY <1>2, <1>3, WriteType, WriteSound DEF ValidInv
<1>5. h # None
  BY <1>4, FrameKeysAssumption
<1>6. /\ keys' = IF opts.window = 0 THEN keys ELSE [keys EXCEPT ![p] = h]
      /\ lastDec' = [lastDec EXCEPT ![p] = lastDec[p]]
      /\ work' = [work EXCEPT ![p] = [work[p] EXCEPT !.failed = TRUE]]
      /\ UNCHANGED <<opts, shared, half, lastEnc, parted, calls>>
  BY <1>1 DEF TryWindow
<1> HIDE DEF h
<1>7. [work[p] EXCEPT !.failed = TRUE] \in Frames
  BY <1>2 DEF Frames
<1>8. keys' \in [Participants -> Handlers \cup {None}]
  BY <1>4, <1>6 DEF KeysTypeOK
<1>9. KeysTypeOK'
  BY <1>6, <1>7, <1>8 DEF KeysTypeOK
<1>10. ValidInv'
  <2>1. keys'[p] = keys[p] \/ keys'[p] = h
    BY <1>6 DEF KeysTypeOK
  <2>2. \A q \in Participants \ {p} : keys'[q] = keys[q] /\ work'[q] = work[q]
    BY <1>6 DEF KeysTypeOK
  <2> QED BY <1>2, <1>4, <1>5, <1>6, <2>1, <2>2 DEF ValidInv, Sound, KeyedWhileWorking
<1>11. SharedInv'
  <2>1. opts.shared => keys' = keys
    BY <1>6, FrameKeysAssumption DEF KeysTypeOK
  <2>2. Meant' = Meant
    BY <1>6 DEF Meant
  <2> QED BY <1>6, <2>1, <2>2 DEF SharedInv, Agree
<1> QED BY <1>9, <1>10, <1>11

LEMMA CountFailureKeeps ==
  ASSUME Inv, NEW p \in Participants, CountFailure(p)
  PROVE  Inv'
<1> USE DEF Inv
<1> DEFINE h == DecryptionFailure(keys[p])
<1>1. work[p] # None /\ keys[p] # None /\ keys[p] \in Handlers
        /\ \E s \in Slots : keys[p].ring[s] # None
  BY DEF CountFailure, Idle, KeysTypeOK, ValidInv, KeyedWhileWorking
<1>2. h \in Handlers /\ Agree(h, keys[p]) /\ Sound(h) /\ h # None
  BY <1>1, FailureType, FrameKeysAssumption DEF ValidInv
<1>3. /\ keys' = [keys EXCEPT ![p] = h]
      /\ lastDec' \in [Participants -> CryptorStates]
      /\ work' = [work EXCEPT ![p] = None]
      /\ UNCHANGED <<opts, shared, half, lastEnc, parted, calls>>
  BY DEF CountFailure, KeysTypeOK, CryptorStates
<1> HIDE DEF h
<1>4. /\ keys'[p] = h
      /\ \A q \in Participants \ {p} : keys'[q] = keys[q] /\ work'[q] = work[q]
      /\ work'[p] = None
      /\ keys' \in [Participants -> Handlers \cup {None}]
  BY <1>2, <1>3 DEF KeysTypeOK
<1>5. KeysTypeOK'
  BY <1>3, <1>4 DEF KeysTypeOK
<1>6. ValidInv'
  BY <1>2, <1>3, <1>4 DEF ValidInv, Sound, KeyedWhileWorking
<1>7. SharedInv'
  <2>1. Meant' = Meant
    BY <1>3 DEF Meant
  <2> QED BY <1>1, <1>2, <1>3, <1>4, <2>1 DEF SharedInv, Agree
<1> QED BY <1>5, <1>6, <1>7

----------------------------------------------------------------------------
LEMMA NextInv == Inv /\ [KeysNext]_keyVars => Inv'
<1> SUFFICES ASSUME Inv, [KeysNext]_keyVars PROVE Inv'
  OBVIOUS
<1>1. CASE Application
  BY <1>1, SetSharedKeyKeeps, SetSharedKeyEndKeeps, RatchetKeeps, SetOwnKeyKeeps DEF Application
<1>2. ASSUME NEW p \in Participants, Cryptor(p) PROVE Inv'
  BY <1>2, NoHandlerKeeps, MissingKeyKeeps, TakeFrameKeeps, DecryptKeeps, TryWindowKeeps,
     CountFailureKeeps DEF Cryptor
<1>3. CASE UNCHANGED keyVars
  BY <1>3 DEF keyVars, Inv, KeysTypeOK, SharedInv, Agree, Meant, ValidInv, Sound,
     KeyedWhileWorking
<1> QED BY <1>1, <1>2, <1>3 DEF KeysNext

\* Every variable keeps its type, for any number of participants and keys.
THEOREM TypeCorrect == KeysSpec => []KeysTypeOK
<1>1. Inv => KeysTypeOK
  BY DEF Inv
<1> QED BY <1>1, InitInv, NextInv, PTL DEF KeysSpec

\* DefaultKeyProvider: participants hold the shared key and the shared position,
\* with the three exceptions.
THEOREM SharedKeyIsShared == KeysSpec => []SharedKeyHolds
<1>1. Inv => SharedKeyHolds
  BY DEF Inv, SharedInv, SharedKeyHolds, Meant, Agree
<1> QED BY <1>1, InitInv, NextInv, PTL DEF KeysSpec

\* A key becomes invalid by failures, as many as are tolerated, and never otherwise.
THEOREM OnlyFailuresInvalidate == KeysSpec => []ValidUntilTolerance
<1>1. Inv => ValidUntilTolerance
  BY DEF Inv, ValidInv, ValidUntilTolerance, Sound
<1> QED BY <1>1, InitInv, NextInv, PTL DEF KeysSpec

----------------------------------------------------------------------------
(* Without a shared key.                                                   *)

Chosen == Passwords \X {0}

OnlyChosen(h) == \A s \in Slots : h.ring[s] # None => h.ring[s] \in Chosen

\* NoKeyIsInvented, with what may yet be written: the material a frame was tried with.
OwnInv ==
  ~opts.shared =>
    /\ shared = None /\ half = None
    /\ \A p \in Participants : keys[p] # None => OnlyChosen(keys[p])
    /\ \A p \in Participants : work[p] # None => work[p].material \in Chosen

\* setKeyFromMaterial: the ring holds the material besides what it held.
LEMMA WriteChosen ==
  ASSUME NEW h \in Handlers, NEW m \in Chosen, NEW i \in Indices \cup {None}, OnlyChosen(h)
  PROVE  OnlyChosen(SetKeyFromMaterial(h, m, i)) /\ OnlyChosen(SetKey(h, m, i))
<1> DEFINE cur == IF i = None THEN h.cur ELSE BoundIndex(i) % RingSize
<1>1. /\ SetKeyFromMaterial(h, m, i).ring = [h.ring EXCEPT ![cur] = m]
      /\ SetKey(h, m, i).ring = [h.ring EXCEPT ![cur] = m]
  BY DEF SetKey, SetHasValidKey, SetKeyFromMaterial
<1>2. h.ring \in [Slots -> Materials \cup {None}]
  BY DEF Handlers
<1> HIDE DEF cur
<1>3. \A s \in Slots : [h.ring EXCEPT ![cur] = m][s] \in {m, h.ring[s]}
  BY <1>2
<1> QED BY <1>1, <1>3 DEF OnlyChosen

LEMMA ChosenKeeps ==
  ASSUME Inv, OwnInv, [KeysNext]_keyVars, ~opts.shared
  PROVE  OwnInv'
<1> USE DEF Inv
<1>1. shared = None /\ half = None
  BY DEF OwnInv
<1>2. Chosen \subseteq Materials
  BY MaterialTypes DEF Chosen
<1>3. CASE UNCHANGED keyVars
  BY <1>3 DEF keyVars, OwnInv, OnlyChosen
<1>4. CASE Application
  <2>1. PICK p \in Participants, w \in Passwords, i \in Indices \cup {None} : SetOwnKey(p, w, i)
    BY <1>1, <1>4 DEF Application, SetSharedKey, SetSharedKeyEnd, RatchetSharedKey
  <2> DEFINE h == Handler(keys[p])
  <2>2. keys' = [keys EXCEPT ![p] = SetKey(h, <<w, 0>>, i)] /\ UNCHANGED <<opts, shared, half, work>>
    BY <2>1 DEF SetOwnKey
  <2>3. h \in Handlers /\ OnlyChosen(h)
    <3>1. OnlyChosen(NewHandler)
      BY DEF OnlyChosen, NewHandler
    <3> QED BY <3>1, NewHandlerType DEF Handler, KeysTypeOK, OwnInv
  <2>4. <<w, 0>> \in Chosen
    BY DEF Chosen
  <2> HIDE DEF h
  <2>5. OnlyChosen(SetKey(h, <<w, 0>>, i))
    BY <2>3, <2>4, WriteChosen
  <2>6. \A q \in Participants : keys'[q] \in {keys[q], SetKey(h, <<w, 0>>, i)}
    BY <2>2 DEF KeysTypeOK
  <2>7. \A q \in Participants : keys'[q] # None => OnlyChosen(keys'[q])
    BY <2>5, <2>6 DEF OwnInv
  <2> QED BY <1>1, <2>2, <2>7 DEF OwnInv, OnlyChosen
<1>5. ASSUME NEW p \in Participants, Cryptor(p)
      PROVE  OwnInv'
  <2>1. UNCHANGED <<opts, shared, half>>
    BY <1>5 DEF Cryptor, NoHandler, MissingKey, TakeFrame, Decrypt, TryWindow, CountFailure
  <2>2. CASE \/ NoHandler(p) \/ Decrypt(p)
             \/ \E i \in Indices : MissingKey(p, i)
    <3>1. keys' = keys
      BY <2>2 DEF NoHandler, MissingKey, Decrypt, KeyHandler
    <3>2. \A q \in Participants : work'[q] # None => work'[q] = work[q]
      BY <2>2 DEF NoHandler, MissingKey, Decrypt, KeysTypeOK
    <3> QED BY <1>1, <2>1, <3>1, <3>2 DEF OwnInv, OnlyChosen
  <2>3. ASSUME NEW m \in Materials, NEW i \in Slots, TakeFrame(p, m, i)
        PROVE  OwnInv'
    <3>1. keys' = keys /\ keys[p] # None /\ HasKey(keys[p], i)
      BY <2>3 DEF TakeFrame, KeyHandler
    <3>2. KeySet(keys[p], i) = keys[p].ring[i] /\ KeySet(keys[p], i) # None
      BY <3>1, FrameKeysAssumption DEF HasKey, KeySet, BoundIndex, Slots
    <3>3. KeySet(keys[p], i) \in Chosen
      BY <3>1, <3>2 DEF OwnInv, OnlyChosen
    <3>4. work' = [work EXCEPT ![p] = [key |-> DeriveKeys(Salt, m), index |-> i,
                                       material |-> KeySet(keys[p], i), failed |-> FALSE]]
      BY <2>3, <3>1 DEF TakeFrame
    <3>5. \A q \in Participants : work'[q] = work[q] \/ work'[q].material \in Chosen
      BY <3>3, <3>4 DEF KeysTypeOK
    <3> QED BY <1>1, <2>1, <3>1, <3>5 DEF OwnInv, OnlyChosen
  <2>4. CASE TryWindow(p)
    <3> DEFINE h == SetKeyFromMaterial(keys[p], work[p].material, work[p].index)
    <3>1. work[p] # None /\ Hits(p) = {}
      BY <2>4, NoHits DEF TryWindow, Decrypting, Idle
    <3>2. keys[p] # None /\ keys[p] \in Handlers /\ work[p] \in Frames
      BY <3>1 DEF KeysTypeOK, ValidInv, KeyedWhileWorking
    <3>3. work[p].material \in Chosen /\ work[p].index \in Indices /\ OnlyChosen(keys[p])
      BY <3>1, <3>2, FrameKeysAssumption DEF OwnInv, Frames, Slots, Indices
    <3>4. OnlyChosen(h)
      BY <3>2, <3>3, WriteChosen
    <3>5. /\ keys' = IF opts.window = 0 THEN keys ELSE [keys EXCEPT ![p] = h]
          /\ work' = [work EXCEPT ![p] = [work[p] EXCEPT !.failed = TRUE]]
      BY <2>4, <3>1 DEF TryWindow
    <3> HIDE DEF h
    <3>6. \A q \in Participants : keys'[q] \in {keys[q], h}
      BY <3>5 DEF KeysTypeOK
    <3>7. [work[p] EXCEPT !.failed = TRUE].material = work[p].material
      BY <3>2 DEF Frames
    <3>8. \A q \in Participants : work'[q] # None => work'[q].material \in Chosen
      BY <3>3, <3>5, <3>7 DEF OwnInv, KeysTypeOK
    <3>9. \A q \in Participants : keys'[q] # None => OnlyChosen(keys'[q])
      BY <3>4, <3>6 DEF OwnInv
    <3> QED BY <1>1, <2>1, <3>8, <3>9 DEF OwnInv, OnlyChosen
  <2>5. CASE CountFailure(p)
    <3> DEFINE h == DecryptionFailure(keys[p])
    <3>1. work[p] # None /\ keys[p] # None /\ OnlyChosen(keys[p]) /\ keys[p] \in Handlers
      BY <2>5 DEF CountFailure, Idle, KeysTypeOK, ValidInv, KeyedWhileWorking, OwnInv
    <3>2. h.ring = keys[p].ring
      BY DEF DecryptionFailure
    <3>3. keys' = [keys EXCEPT ![p] = h] /\ work' = [work EXCEPT ![p] = None]
      BY <2>5 DEF CountFailure
    <3>4. OnlyChosen(h)
      BY <3>1, <3>2 DEF OnlyChosen
    <3> HIDE DEF h
    <3>5. \A q \in Participants : keys'[q] \in {keys[q], h} /\ work'[q] \in {work[q], None}
      BY <3>3 DEF KeysTypeOK
    <3>6. \A q \in Participants : keys'[q] # None => OnlyChosen(keys'[q])
      BY <3>4, <3>5 DEF OwnInv
    <3>7. \A q \in Participants : work'[q] # None => work'[q].material \in Chosen
      BY <3>5 DEF OwnInv
    <3> QED BY <1>1, <2>1, <3>6, <3>7 DEF OwnInv, OnlyChosen
  <2> QED BY <1>5, <2>2, <2>3, <2>4, <2>5 DEF Cryptor
<1> QED BY <1>3, <1>4, <1>5 DEF KeysNext

\* decryptFrame: whatever the frames of others are encrypted with, and whenever the
\* application sets a key, the ring of a provider that shares no key holds nothing but keys
\* the application has chosen.
THEOREM RingsHoldChosenKeys == KeysSpec => []NoKeyIsInvented
<1>1. KeysInit => OwnInv
  BY DEF KeysInit, OwnInv
<1>2. Inv /\ OwnInv /\ [KeysNext]_keyVars => OwnInv'
  <2>1. [KeysNext]_keyVars => UNCHANGED opts
    BY DEF KeysNext, keyVars, Application, SetSharedKey, SetSharedKeyEnd, RatchetSharedKey,
       SetOwnKey, Cryptor, NoHandler, MissingKey, TakeFrame, Decrypt, TryWindow, CountFailure
  <2>2. opts.shared /\ UNCHANGED opts => OwnInv'
    BY DEF OwnInv
  <2> QED BY <2>1, <2>2, ChosenKeeps
<1>3. OwnInv => NoKeyIsInvented
  BY DEF OwnInv, NoKeyIsInvented, OnlyChosen, Chosen
<1> QED BY <1>1, <1>2, <1>3, InitInv, NextInv, PTL DEF KeysSpec

(***************************************************************************)
(* FrameFormat: a frame on its way.                                        *)
(***************************************************************************)

Bytes == 0..255

\* The trailer of the server does not look like the last bytes of an encrypted frame, which
\* decryptFrame would otherwise take for a frame of the server.
SifIsApart ==
  \/ Sif = <<>> \/ Sif[Len(Sif)] \notin KeyIndexes
  \/ Len(Sif) > 1 /\ Sif[Len(Sif) - 1] # IvSize

\* Bytes keep their order when some of them are escaped.
LEMMA PlacesAreOrdered ==
  ASSUME NEW n \in Nat, NEW N \in SUBSET (1..n), NEW i \in 1..n, NEW j \in 1..n, i < j
  PROVE  PlaceOf(N, i) \in Nat /\ PlaceOf(N, j) \in Nat /\ PlaceOf(N, i) < PlaceOf(N, j)
<1> DEFINE U(m) == {k \in N : k <= m}
<1>1. IsFiniteSet(1..n)
  BY FS_Interval
<1>2. IsFiniteSet(N)
  BY <1>1, FS_Subset
<1>3. U(i) \in SUBSET N /\ U(j) \in SUBSET N /\ U(i) \in SUBSET U(j)
  <2>1. \A k \in N : k \in Nat
    OBVIOUS
  <2>2. \A k \in N : k <= i => k <= j
    BY <2>1
  <2>3. QED  BY <2>2
<1>4. IsFiniteSet(U(i)) /\ IsFiniteSet(U(j))
  BY <1>2, <1>3, FS_Subset
<1>5. Cardinality(U(i)) \in Nat /\ Cardinality(U(j)) \in Nat /\ Cardinality(U(i)) <= Cardinality(U(j))
  BY <1>3, <1>4, FS_Subset, FS_CardinalityType
<1>6. PlaceOf(N, i) = i + Cardinality(U(i)) /\ PlaceOf(N, j) = j + Cardinality(U(j))
  BY DEF PlaceOf
<1> HIDE DEF U
<1>7. QED  BY <1>5, <1>6

\* The last two bytes are not escaped if the first of them is no zero, and stay the last.
LEMMA EscapeFacts ==
  ASSUME NEW s \in Seq(Bytes), Len(s) > 1, s[Len(s) - 1] > 3
  PROVE  LET e == Escape(s) IN
         /\ e \in Seq(Bytes) /\ Len(e) >= Len(s)
         /\ e[Len(e)] = s[Len(s)] /\ e[Len(e) - 1] = s[Len(s) - 1]
<1> DEFINE e == Escape(s)
           n == Len(s)
           N == NeedsEscape(s)
           c == Cardinality(N)
<1>1. n \in Nat /\ n > 1 /\ \A i \in 1..n : s[i] \in Bytes
  OBVIOUS
<1>2. IsFiniteSet(N) /\ c \in Nat
  <2>1. IsFiniteSet(1..n) /\ N \in SUBSET (1..n)
    BY <1>1, FS_Interval DEF NeedsEscape
  <2> HIDE DEF N
  <2>2. IsFiniteSet(N)
    BY <2>1, FS_Subset
  <2>3. QED  BY <2>2, FS_CardinalityType
<1>3. n \notin N
  <2>1. {j \in 1..(n - 1) : \A k \in j..(n - 1) : s[k] = 0} = {}
    <3>1. s[n - 1] # 0
      BY <1>1
    <3>2. ASSUME NEW j \in 1..(n - 1) PROVE n - 1 \in j..(n - 1)
      BY <1>1
    <3>3. QED  BY <3>1, <3>2
  <2>2. ZerosBefore(s, n) = 0
    BY <2>1, FS_EmptySet DEF ZerosBefore
  <2>3. QED  BY <2>2 DEF NeedsEscape
<1>4. PlaceOf(N, n) = n + c /\ PlaceOf(N, n - 1) = n - 1 + c
  <2>1. \A k \in N : k \in 1..n
    BY DEF NeedsEscape
  <2> HIDE DEF N
  <2>2. {k \in N : k <= n} = N
    BY <2>1
  <2>3. {k \in N : k <= n - 1} = N
    BY <1>1, <1>3, <2>1
  <2>4. QED  BY <2>2, <2>3 DEF PlaceOf, N
<1> DEFINE at == [i \in 1..n |-> PlaceOf(N, i)]
<1>5. e = [m \in 1..(n + c) |-> IF \E i \in 1..n : at[i] = m
                               THEN s[CHOOSE i \in 1..n : at[i] = m] ELSE 3]
  BY DEF Escape
<1>6. \A i \in 1..n : at[i] = PlaceOf(N, i)
  OBVIOUS
<1>7. N \in SUBSET (1..n)
  BY DEF NeedsEscape
<1> HIDE DEF e, N, c, at
<1>8. ASSUME NEW m \in 1..(n + c) PROVE e[m] \in Bytes
  <2>1. CASE \E i \in 1..n : at[i] = m
    <3>1. (CHOOSE i \in 1..n : at[i] = m) \in 1..n
      BY <2>1
    <3>2. QED  BY <1>1, <1>5, <2>1, <3>1
  <2>2. CASE ~\E i \in 1..n : at[i] = m
    BY <1>5, <2>2 DEF Bytes
  <2>3. QED  BY <2>1, <2>2
<1>9. e \in Seq(Bytes) /\ Len(e) = n + c
  <2>1. e \in [1..(n + c) -> Bytes]
    BY <1>5, <1>8
  <2>2. n + c \in Nat
    BY <1>1, <1>2
  <2>3. QED  BY <2>1, <2>2
<1>10. ASSUME NEW i \in 1..n, at[i] \in 1..(n + c) PROVE e[at[i]] = s[i]
  <2> DEFINE m == at[i]
             k == CHOOSE k \in 1..n : at[k] = m
  <2>1. k \in 1..n /\ at[k] = m
    OBVIOUS
  <2>2. e[m] = s[k]
    BY <1>5, <1>10
  <2> HIDE DEF k
  <2>3. k = i
    <3>1. PlaceOf(N, k) = PlaceOf(N, i)
      BY <1>6, <2>1
    <3>2. i < k => FALSE
      BY <1>1, <1>7, <2>1, <3>1, PlacesAreOrdered
    <3>3. k < i => FALSE
      BY <1>1, <1>7, <2>1, <3>1, PlacesAreOrdered
    <3>4. QED  BY <1>1, <2>1, <3>2, <3>3
  <2>4. QED  BY <2>2, <2>3
<1>11. e[n + c] = s[n]
  <2>1. n \in 1..n /\ n + c \in 1..(n + c) /\ at[n] = n + c
    BY <1>1, <1>2, <1>4, <1>6
  <2>2. QED  BY <1>10, <2>1
<1>12. e[n - 1 + c] = s[n - 1]
  <2>1. n - 1 \in 1..n /\ n - 1 + c \in 1..(n + c)
    BY <1>1, <1>2
  <2>2. at[n - 1] = n - 1 + c
    BY <1>4, <1>6, <2>1
  <2>3. QED  BY <1>10, <2>1, <2>2
<1>13. n + c >= n /\ (n + c) - 1 = n - 1 + c
  BY <1>1, <1>2
<1>14. QED  BY <1>9, <1>11, <1>12, <1>13 DEF e

\* The first of several slices.
LEMMA FirstSliceFacts ==
  ASSUME NEW codec, NEW d \in Seq(Bytes), Slices(codec, d) # {}
  PROVE  /\ FirstSlice(codec, d) \in Slices(codec, d)
         /\ \A j \in Slices(codec, d) : FirstSlice(codec, d) <= j
         /\ FirstSlice(codec, d) \in 1..(Len(d) - 3)
<1> DEFINE T == Slices(codec, d)
<1>1. T \subseteq 1..(Len(d) - 3) /\ T \subseteq Nat
  BY DEF Slices, StartCodes
<1> HIDE DEF T
<1>2. T # {}
  BY DEF T
<1>3. PICK i \in T : \A j \in T : ~(j < i)
  <2>1. PICK i \in T : \A j \in T : ~(<<j, i>> \in OpToRel(<, Nat))
    BY <1>1, <1>2, WFMin, NatLessThanWellFounded, Zenon
  <2>2. \A j \in T : j \in Nat /\ i \in Nat /\ (j < i => <<j, i>> \in OpToRel(<, Nat))
    BY <1>1, Zenon DEF OpToRel
  <2>3. QED  BY <2>1, <2>2, Zenon
<1>4. FirstSlice(codec, d) = CHOOSE k \in T : \A j \in T : k <= j
  BY DEF FirstSlice, T
<1>5. FirstSlice(codec, d) \in T /\ \A j \in T : FirstSlice(codec, d) <= j
  <2>1. \A j \in T : i <= j
    BY <1>1, <1>3
  <2>2. QED  BY <1>4, <2>1
<1>6. QED  BY <1>1, <1>5 DEF T

\* Sizes of headers.
LEMMA HeaderFacts ==
  ASSUME NEW codec \in Codecs, NEW d \in Seq(Bytes)
  PROVE  /\ HeaderSize(codec, d) \in Nat
         /\ Slices(codec, d) # {} => FullHeader(codec, d) \in Nat /\ FullHeader(codec, d) > 3
<1>1. Slices(codec, d) # {} => FullHeader(codec, d) \in Nat /\ FullHeader(codec, d) > 3
  BY FirstSliceFacts DEF FullHeader, HeadOfSlice
<1>2. HeaderLimit \in Nat \ {0} /\ DefaultHeader \in Nat
  BY FrameFormatAssumption
<1>3. Slices(codec, d) # {} => FullHeader(codec, d) % HeaderLimit \in Nat
  BY <1>1, <1>2
<1>4. QED  BY <1>1, <1>2, <1>3 DEF HeaderSize

\* A size that does not wrap.
LEMMA SmallRemainder ==
  ASSUME NEW m \in Nat, NEW n \in Nat, m < n
  PROVE  m % n = m
OBVIOUS

\* One sequence after another, and a part of a sequence.
LEMMA JoinFacts ==
  ASSUME NEW S, NEW a \in Seq(S), NEW b \in Seq(S), NEW d, d = a \o b
  PROVE  /\ d \in Seq(S) /\ Len(d) = Len(a) + Len(b) /\ Len(a) \in Nat /\ Len(b) \in Nat
         /\ \A i \in 1..Len(a) : d[i] = a[i]
         /\ \A i \in 1..Len(b) : d[Len(a) + i] = b[i]
OBVIOUS

LEMMA PartFacts ==
  ASSUME NEW S, NEW d \in Seq(S), NEW s \in Seq(S), NEW p \in Nat, p + Len(s) <= Len(d),
         \A i \in 1..Len(s) : d[p + i] = s[i]
  PROVE  SubSeq(d, p + 1, p + Len(s)) = s
<1> DEFINE t == SubSeq(d, p + 1, p + Len(s))
<1>1. t \in Seq(S) /\ Len(t) = Len(s) /\ Len(s) \in Nat
  OBVIOUS
<1>2. ASSUME NEW i \in 1..Len(s) PROVE t[i] = s[i]
  <2>1. t[i] = d[(p + 1) + i - 1]
    OBVIOUS
  <2>2. (p + 1) + i - 1 = p + i
    BY <1>1
  <2>3. QED  BY <2>1, <2>2
<1> HIDE DEF t
<1>3. t = s
  BY <1>1, <1>2
<1>4. QED  BY <1>3 DEF t

\* The header is found again in a frame that starts with it, if no slice was added.
LEMMA HeaderIsFound ==
  ASSUME NEW codec \in Codecs, NEW c \in Seq(Bytes), NEW d \in Seq(Bytes),
         HeaderSize(codec, c) <= Len(c), HeaderSize(codec, c) <= Len(d),
         \A i \in 1..HeaderSize(codec, c) : d[i] = c[i],
         codec # "other" /\ Slices(codec, c) # {} => FullHeader(codec, c) < HeaderLimit,
         codec # "other" => Slices(codec, d) \subseteq Slices(codec, c)
  PROVE  HeaderSize(codec, d) = HeaderSize(codec, c)
<1>1. CASE codec = "other"
  BY <1>1 DEF HeaderSize
<1>2. CASE codec # "other" /\ Slices(codec, c) = {}
  BY <1>2 DEF HeaderSize
<1>3. CASE codec # "other" /\ Slices(codec, c) # {}
  <2> DEFINE m == FirstSlice(codec, c)
             size == FullHeader(codec, c)
  <2>1. HeaderLimit \in Nat \ {0} /\ size \in Nat /\ size < HeaderLimit
    BY <1>3, FrameFormatAssumption, HeaderFacts
  <2>2. HeaderSize(codec, c) = size
    <3>1. HeaderSize(codec, c) = size % HeaderLimit
      BY <1>3 DEF HeaderSize
    <3>2. QED  BY <2>1, <3>1, SmallRemainder
  <2>3. m \in 1..(Len(c) - 3) /\ m \in Slices(codec, c) /\ \A j \in Slices(codec, c) : m <= j
    BY <1>3, FirstSliceFacts
  <2>4. m + 3 < size
    BY <2>3 DEF FullHeader, HeadOfSlice
  <2> HIDE DEF size, m
  <2>5. /\ m \in Nat /\ m > 0 /\ Len(d) \in Nat /\ size <= Len(d)
        /\ m \in 1..size /\ m + 1 \in 1..size /\ m + 2 \in 1..size /\ m + 3 \in 1..size
    BY <2>1, <2>2, <2>3, <2>4
  <2>6. d[m] = c[m] /\ d[m + 1] = c[m + 1] /\ d[m + 2] = c[m + 2] /\ d[m + 3] = c[m + 3]
    BY <2>2, <2>5
  <2>7. c[m] = 0 /\ c[m + 1] = 0 /\ c[m + 2] = 1 /\ IsSlice(codec, c[m + 3])
    BY <2>3 DEF Slices, StartCodes
  <2>8. m \in 1..(Len(d) - 3)
    BY <2>1, <2>4, <2>5
  <2>9. m \in Slices(codec, d)
    <3>1. IsSlice(codec, d[m + 3])
      BY <2>6, <2>7
    <3>2. QED  BY <2>6, <2>7, <2>8, <3>1 DEF Slices, StartCodes
  <2>10. /\ FirstSlice(codec, d) \in Slices(codec, d) /\ FirstSlice(codec, d) \in Nat
         /\ FirstSlice(codec, d) <= m
    BY <2>9, FirstSliceFacts
  <2>11. FirstSlice(codec, d) = m
    BY <1>3, <2>3, <2>5, <2>10
  <2>12. HeaderSize(codec, d) = HeaderSize(codec, c)
    BY <1>3, <2>9, <2>11 DEF HeaderSize, FullHeader, m
  <2>13. QED  BY <2>12
<1>4. QED  BY <1>1, <1>2, <1>3

IsLaidOut(d, head, sealed, iv, k) == d = head \o sealed \o iv \o Trailer(k)

\* The parts of a frame that was not escaped are found where they were put.
LEMMA PartsAreFound ==
  ASSUME NEW head \in Seq(Bytes), NEW sealed \in Seq(Bytes), NEW iv \in Seq(Bytes),
         Len(iv) = IvSize, NEW k \in KeyIndexes,
         NEW d, IsLaidOut(d, head, sealed, iv, k)
  PROVE  /\ d \in Seq(Bytes) /\ Len(d) = Len(head) + Len(sealed) + IvSize + 2
         /\ d[Len(d) - 1] = IvSize /\ d[Len(d)] = k
         /\ SubSeq(d, 1, Len(head)) = head /\ \A i \in 1..Len(head) : d[i] = head[i]
         /\ PayloadOf(d, Len(head)) = sealed /\ IvOf(d) = iv
<1> DEFINE h == Len(head)
           n == Len(sealed)
<1>1. h \in Nat /\ n \in Nat /\ IvSize \in Nat /\ IvSize \in Bytes /\ k \in Bytes
  BY FrameFormatAssumption DEF Bytes
<1>2. Trailer(k) \in Seq(Bytes) /\ Len(Trailer(k)) = 2 /\ Trailer(k)[1] = IvSize /\ Trailer(k)[2] = k
  BY <1>1 DEF Trailer
<1>3. PICK a : a = head \o sealed
  OBVIOUS
<1>4. PICK b : b = a \o iv
  OBVIOUS
<1>5. d = b \o Trailer(k)
  BY <1>3, <1>4 DEF IsLaidOut
<1>6. /\ a \in Seq(Bytes) /\ Len(a) = h + n
      /\ \A i \in 1..h : a[i] = head[i]
      /\ \A i \in 1..n : a[h + i] = sealed[i]
  BY <1>3, JoinFacts
<1> HIDE DEF h, n
<1>7. /\ b \in Seq(Bytes) /\ Len(b) = h + n + IvSize
      /\ \A i \in 1..(h + n) : b[i] = a[i]
      /\ \A i \in 1..IvSize : b[(h + n) + i] = iv[i]
  <2>0. a \in Seq(Bytes) /\ iv \in Seq(Bytes)
    BY <1>6
  <2>1. /\ b \in Seq(Bytes) /\ Len(b) = Len(a) + Len(iv)
        /\ \A i \in 1..Len(a) : b[i] = a[i]
        /\ \A i \in 1..Len(iv) : b[Len(a) + i] = iv[i]
    <3> HIDE DEF h, n
    <3>1. \A x \in Seq(Bytes) : b = a \o x =>
            /\ b \in Seq(Bytes) /\ Len(b) = Len(a) + Len(x)
            /\ \A i \in 1..Len(a) : b[i] = a[i]
            /\ \A i \in 1..Len(x) : b[Len(a) + i] = x[i]
      BY <2>0, JoinFacts
    <3>2. QED  BY <1>4, <2>0, <3>1, Zenon
  <2>2. QED  BY <1>6, <2>1
<1>8. /\ d \in Seq(Bytes) /\ Len(d) = h + n + IvSize + 2
      /\ \A i \in 1..(h + n + IvSize) : d[i] = b[i]
      /\ \A i \in 1..2 : d[(h + n + IvSize) + i] = Trailer(k)[i]
  <2>0. b \in Seq(Bytes) /\ Trailer(k) \in Seq(Bytes)
    BY <1>2, <1>7
  <2>1. /\ d \in Seq(Bytes) /\ Len(d) = Len(b) + Len(Trailer(k))
        /\ \A i \in 1..Len(b) : d[i] = b[i]
        /\ \A i \in 1..Len(Trailer(k)) : d[Len(b) + i] = Trailer(k)[i]
    BY <1>5, <2>0, JoinFacts
  <2>2. QED  BY <1>2, <1>7, <2>1
<1>9. ASSUME NEW i \in 1..h PROVE d[i] = head[i]
  <2>1. i \in 1..(h + n) /\ i \in 1..(h + n + IvSize)
    BY <1>1
  <2>2. QED  BY <1>6, <1>7, <1>8, <2>1
<1>10. ASSUME NEW i \in 1..n PROVE d[h + i] = sealed[i]
  <2>1. h + i \in 1..(h + n) /\ h + i \in 1..(h + n + IvSize)
    BY <1>1
  <2>2. QED  BY <1>6, <1>7, <1>8, <2>1
<1>11. ASSUME NEW i \in 1..IvSize PROVE d[(h + n) + i] = iv[i]
  <2>1. (h + n) + i \in 1..(h + n + IvSize)
    BY <1>1
  <2>2. QED  BY <1>7, <1>8, <2>1
<1>12. d[Len(d) - 1] = IvSize /\ d[Len(d)] = k
  <2>0. 1 \in 1..2 /\ 2 \in 1..2
    OBVIOUS
  <2>1. d[(h + n + IvSize) + 1] = IvSize /\ d[(h + n + IvSize) + 2] = k
    BY <1>2, <1>8, <2>0
  <2>2. Len(d) - 1 = (h + n + IvSize) + 1 /\ Len(d) = (h + n + IvSize) + 2
    BY <1>1, <1>8
  <2>3. QED  BY <2>1, <2>2
<1>13. SubSeq(d, 1, h) = head
  <2>1. SubSeq(d, 0 + 1, 0 + Len(head)) = head
    BY <1>1, <1>8, <1>9, PartFacts DEF h
  <2>2. QED  BY <2>1 DEF h
<1>14. SubSeq(d, h + 1, Len(d) - 2 - IvSize) = sealed
  <2>1. Len(d) - 2 - IvSize = h + n
    BY <1>1, <1>8
  <2>2. SubSeq(d, h + 1, h + Len(sealed)) = sealed
    <3>0. Len(sealed) = n
      BY DEF n
    <3>1. h + Len(sealed) <= Len(d)
      BY <1>1, <1>8, <3>0
    <3>2. \A i \in 1..Len(sealed) : d[h + i] = sealed[i]
      BY <1>10, <3>0
    <3>3. QED  BY <1>1, <1>8, <3>1, <3>2, PartFacts
  <2>3. QED  BY <2>1, <2>2 DEF n
<1>15. SubSeq(d, Len(d) - 1 - IvSize, Len(d) - 2) = iv
  <2>1. Len(d) - 1 - IvSize = (h + n) + 1 /\ Len(d) - 2 = (h + n) + IvSize /\ h + n \in Nat
    BY <1>1, <1>8
  <2>2. SubSeq(d, (h + n) + 1, (h + n) + Len(iv)) = iv
    <3>0. (h + n) + Len(iv) <= Len(d)
      BY <1>1, <1>8
    <3>1. \A i \in 1..Len(iv) : d[(h + n) + i] = iv[i]
      BY <1>11
    <3>2. QED  BY <1>8, <2>1, <3>0, <3>1, PartFacts
  <2>3. QED  BY <2>1, <2>2
<1>16. QED  BY <1>8, <1>9, <1>12, <1>13, <1>14, <1>15 DEF h, n, PayloadOf, IvOf

\* The parts of a frame on its way.
HeaderOf(codec, clear) == SubSeq(clear, 1, HeaderSize(codec, clear))
Parts(head, sealed, iv, k) == [head |-> head, sealed |-> sealed, iv |-> iv, key |-> k]
Sealed(codec, sealed, iv, k) ==
  IF Escaped(codec) THEN Escape(sealed \o iv \o Trailer(k)) ELSE sealed \o iv \o Trailer(k)

IsMade ==
  /\ frame.codec \in Codecs /\ frame.clear \in Seq(Bytes)
  /\ HeaderSize(frame.codec, frame.clear) <= Len(frame.clear)
IsSent ==
  /\ frame.step = "sent" /\ "step" \in DOMAIN frame /\ IsMade
  /\ \E sealed \in Seq(Bytes), iv \in Seq(Bytes), k \in KeyIndexes :
       /\ Len(iv) = IvSize
       /\ frame.with = Parts(HeaderOf(frame.codec, frame.clear), sealed, iv, k)
       /\ frame.data = HeaderOf(frame.codec, frame.clear) \o Sealed(frame.codec, sealed, iv, k)
FrameInv ==
  \/ frame = NoFrame
  \/ frame.step = "clear" /\ IsMade
  \/ IsSent
  \/ frame.step = "injected" /\ frame.clear \in Seq(Bytes) /\ frame.data = frame.clear \o Sif
  \/ frame.step = "told" /\ frame.data = frame.clear
  \/ frame.step = "lost" /\ (WasEscaped \/ Wrapped \/ NewSlice)

\* What the constants are, as sequences of bytes.
LEMMA BytesFacts ==
  /\ FrameBytes \subseteq Bytes /\ KeyIndexes \subseteq Bytes /\ Sif \in Seq(Bytes)
  /\ IvSize \in Nat /\ IvSize > 3 /\ IvSize \in Bytes /\ Ivs \subseteq [1..IvSize -> FrameBytes]
BY FrameFormatAssumption DEF Bytes

\* A function on an interval is a sequence.
LEMMA IntervalFacts ==
  ASSUME NEW n \in Nat, NEW s \in [1..n -> FrameBytes]
  PROVE  s \in Seq(Bytes) /\ Len(s) = n
<1>1. s \in [1..n -> Bytes]
  BY BytesFacts
<1>2. QED  BY <1>1

\* What is behind the header ends with the trailer, escaped or not.
LEMMA SealedFacts ==
  ASSUME NEW codec, NEW sealed \in Seq(Bytes), NEW iv \in Seq(Bytes), NEW k \in KeyIndexes
  PROVE  LET r == Sealed(codec, sealed, iv, k) IN
         /\ r \in Seq(Bytes) /\ Len(r) > 1 /\ r[Len(r)] = k /\ r[Len(r) - 1] = IvSize
<1>1. PICK p : p = sealed \o iv
  OBVIOUS
<1>2. PICK t : t = Trailer(k)
  OBVIOUS
<1>3. PICK s : s = p \o t
  OBVIOUS
<1>4. p \in Seq(Bytes) /\ t \in Seq(Bytes) /\ Len(t) = 2 /\ t[1] = IvSize /\ t[2] = k
  <2>1. p \in Seq(Bytes)
    BY <1>1
  <2>2. t \in Seq(Bytes) /\ Len(t) = 2 /\ t[1] = IvSize /\ t[2] = k
    BY <1>2, BytesFacts DEF Trailer
  <2>3. QED  BY <2>1, <2>2
<1>5. s \in Seq(Bytes) /\ Len(s) > 1 /\ s[Len(s)] = k /\ s[Len(s) - 1] = IvSize
  <2>0. p \in Seq(Bytes) /\ t \in Seq(Bytes)
    BY <1>4
  <2>1. /\ s \in Seq(Bytes) /\ Len(s) = Len(p) + Len(t) /\ Len(p) \in Nat
        /\ \A i \in 1..Len(t) : s[Len(p) + i] = t[i]
    BY <1>3, <2>0
  <2>2. 1 \in 1..Len(t) /\ 2 \in 1..Len(t)
    BY <1>4
  <2>3. s[Len(p) + 1] = IvSize /\ s[Len(p) + 2] = k
    BY <1>4, <2>1, <2>2
  <2>4. Len(s) = Len(p) + 2 /\ Len(s) - 1 = Len(p) + 1 /\ Len(s) > 1
    BY <1>4, <2>1
  <2>5. QED  BY <2>1, <2>3, <2>4
<1>6. CASE Escaped(codec)
  <2>1. PICK e : e = Escape(s)
    OBVIOUS
  <2>2. e \in Seq(Bytes) /\ Len(e) >= Len(s) /\ e[Len(e)] = k /\ e[Len(e) - 1] = IvSize
    BY <1>5, <2>1, EscapeFacts, BytesFacts
  <2>3. Len(e) > 1
    BY <1>5, <2>2
  <2>4. e = Sealed(codec, sealed, iv, k)
    BY <1>1, <1>2, <1>3, <1>6, <2>1 DEF Sealed
  <2>5. QED  BY <2>2, <2>3, <2>4
<1>7. CASE ~Escaped(codec)
  <2>1. s = Sealed(codec, sealed, iv, k)
    BY <1>1, <1>2, <1>3, <1>7 DEF Sealed
  <2>2. QED  BY <1>5, <2>1
<1>8. QED  BY <1>6, <1>7

\* The header of a frame.
LEMMA HeaderOfFacts ==
  ASSUME NEW codec \in Codecs, NEW clear \in Seq(Bytes), HeaderSize(codec, clear) <= Len(clear)
  PROVE  /\ HeaderOf(codec, clear) \in Seq(Bytes)
         /\ Len(HeaderOf(codec, clear)) = HeaderSize(codec, clear) /\ HeaderSize(codec, clear) \in Nat
         /\ \A i \in 1..HeaderSize(codec, clear) : HeaderOf(codec, clear)[i] = clear[i]
<1> DEFINE size == HeaderSize(codec, clear)
<1>1. size \in Nat
  BY HeaderFacts
<1> HIDE DEF size
<1>2. /\ SubSeq(clear, 1, size) \in Seq(Bytes) /\ Len(SubSeq(clear, 1, size)) = size
      /\ \A i \in 1..size : SubSeq(clear, 1, size)[i] = clear[i]
  BY <1>1 DEF size
<1>3. QED  BY <1>1, <1>2 DEF HeaderOf, size

\* No encrypted frame ends with the trailer of the server.
LEMMA SentIsApart ==
  ASSUME SifIsApart, IsSent
  PROVE  ~EndsWithSif(frame.data)
<1>1. PICK sealed \in Seq(Bytes), iv \in Seq(Bytes), k \in KeyIndexes :
        frame.data = HeaderOf(frame.codec, frame.clear) \o Sealed(frame.codec, sealed, iv, k)
  BY DEF IsSent
<1>2. PICK h : h = HeaderOf(frame.codec, frame.clear)
  OBVIOUS
<1>3. PICK r : r = Sealed(frame.codec, sealed, iv, k)
  OBVIOUS
<1>4. h \in Seq(Bytes)
  BY <1>2, HeaderOfFacts DEF IsSent, IsMade
<1>5. r \in Seq(Bytes) /\ Len(r) > 1 /\ r[Len(r)] = k /\ r[Len(r) - 1] = IvSize
  BY <1>3, SealedFacts
<1>6. PICK d : d = h \o r
  OBVIOUS
<1>7. /\ d \in Seq(Bytes) /\ Len(d) = Len(h) + Len(r) /\ Len(h) \in Nat /\ Len(r) \in Nat
      /\ \A i \in 1..Len(r) : d[Len(h) + i] = r[i]
  BY <1>4, <1>5, <1>6, JoinFacts
<1>8. d[Len(d)] = k /\ d[Len(d) - 1] = IvSize /\ Len(d) > 1
  <2>1. Len(r) \in 1..Len(r) /\ Len(r) - 1 \in 1..Len(r) /\ Len(d) - 1 = Len(h) + (Len(r) - 1)
    BY <1>5, <1>7
  <2>2. d[Len(h) + Len(r)] = r[Len(r)] /\ d[Len(h) + (Len(r) - 1)] = r[Len(r) - 1]
    BY <1>7, <2>1
  <2>3. Len(d) > 1 /\ Len(d) = Len(h) + Len(r)
    BY <1>5, <1>7
  <2>4. QED  BY <1>5, <2>1, <2>2, <2>3
<1>9. frame.data = d
  BY <1>1, <1>2, <1>3, <1>6
<1>10. ASSUME EndsWithSif(d) PROVE FALSE
  <2>1. PICK n : n = Len(Sif)
    OBVIOUS
  <2>2. Sif \in Seq(Bytes) /\ Sif # <<>> /\ n \in Nat /\ n > 0 /\ n <= Len(d)
    BY <1>10, <2>1, BytesFacts DEF EndsWithSif
  <2>3. \A i \in 1..n : Sif[i] = d[(Len(d) - n + 1) + i - 1]
    <3>1. Sif = SubSeq(d, Len(d) - n + 1, Len(d))
      BY <1>10, <2>1 DEF EndsWithSif
    <3>2. QED  BY <1>7, <2>2, <3>1
  <2>4. Sif[n] = d[Len(d)]
    <3>1. n \in 1..n /\ (Len(d) - n + 1) + n - 1 = Len(d)
      BY <1>7, <2>2
    <3>2. QED  BY <2>3, <3>1
  <2>5. n > 1 => Sif[n - 1] = d[Len(d) - 1]
    <3>1. n > 1 => n - 1 \in 1..n /\ (Len(d) - n + 1) + (n - 1) - 1 = Len(d) - 1
      BY <1>7, <2>2
    <3>2. QED  BY <2>3, <3>1
  <2>6. Len(d) > 1 /\ n # 1 => n > 1
    BY <2>2
  <2>7. QED  BY <1>8, <2>1, <2>2, <2>4, <2>5 DEF SifIsApart
<1>11. QED  BY <1>9, <1>10

\* A frame that was neither escaped nor has its first slice too far behind, and in which none
\* was added, is opened.
LEMMA SentIsOpened ==
  ASSUME IsSent, ~WasEscaped, ~Wrapped, ~NewSlice
  PROVE  Opens
<1>1. PICK sealed \in Seq(Bytes), iv \in Seq(Bytes), k \in KeyIndexes :
        /\ Len(iv) = IvSize
        /\ frame.with = Parts(HeaderOf(frame.codec, frame.clear), sealed, iv, k)
        /\ frame.data = HeaderOf(frame.codec, frame.clear) \o Sealed(frame.codec, sealed, iv, k)
  BY DEF IsSent
<1>2. PICK h : h = HeaderOf(frame.codec, frame.clear)
  OBVIOUS
<1>3. PICK d : d = frame.data
  OBVIOUS
<1>4. /\ h \in Seq(Bytes) /\ Len(h) = HeaderSize(frame.codec, frame.clear)
      /\ Len(h) \in Nat /\ \A i \in 1..Len(h) : h[i] = frame.clear[i]
  BY <1>2, HeaderOfFacts DEF IsSent, IsMade
<1>5. frame.with = Parts(h, sealed, iv, k)
  BY <1>1, <1>2
<1>6. IsLaidOut(d, h, sealed, iv, k)
  <2> SUFFICES d = h \o sealed \o iv \o Trailer(k)
    BY DEF IsLaidOut
  <2>1. CASE Escaped(frame.codec)
    BY <1>3, <1>5, <2>1 DEF WasEscaped, Parts
  <2>2. CASE ~Escaped(frame.codec)
    <3>1. d = h \o (sealed \o iv \o Trailer(k))
      BY <1>1, <1>2, <1>3, <2>2 DEF Sealed
    <3>2. Trailer(k) \in Seq(Bytes) /\ iv \in Seq(Bytes) /\ sealed \in Seq(Bytes)
      BY BytesFacts DEF Trailer
    <3>3. PICK t : t = Trailer(k)
      OBVIOUS
    <3>4. h \o (sealed \o iv \o t) = h \o sealed \o iv \o t
      BY <1>4, <3>2, <3>3
    <3>5. QED  BY <3>1, <3>3, <3>4
  <2>3. QED  BY <2>1, <2>2
<1>7. /\ d \in Seq(Bytes) /\ Len(d) = Len(h) + Len(sealed) + IvSize + 2
      /\ d[Len(d) - 1] = IvSize /\ d[Len(d)] = k
      /\ SubSeq(d, 1, Len(h)) = h /\ \A i \in 1..Len(h) : d[i] = h[i]
      /\ PayloadOf(d, Len(h)) = sealed /\ IvOf(d) = iv
  <2>1. h \in Seq(Bytes) /\ Len(iv) = IvSize
    BY <1>1, <1>4
  <2>2. QED  BY <1>6, <2>1, PartsAreFound
<1>8. HeaderSize(frame.codec, d) = Len(h)
  <2>1. HeaderSize(frame.codec, frame.clear) <= Len(d)
    BY <1>4, <1>7, BytesFacts
  <2>2. \A i \in 1..HeaderSize(frame.codec, frame.clear) : d[i] = frame.clear[i]
    BY <1>4, <1>7
  <2>3. frame.codec # "other" => Escaped(frame.codec)
    BY DEF IsSent, IsMade, Codecs, Escaped
  <2>4. frame.codec # "other" => Slices(frame.codec, d) \subseteq Slices(frame.codec, frame.clear)
    BY <1>3, <2>3 DEF NewSlice
  <2>5. frame.codec # "other" /\ Slices(frame.codec, frame.clear) # {} =>
          FullHeader(frame.codec, frame.clear) < HeaderLimit
    <3>1. ASSUME Slices(frame.codec, frame.clear) # {} PROVE FullHeader(frame.codec, frame.clear) \in Nat
      BY <3>1, HeaderFacts DEF IsSent, IsMade
    <3>2. QED  BY <2>3, <3>1, FrameFormatAssumption DEF Wrapped
  <2>6. HeaderSize(frame.codec, d) = HeaderSize(frame.codec, frame.clear)
    BY <1>7, <2>1, <2>2, <2>4, <2>5, HeaderIsFound DEF IsSent, IsMade
  <2>7. QED  BY <1>4, <2>6
<1>9. Parts(h, sealed, iv, k) = Parts(SubSeq(d, 1, Len(h)), PayloadOf(d, Len(h)), IvOf(d), d[Len(d)])
  BY <1>7
<1>10. QED  BY <1>3, <1>5, <1>7, <1>8, <1>9 DEF Opens, Parts

\* encryptFrame.
LEMMA EncryptFrameInv == FrameInv /\ EncryptFrame => FrameInv'
<1> SUFFICES ASSUME FrameInv, EncryptFrame PROVE IsSent'
  BY DEF FrameInv
<1>1. IsMade
  BY DEF EncryptFrame, FrameInv, IsSent, NoFrame
<1>2. PICK size : size = HeaderSize(frame.codec, frame.clear)
  OBVIOUS
<1>3. PICK sealed \in [1..(Len(frame.clear) - size) -> FrameBytes], iv \in Ivs, k \in KeyIndexes :
        frame' = [step |-> "sent", codec |-> frame.codec, clear |-> frame.clear,
                  with |-> Parts(SubSeq(frame.clear, 1, size), sealed, iv, k),
                  data |-> SubSeq(frame.clear, 1, size) \o Sealed(frame.codec, sealed, iv, k)]
  BY <1>2 DEF EncryptFrame, Parts, Sealed
<1>4. sealed \in Seq(Bytes)
  <2>1. size \in Nat /\ size <= Len(frame.clear) /\ Len(frame.clear) \in Nat
    BY <1>1, <1>2, HeaderOfFacts DEF IsMade
  <2>2. Len(frame.clear) - size \in Nat
    BY <2>1
  <2>3. QED  BY <2>2, IntervalFacts
<1>5. iv \in Seq(Bytes) /\ Len(iv) = IvSize
  BY BytesFacts, IntervalFacts
<1>6. /\ frame'.step = "sent" /\ "step" \in DOMAIN frame' /\ frame'.codec = frame.codec
      /\ frame'.clear = frame.clear
      /\ frame'.with = Parts(HeaderOf(frame.codec, frame.clear), sealed, iv, k)
      /\ frame'.data = HeaderOf(frame.codec, frame.clear) \o Sealed(frame.codec, sealed, iv, k)
  BY <1>2, <1>3 DEF HeaderOf
<1>7. QED  BY <1>1, <1>4, <1>5, <1>6 DEF IsSent, IsMade

\* decryptFrame, of a frame of the server and of one that was encrypted.
LEMMA PassInjectedInv == SifIsApart /\ FrameInv /\ PassInjected => FrameInv'
<1> SUFFICES ASSUME SifIsApart, FrameInv, PassInjected
             PROVE  frame'.step = "told" /\ frame'.data = frame'.clear
  BY DEF FrameInv
<1>1. frame.step = "injected" /\ frame.clear \in Seq(Bytes) /\ frame.data = frame.clear \o Sif
  BY SentIsApart DEF PassInjected, FrameInv, NoFrame
<1>2. PICK c, d : c = frame.clear /\ d = frame.data
  OBVIOUS
<1>3. /\ d \in Seq(Bytes) /\ Len(d) = Len(c) + Len(Sif) /\ Len(c) \in Nat /\ Len(Sif) \in Nat
      /\ \A i \in 1..Len(c) : d[i] = c[i]
  <2>1. c \in Seq(Bytes) /\ Sif \in Seq(Bytes) /\ d = c \o Sif
    BY <1>1, <1>2, BytesFacts
  <2>2. QED  BY <2>1
<1>4. SubSeq(d, 1, Len(d) - Len(Sif)) = c
  <2>1. Len(d) - Len(Sif) = 0 + Len(c) /\ 0 + Len(c) <= Len(d)
    BY <1>3
  <2>2. c \in Seq(Bytes) /\ \A i \in 1..Len(c) : d[0 + i] = c[i]
    BY <1>1, <1>2, <1>3
  <2>3. SubSeq(d, 0 + 1, 0 + Len(c)) = c
    BY <1>3, <2>1, <2>2, PartFacts
  <2>4. QED  BY <2>1, <2>3
<1>5. QED  BY <1>2, <1>4 DEF PassInjected

LEMMA DecryptFrameInv == FrameInv /\ DecryptFrame => FrameInv'
<1> SUFFICES ASSUME FrameInv, DecryptFrame PROVE FrameInv'
  OBVIOUS
<1>1. IsSent
  BY DEF DecryptFrame, FrameInv, NoFrame
<1>2. CASE Opens
  BY <1>2 DEF DecryptFrame, FrameInv
<1>3. CASE ~Opens
  <2>1. frame' = [frame EXCEPT !.step = "lost"]
    BY <1>3 DEF DecryptFrame
  <2>2. /\ frame'.step = "lost" /\ frame'.codec = frame.codec /\ frame'.data = frame.data
        /\ frame'.with = frame.with /\ frame'.clear = frame.clear
    BY <1>1, <2>1 DEF IsSent
  <2>3. WasEscaped \/ Wrapped \/ NewSlice
    BY <1>1, <1>3, SentIsOpened
  <2>4. WasEscaped' \/ Wrapped' \/ NewSlice'
    BY <2>2, <2>3 DEF WasEscaped, Wrapped, NewSlice
  <2>5. QED  BY <2>2, <2>4 DEF FrameInv
<1>4. QED  BY <1>2, <1>3

\* A frame that is made.
LEMMA NewFrameInv == NewFrame => FrameInv'
<1> SUFFICES ASSUME NewFrame PROVE FrameInv'
  OBVIOUS
<1>1. PICK codec \in Codecs, data \in ClearFrames :
        /\ HeaderSize(codec, data) <= Len(data)
        /\ frame' = [step |-> "clear", codec |-> codec, clear |-> data]
  BY DEF NewFrame
<1>2. PICK n \in 1..MaxFrame : data \in [1..n -> FrameBytes]
  BY DEF ClearFrames
<1>3. n \in Nat
  BY FrameFormatAssumption
<1>4. data \in Seq(Bytes)
  BY <1>2, <1>3, IntervalFacts
<1>5. QED  BY <1>1, <1>4 DEF FrameInv, IsMade

\* The server adds its trailer.
LEMMA InjectInv == FrameInv /\ Inject => FrameInv'
<1> SUFFICES ASSUME FrameInv, Inject PROVE FrameInv'
  OBVIOUS
<1>1. frame.clear \in Seq(Bytes)
  BY DEF Inject, FrameInv, IsSent, IsMade, NoFrame
<1>2. frame'.step = "injected" /\ frame'.clear = frame.clear /\ frame'.data = frame.clear \o Sif
  BY DEF Inject
<1>3. QED  BY <1>1, <1>2 DEF FrameInv

\* encryptFrame and decryptFrame, as long as the trailer of the server does not look like the end of
\* an encrypted frame: a frame that is told is the one that was sent, and one that is lost was
\* escaped, had its first slice too far behind, or seemed to have another one.
THEOREM FramesAreKept == SifIsApart /\ FrameSpec => []FramesSurvive
<1>1. FrameInit => FrameInv
  BY DEF FrameInit, FrameInv
<1>2. SifIsApart /\ FrameInv /\ [FrameNext]_frame => FrameInv'
  <2>1. FrameInv /\ UNCHANGED frame => FrameInv'
    BY DEF FrameInv, IsSent, IsMade, WasEscaped, Wrapped, NewSlice
  <2>2. QED
    BY <2>1, NewFrameInv, EncryptFrameInv, InjectInv, PassInjectedInv, DecryptFrameInv DEF FrameNext
<1>3. FrameInv => FramesSurvive
  BY DEF FrameInv, FramesSurvive, IsSent, NoFrame
<1>4. SifIsApart => SifIsApart'
  BY DEF SifIsApart
<1>5. QED  BY <1>1, <1>2, <1>3, <1>4, PTL DEF FrameSpec
=============================================================================
