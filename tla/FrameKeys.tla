---------------------------- MODULE FrameKeys ----------------------------
(***************************************************************************)
(* Keys of end-to-end encryption: DefaultKeyProvider, E2EKeyHandler and    *)
(* the use AesCgmCryptor makes of them.  One thread of the application     *)
(* sets keys, one thread per participant decrypts its frames.              *)
(***************************************************************************)
EXTENDS Naturals

CONSTANTS
  Participants,   \* identities of remote participants
  Passwords,      \* keys the application chooses
  Options,        \* the options a provider may be made with
  RingSize,       \* size of a key ring
  MaxRatchets,    \* bound: how often a password is ratcheted
  MaxCalls,       \* bound: calls of the application
  Salt, Empty, None, Forever

VARIABLES
  opts,     \* options of the provider
  shared,   \* the handler of the shared key
  keys,     \* keys[p]: the handler of a participant
  half,     \* the key setSharedKey has given to all but the shared handler
  work,     \* work[p]: the frame being decrypted, and the material read for it
  lastDec,  \* lastDec[p]: _lastDecState
  lastEnc,  \* lastEnc[p]: _lastEncState
  parted,   \* history: participants that have got another key than the others
  calls     \* calls made by the application

keyVars == <<opts, shared, keys, half, work, lastDec, lastEnc, parted, calls>>

Slots == 0..(RingSize - 1)
Materials == (Passwords \cup {Empty}) \X (0..MaxRatchets)
Handlers == [ring: [Slots -> Materials \cup {None}], cur: Slots, fails: Nat, valid: BOOLEAN]
Indices == 0..RingSize
Frames == [key: Materials \X {Salt}, index: Slots, material: Materials, failed: BOOLEAN]
Halves == [material: Materials, index: Indices \cup {None}]
CryptorStates == {"New", "Ok", "DecryptionFailed", "MissingKey"}

ASSUME FrameKeysAssumption ==
  /\ RingSize \in Nat \ {0} /\ MaxRatchets \in Nat /\ MaxCalls \in Nat
  /\ Empty \notin Passwords /\ Forever \notin Nat /\ Salt \notin Materials
  /\ None \notin Nat \cup Materials /\ None \notin Handlers
  /\ None \notin Frames /\ None \notin Halves
  /\ Options \subseteq [shared: BOOLEAN, window: Nat, tolerance: Nat \cup {Forever}]
  \* the constructor of DefaultKeyProvider, the one that shares keys
  /\ \A o \in Options : o.shared => o.window = 0 /\ o.tolerance = Forever

----------------------------------------------------------------------------
(* E2EKeyHandler.  A material is a password ratcheted so many times.       *)

NewHandler == [ring |-> [s \in Slots |-> None], cur |-> 0, fails |-> 0, valid |-> FALSE]

Ratchet(m, n) == <<m[1], m[2] + n>>

DeriveKeys(ratchetSalt, password) == <<password, ratchetSalt>>

BoundIndex(i) == IF i < RingSize THEN i ELSE RingSize

\* at() throws behind the last slot; a write takes the first slot instead.
Readable(i) == i # None => BoundIndex(i) < RingSize
KeySet(h, i) == h.ring[IF i = None THEN h.cur ELSE BoundIndex(i)]

HasKey(h, i) == i < RingSize /\ KeySet(h, i) # None

SetKeyFromMaterial(h, m, i) ==
  LET cur == IF i = None THEN h.cur ELSE BoundIndex(i) % RingSize
  IN  [ring |-> [h.ring EXCEPT ![cur] = m], cur |-> cur, fails |-> h.fails, valid |-> h.valid]

SetHasValidKey(h) == [ring |-> h.ring, cur |-> h.cur, fails |-> 0, valid |-> TRUE]

SetKey(h, m, i) == SetHasValidKey(SetKeyFromMaterial(h, m, i))

MutDecryptionFailure(h) ==
  [h EXCEPT !.fails = h.fails + 1,
            !.valid = opts.tolerance # Forever /\ h.fails + 1 < opts.tolerance]

\* Failures count until they are past the tolerance: no more of them are told apart.
DecryptionFailure(h) ==
  IF opts.tolerance = Forever THEN h
  ELSE [ring |-> h.ring, cur |-> h.cur,
        fails |-> IF h.fails <= opts.tolerance THEN h.fails + 1 ELSE h.fails,
        valid |-> h.fails + 1 < opts.tolerance]

----------------------------------------------------------------------------
(* DefaultKeyProvider, called by the application.                          *)

Call == half = None /\ calls < MaxCalls /\ calls' = calls + 1

Handler(h) == IF h = None THEN NewHandler ELSE h

\* All others change under the lock, the shared handler when it is released.
SetSharedKey(password, i) ==
  /\ Call /\ opts.shared
  /\ shared' = Handler(shared)
  /\ keys' = [p \in Participants |->
                IF keys[p] = None THEN None ELSE SetKey(keys[p], <<password, 0>>, i)]
  /\ half' = [material |-> <<password, 0>>, index |-> i]
  /\ UNCHANGED <<opts, work, lastDec, lastEnc, parted>>

MutSetSharedKeyEnd ==
  /\ half # None
  /\ shared' = SetKey(shared, half.material, None)
  /\ half' = None
  /\ UNCHANGED <<opts, keys, work, lastDec, lastEnc, parted, calls>>

SetSharedKeyEnd ==
  /\ half # None
  /\ shared' = SetKey(shared, half.material, half.index)
  /\ half' = None
  /\ UNCHANGED <<opts, keys, work, lastDec, lastEnc, parted, calls>>

\* With nothing to ratchet the others are given an empty key all the same.
RatchetSharedKey(i) ==
  /\ Call /\ shared # None /\ Readable(i)
  /\ LET old == KeySet(shared, i)
         new == IF old = None THEN <<Empty, 0>> ELSE Ratchet(old, 1)
     IN  /\ new \in Materials
         /\ shared' = IF old = None THEN shared ELSE SetKey(shared, new, i)
         /\ keys' = [p \in Participants |->
                       IF keys[p] = None THEN None ELSE SetKey(keys[p], new, i)]
         /\ parted' = IF old = None THEN {p \in Participants : keys[p] # None} \cup parted
                      ELSE parted
  /\ UNCHANGED <<opts, half, work, lastDec, lastEnc>>

SetOwnKey(p, password, i) ==
  /\ Call
  /\ keys' = [keys EXCEPT ![p] = SetKey(Handler(@), <<password, 0>>, i)]
  /\ parted' = parted \cup {p}
  /\ UNCHANGED <<opts, shared, half, work, lastDec, lastEnc>>

----------------------------------------------------------------------------
(* AesCgmCryptor, on the thread of a participant.                          *)

Idle(p) == work[p] = None

\* sharedKey(): a participant nobody knows yet gets a copy of the shared handler.
SharedHandler(p) ==
  /\ keys' = [keys EXCEPT ![p] = IF @ = None THEN shared ELSE @]
  /\ parted' = IF keys[p] = None /\ shared # None /\ half # None
               THEN parted \cup {p} ELSE parted

KeyHandler(p) == IF opts.shared THEN SharedHandler(p) ELSE UNCHANGED <<keys, parted>>

\* A frame encrypted with the key of any material; no handler is an error of encryption.
NoHandler(p) ==
  /\ Idle(p) /\ KeyHandler(p)
  /\ keys'[p] = None
  /\ lastEnc' = [lastEnc EXCEPT ![p] = "MissingKey"]
  /\ UNCHANGED <<opts, shared, half, work, lastDec, calls>>

MissingKey(p, i) ==
  /\ Idle(p) /\ KeyHandler(p)
  /\ keys'[p] # None /\ ~HasKey(keys'[p], i)
  /\ lastDec' = [lastDec EXCEPT ![p] = "MissingKey"]
  /\ UNCHANGED <<opts, shared, half, work, lastEnc, calls>>

\* A handler marked invalid is not asked again once a frame has failed for it.
GivenUp(p, h) == lastDec[p] = "DecryptionFailed" /\ ~h.valid

\* The frame is tried with the material there is now: the key may change meanwhile.
TakeFrame(p, m, i) ==
  /\ Idle(p) /\ KeyHandler(p)
  /\ keys'[p] # None /\ HasKey(keys'[p], i)
  /\ ~GivenUp(p, keys'[p])
  /\ work' = [work EXCEPT ![p] = [key |-> DeriveKeys(Salt, m), index |-> i,
                                  material |-> KeySet(keys'[p], i), failed |-> FALSE]]
  /\ UNCHANGED <<opts, shared, half, lastDec, lastEnc, calls>>

Decrypting(p) == ~Idle(p) /\ ~work[p].failed
Fits(p) == work[p].key = DeriveKeys(Salt, work[p].material)

Decrypt(p) ==
  /\ Decrypting(p) /\ Fits(p)
  /\ work' = [work EXCEPT ![p] = None]
  /\ lastDec' = [lastDec EXCEPT ![p] = "Ok"]
  /\ UNCHANGED <<opts, shared, keys, half, lastEnc, parted, calls>>

\* The ratchets of the window that fit; the arguments are in this order in the code.
Hits(p) == {n \in 1..opts.window :
              work[p].key = DeriveKeys(Ratchet(work[p].material, n), Salt)}

MutTryWindow(p) ==
  /\ Decrypting(p) /\ ~Fits(p)
  /\ work' = [work EXCEPT ![p].failed = TRUE]
  /\ keys' = IF opts.window = 0 THEN keys
             ELSE [keys EXCEPT ![p] = SetKeyFromMaterial(@, Ratchet(work[p].material, opts.window),
                                                         work[p].index)]
  /\ UNCHANGED <<opts, shared, half, lastDec, lastEnc, parted, calls>>

\* After a window without success the material read at first is written again.
TryWindow(p) ==
  /\ Decrypting(p) /\ ~Fits(p)
  /\ LET hit   == Hits(p) # {}
         found == IF hit THEN Ratchet(work[p].material, CHOOSE n \in Hits(p) :
                                        \A k \in Hits(p) : n <= k)
                  ELSE work[p].material
         h     == SetKeyFromMaterial(keys[p], found, work[p].index)
     IN  /\ keys' = IF opts.window = 0 THEN keys
                    ELSE [keys EXCEPT ![p] = IF hit THEN SetHasValidKey(h) ELSE h]
         /\ lastDec' = [lastDec EXCEPT ![p] = IF hit THEN "Ok" ELSE @]
         /\ work' = [work EXCEPT ![p] = IF hit THEN None ELSE [@ EXCEPT !.failed = TRUE]]
  /\ UNCHANGED <<opts, shared, half, lastEnc, parted, calls>>

CountFailure(p) ==
  /\ ~Idle(p) /\ work[p].failed
  /\ LET h == DecryptionFailure(keys[p])
     IN  /\ keys' = [keys EXCEPT ![p] = h]
         /\ lastDec' = [lastDec EXCEPT ![p] = IF opts.tolerance # Forever /\ ~h.valid
                                              THEN "DecryptionFailed" ELSE @]
  /\ work' = [work EXCEPT ![p] = None]
  /\ UNCHANGED <<opts, shared, half, lastEnc, parted, calls>>

----------------------------------------------------------------------------
KeysInit ==
  /\ opts \in Options
  /\ shared = None /\ keys = [p \in Participants |-> None]
  /\ half = None /\ work = [p \in Participants |-> None]
  /\ lastDec = [p \in Participants |-> "New"]
  /\ lastEnc = [p \in Participants |-> "New"]
  /\ parted = {} /\ calls = 0

Application ==
  \/ \E w \in Passwords, i \in Indices \cup {None} : SetSharedKey(w, i)
  \/ SetSharedKeyEnd
  \/ \E i \in Indices \cup {None} : RatchetSharedKey(i)
  \/ \E p \in Participants, w \in Passwords, i \in Indices \cup {None} : SetOwnKey(p, w, i)

Cryptor(p) ==
  \/ NoHandler(p)
  \/ \E i \in Indices : MissingKey(p, i)
  \/ \E m \in Materials, i \in Slots : TakeFrame(p, m, i)
  \/ Decrypt(p)
  \/ TryWindow(p)
  \/ CountFailure(p)

KeysNext == Application \/ \E p \in Participants : Cryptor(p)

KeysSpec == KeysInit /\ [][KeysNext]_keyVars

----------------------------------------------------------------------------
\* Every variable of the key store and of the cryptors keeps its type.
KeysTypeOK ==
  /\ opts \in Options
  /\ shared \in Handlers \cup {None}
  /\ keys \in [Participants -> Handlers \cup {None}]
  /\ half \in Halves \cup {None}
  /\ work \in [Participants -> Frames \cup {None}]
  /\ lastDec \in [Participants -> CryptorStates]
  /\ lastEnc \in [Participants -> CryptorStates]
  /\ parted \subseteq Participants
  /\ calls \in 0..MaxCalls

\* DefaultKeyProvider: outside setSharedKey, every participant that has a handler has
\* the ring of the shared one and writes next to the slot the shared one writes next
\* to, whenever the copy was made.  The exceptions are named by the code: a key of its
\* own, a copy made between the two halves of setSharedKey, a ratchet of nothing.
SharedKeyHolds ==
  opts.shared /\ half = None =>
    \A p \in Participants : keys[p] # None /\ p \notin parted =>
      /\ shared # None
      /\ keys[p].ring = shared.ring /\ keys[p].cur = shared.cur

\* decryptionFailure, setHasValidKey: a handler that has been given a key is invalid
\* exactly when its failures since then have reached the tolerance, so never where
\* wrong keys are accepted forever.
ValidUntilTolerance ==
  \A p \in Participants :
    keys[p] # None /\ (\E s \in Slots : keys[p].ring[s] # None) =>
      IF opts.tolerance = Forever THEN keys[p].valid
      ELSE keys[p].valid <=> keys[p].fails = 0 \/ keys[p].fails < opts.tolerance

\* decryptFrame tries ratchets for the window and comes back to the initial key: what is
\* in a ring is a password of the application, never one ratcheted for a frame that did
\* not fit it.
NoKeyIsInvented ==
  ~opts.shared => \A p \in Participants, s \in Slots :
    keys[p] # None /\ keys[p].ring[s] # None => keys[p].ring[s] \in Passwords \X {0}

\* decryptFrame, "success, so we set the new key": a frame whose key is the material of
\* the slot ratcheted within the window does not fail.
RatchetIsFollowed ==
  \A p \in Participants : ~Idle(p) /\ work[p].failed =>
    \A n \in 1..opts.window : work[p].key # DeriveKeys(Salt, Ratchet(work[p].material, n))
=============================================================================
