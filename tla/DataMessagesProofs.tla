------------------------- MODULE DataMessagesProofs -------------------------
(***************************************************************************)
(* What TLAPS proves of DataMessages, for any number of sessions and       *)
(* messages: types, who is heard, and that it implements Exchange; and of  *)
(* Statistics, for any times, that what is told is true.                   *)
(***************************************************************************)
EXTENDS DataMessages, Statistics, SequenceTheorems, TLAPS

\* The session the receiver is in or is connecting to, seen from the thread that ends the
\* one before: it has its listeners, or the two overlap.
HeardInv ==
  /\ transport = "connecting" => in = 0 /\ inMade < MaxReceiving
  /\ in # 0 => transport = "up" /\ in = inMade
  /\ ending.step = "socket" => in = 0 /\ transport = "up"
  /\ ending.step \in {"manager", "release"} =>
       /\ transport = "connecting" => inMade + 1 \in overlapped
       /\ in # 0 => in \in overlapped
  /\ transport = "connecting" /\ ~news => listening \/ inMade + 1 \in overlapped
  /\ HeardUnlessCrossed

Rising(s) == \A i, j \in DOMAIN s : i < j => s[i] < s[j]
Before(s, t) == \A i \in DOMAIN s, j \in DOMAIN t : s[i] < t[j]
OfLabel(s, l) == \A i \in DOMAIN s : s[i] \in DOMAIN sent /\ sent[s[i]].label = l

\* The message in the hand of the user's thread is the last that was sent.
HandInv ==
  hand # Nothing =>
    /\ hand.n = Len(sent) /\ hand.n \in DOMAIN sent /\ sent[hand.n].label = hand.label
    /\ \A i \in DOMAIN up[hand.label] : up[hand.label][i] < hand.n
    /\ \A i \in DOMAIN down[hand.label] : down[hand.label][i] < hand.n
    /\ \A i \in DOMAIN got : got[i].n < hand.n

\* On each channel: what has arrived, what comes down, what goes up, in this order.
OrderInv ==
  /\ HandInv
  /\ \A l \in Labels :
       /\ OfLabel(up[l], l) /\ OfLabel(down[l], l)
       /\ Rising(up[l]) /\ Rising(down[l]) /\ Before(down[l], up[l])
  /\ \A i \in DOMAIN got :
       /\ got[i].n \in DOMAIN sent
       /\ \A l \in Labels : sent[got[i].n].label = l =>
            /\ \A j \in DOMAIN up[l] : got[i].n < up[l][j]
            /\ \A j \in DOMAIN down[l] : got[i].n < down[l][j]

Inv == DataTypeOK /\ HeardInv /\ OrderInv

----------------------------------------------------------------------------
(* Sequences.                                                              *)

LEMMA TailFacts ==
  ASSUME NEW S, NEW s \in Seq(S), s # <<>>
  PROVE  /\ 1 \in DOMAIN s /\ Head(s) = s[1] /\ Head(s) \in S
         /\ Tail(s) \in Seq(S)
         /\ \A i \in DOMAIN Tail(s) : i + 1 \in DOMAIN s /\ Tail(s)[i] = s[i + 1] /\ i \in Nat
OBVIOUS

LEMMA AppendFacts ==
  ASSUME NEW S, NEW s \in Seq(S), NEW e \in S
  PROVE  /\ Append(s, e) \in Seq(S)
         /\ DOMAIN Append(s, e) = DOMAIN s \cup {Len(s) + 1}
         /\ \A i \in DOMAIN s : Append(s, e)[i] = s[i] /\ i \in Nat /\ i <= Len(s)
         /\ Append(s, e)[Len(s) + 1] = e
OBVIOUS

LEMMA TailRises ==
  ASSUME NEW s \in Seq(Nat), s # <<>>, Rising(s)
  PROVE  Rising(Tail(s)) /\ \A i \in DOMAIN Tail(s) : Head(s) < Tail(s)[i]
BY TailFacts DEF Rising

LEMMA AppendRises ==
  ASSUME NEW s \in Seq(Nat), NEW e \in Nat, Rising(s), \A i \in DOMAIN s : s[i] < e
  PROVE  Rising(Append(s, e))
BY AppendFacts DEF Rising

----------------------------------------------------------------------------
(* Types.                                                                  *)

LEMMA HandType ==
  ASSUME DataTypeOK, hand # Nothing
  PROVE  hand.label \in Labels /\ hand.session \in Sending /\ hand.n \in Numbers
BY DEF DataTypeOK

LEMMA LabelType ==
  ASSUME NEW l \in Labels, DataTypeOK
  PROVE  /\ l # "none" /\ up[l] \in Seq(Numbers) /\ down[l] \in Seq(Numbers)
         /\ local[l] \in Sending /\ remote[l] \in Receiving
         /\ up[l] \in Seq(Nat) /\ down[l] \in Seq(Nat)
<1>1. up[l] \in Seq(Numbers) /\ down[l] \in Seq(Numbers)
  BY DEF DataTypeOK
<1>2. Numbers \subseteq Nat
  BY DEF Numbers
<1>3. up[l] \in Seq(Nat) /\ down[l] \in Seq(Nat)
  BY <1>1, <1>2, SeqMonotonic
<1> QED BY <1>1, <1>3 DEF DataTypeOK, Labels

LEMMA InitType == DataInit => DataTypeOK
<1> SUFFICES ASSUME DataInit PROVE DataTypeOK
  OBVIOUS
<1>1. 0 \in Sending /\ 0 \in Receiving
  BY DataMessagesAssumption DEF Sending, Receiving
<1>2. local \in [Labels -> Sending] /\ remote \in [Labels -> Receiving]
  BY <1>1 DEF DataInit
<1>3. up \in [Labels -> Seq(Numbers)] /\ down \in [Labels -> Seq(Numbers)]
  BY DEF DataInit
<1>4. sent \in Seq(SentType) /\ got \in Seq(GotType)
  BY DEF DataInit
<1> QED BY <1>1, <1>2, <1>3, <1>4 DEF DataInit, DataTypeOK

\* The sender's actions keep the types.
LEMMA SenderTypes ==
  ASSUME DataTypeOK, Sender
  PROVE  DataTypeOK'
<1> USE DataMessagesAssumption
<1>1. CASE Begin
  BY <1>1 DEF Begin, DataTypeOK, inVars, transitVars, Sending
<1>2. CASE End
  BY <1>2 DEF End, DataTypeOK, inVars, transitVars, Sending
<1>3. ASSUME NEW l \in Labels, LocalChannelCreated(l) PROVE DataTypeOK'
  <2>1. out \in Sending
    BY DEF DataTypeOK, Sending
  <2>2. local' \in [Labels -> Sending] /\ open' \subseteq Sending \X Labels
    BY <1>3, <2>1 DEF LocalChannelCreated, DataTypeOK
  <2> QED BY <1>3, <2>2 DEF LocalChannelCreated, DataTypeOK, inVars, transitVars
<1>4. ASSUME NEW s \in outClosing, CloseSending(s) PROVE DataTypeOK'
  <2>1. up' \in [Labels -> Seq(Numbers)]
    BY <1>4, LabelType DEF CloseSending
  <2>2. open' \subseteq open /\ outClosing' \subseteq outClosing
    BY <1>4 DEF CloseSending
  <2>3. UNCHANGED <<out, outMade, local, hand, inVars, down, sent, got, unheard>>
    BY <1>4 DEF CloseSending
  <2> QED BY <2>1, <2>2, <2>3 DEF DataTypeOK, inVars
<1>5. ASSUME NEW kind \in Kinds, NEW l \in Labels, GetChannel(kind, l) PROVE DataTypeOK'
  <2>1. Len(sent) + 1 \in Numbers
    BY <1>5 DEF GetChannel, DataTypeOK, Numbers
  <2>2. hand' \in [label: Labels, session: Sending, n: Numbers]
    BY <1>5, <2>1, LabelType DEF GetChannel
  <2>3. [label |-> l, kind |-> kind, from |-> local[l], to |-> 0] \in SentType
    BY LabelType DEF SentType, Receiving
  <2>4. sent' \in Seq(SentType)
    BY <1>5, <2>3, AppendFacts DEF GetChannel, DataTypeOK
  <2> QED BY <1>5, <2>2, <2>4 DEF GetChannel, DataTypeOK, inVars
<1>6. ASSUME NEW ok \in BOOLEAN, SendAsync(ok) PROVE DataTypeOK'
  <2>1. hand.label \in Labels /\ hand.n \in Numbers
    BY <1>6, HandType DEF SendAsync
  <2>2. Append(up[hand.label], hand.n) \in Seq(Numbers)
    BY <2>1, LabelType, AppendFacts
  <2>3. up' \in [Labels -> Seq(Numbers)]
    BY <1>6, <2>1, <2>2 DEF SendAsync, DataTypeOK
  <2> QED BY <1>6, <2>3 DEF SendAsync, DataTypeOK, inVars
<1> QED BY <1>1, <1>2, <1>3, <1>4, <1>5, <1>6 DEF Sender

\* The server and the network keep the types.
LEMMA NetworkTypes ==
  ASSUME DataTypeOK, OrderInv, Network
  PROVE  DataTypeOK'
<1>1. CASE LoseLossy
  <2>1. "lossy" \in Labels
    BY DEF Labels
  <2>2. Tail(down["lossy"]) \in Seq(Numbers)
    BY <1>1, <2>1, LabelType, TailFacts DEF LoseLossy
  <2>3. down' \in [Labels -> Seq(Numbers)]
    BY <1>1, <2>1, <2>2 DEF LoseLossy, DataTypeOK
  <2> QED BY <1>1, <2>3 DEF LoseLossy, DataTypeOK, outVars, inVars
<1>2. ASSUME NEW l \in Labels, Relay(l) PROVE DataTypeOK'
  <2>1. up[l] # <<>> /\ up[l] \in Seq(Numbers)
    BY <1>2, LabelType DEF Relay
  <2>2. Tail(up[l]) \in Seq(Numbers) /\ Head(up[l]) \in Numbers
    BY <2>1, TailFacts
  <2>3. up' \in [Labels -> Seq(Numbers)]
    BY <1>2, <2>2 DEF Relay, DataTypeOK
  <2>4. CASE in # 0 /\ remote[l] = in
    <3>1. Append(down[l], Head(up[l])) \in Seq(Numbers)
      BY <2>2, LabelType, AppendFacts
    <3>2. down' \in [Labels -> Seq(Numbers)]
      BY <1>2, <2>4, <3>1 DEF Relay, DataTypeOK
    <3>3. Head(up[l]) \in DOMAIN sent
      BY <2>1, TailFacts DEF OrderInv, OfLabel
    <3>4. PICK n \in DOMAIN sent : n = Head(up[l])
      BY <3>3
    <3>5. sent[n] \in SentType /\ in \in Receiving
      BY DataMessagesAssumption DEF DataTypeOK, Receiving
    <3>6. [sent[n] EXCEPT !.to = in] \in SentType
      BY <3>5 DEF SentType
    <3>7. sent' = [sent EXCEPT ![n] = [sent[n] EXCEPT !.to = in]]
      BY <1>2, <2>4, <3>4 DEF Relay
    <3>8. sent' \in Seq(SentType)
      <4>1. sent \in Seq(SentType)
        BY DEF DataTypeOK
      <4> DEFINE r == [sent[n] EXCEPT !.to = in]
      <4>2. r \in SentType
        BY <3>6
      <4> HIDE DEF r
      <4>3. [sent EXCEPT ![n] = r] \in Seq(SentType)
        BY <4>1, <4>2
      <4> QED BY <3>7, <4>3 DEF r
    <3> QED BY <1>2, <2>3, <2>4, <3>2, <3>8 DEF Relay, DataTypeOK, outVars, inVars
  <2>5. CASE ~(in # 0 /\ remote[l] = in)
    BY <1>2, <2>3, <2>5 DEF Relay, DataTypeOK, outVars, inVars
  <2> QED BY <2>4, <2>5
<1> QED BY <1>1, <1>2 DEF Network

\* The receiver's actions keep the types.
LEMMA ReceiverTypes ==
  ASSUME DataTypeOK, HeardInv, Receiver
  PROVE  DataTypeOK'
<1> USE DataMessagesAssumption
<1>1. CASE Connect
  <2>1. overlapped' \subseteq 1..MaxReceiving
    BY <1>1 DEF Connect, DataTypeOK, Receiving
  <2> QED BY <1>1, <2>1 DEF Connect, DataTypeOK, outVars, transitVars
<1>2. CASE HearConnecting
  BY <1>2 DEF HearConnecting, DataTypeOK, outVars, transitVars
<1>3. CASE Join
  <2>1. inMade + 1 \in Receiving
    BY <1>3 DEF Join, HeardInv, DataTypeOK, Receiving
  <2> QED BY <1>3, <2>1 DEF Join, DataTypeOK, outVars, transitVars
<1>4. CASE Take
  <2>1. in \in 1..MaxReceiving
    BY <1>4 DEF Take, DataTypeOK, Receiving
  <2>2. ending' \in [step: {"socket", "manager", "release"}, session: 1..MaxReceiving]
    BY <1>4, <2>1 DEF Take
  <2> QED BY <1>4, <2>2 DEF Take, DataTypeOK, outVars, transitVars
<1>5. CASE CloseSocket
  <2>1. ending \in [step: {"socket", "manager", "release"}, session: 1..MaxReceiving]
    BY <1>5 DEF CloseSocket, DataTypeOK
  <2>2. ending' \in [step: {"socket", "manager", "release"}, session: 1..MaxReceiving]
    BY <1>5, <2>1 DEF CloseSocket
  <2> QED BY <1>5, <2>2 DEF CloseSocket, DataTypeOK, outVars, transitVars
<1>6. CASE CloseManager
  <2>1. ending \in [step: {"socket", "manager", "release"}, session: 1..MaxReceiving]
    BY <1>6 DEF CloseManager, DataTypeOK
  <2>2. ending' \in [step: {"socket", "manager", "release"}, session: 1..MaxReceiving]
    BY <1>6, <2>1 DEF CloseManager
  <2>3. inClosing' \subseteq Receiving
    BY <1>6, <2>1 DEF CloseManager, DataTypeOK, Receiving
  <2> QED BY <1>6, <2>2, <2>3 DEF CloseManager, DataTypeOK, outVars, transitVars
<1>7. CASE ResetListeners
  <2>1. ending' \in [step: {"idle"}]
    BY <1>7 DEF ResetListeners
  <2> QED BY <1>7, <2>1 DEF ResetListeners, DataTypeOK, outVars, transitVars
<1>8. ASSUME NEW s \in inClosing, CloseReceiving(s) PROVE DataTypeOK'
  <2>1. down' \in [Labels -> Seq(Numbers)]
    BY <1>8, LabelType DEF CloseReceiving
  <2>2. inClosing' \subseteq inClosing
    BY <1>8 DEF CloseReceiving
  <2>3. UNCHANGED <<in, inMade, transport, news, ending, remote, listening, overlapped, outVars,
                    up, sent, got, unheard>>
    BY <1>8 DEF CloseReceiving
  <2> QED BY <2>1, <2>2, <2>3 DEF DataTypeOK, outVars
<1>9. ASSUME NEW l \in Labels, RemoteChannelOpened(l) PROVE DataTypeOK'
  <2>1. in \in Receiving
    BY DEF DataTypeOK, Receiving
  <2>2. remote' \in [Labels -> Receiving] /\ down' \in [Labels -> Seq(Numbers)]
    BY <1>9, <2>1 DEF RemoteChannelOpened, DataTypeOK
  <2> QED BY <1>9, <2>2 DEF RemoteChannelOpened, DataTypeOK, outVars
<1>10. ASSUME NEW l \in Labels, OnMessage(l) PROVE DataTypeOK'
  <2> DEFINE n == Head(down[l])
  <2>1. n \in Numbers /\ Tail(down[l]) \in Seq(Numbers)
    BY <1>10, LabelType, TailFacts DEF OnMessage
  <2>2. down' \in [Labels -> Seq(Numbers)]
    BY <1>10, <2>1 DEF OnMessage, DataTypeOK
  <2>3. [n |-> n, session |-> remote[l]] \in GotType
    BY <2>1, LabelType DEF GotType
  <2>4. Append(got, [n |-> n, session |-> remote[l]]) \in Seq(GotType)
    BY <2>3, AppendFacts DEF DataTypeOK
  <2>5. got' \in Seq(GotType)
    BY <1>10, <2>4 DEF OnMessage, DataTypeOK
  <2>6. unheard' \subseteq Numbers
    BY <1>10, <2>1 DEF OnMessage, DataTypeOK
  <2> QED BY <1>10, <2>2, <2>5, <2>6 DEF OnMessage, DataTypeOK, outVars, inVars
<1> QED BY <1>1, <1>2, <1>3, <1>4, <1>5, <1>6, <1>7, <1>8, <1>9, <1>10 DEF Receiver

----------------------------------------------------------------------------
(* Who is heard.                                                           *)

LEMMA InitHeard == DataInit => HeardInv
BY DEF DataInit, HeardInv, HeardUnlessCrossed

LEMMA HeardStep ==
  ASSUME DataTypeOK, HeardInv, DataNext
  PROVE  HeardInv'
<1> USE DataMessagesAssumption
<1>1. CASE UNCHANGED inVars
  BY <1>1 DEF HeardInv, HeardUnlessCrossed, inVars
<1>2. CASE Connect
  BY <1>2 DEF Connect, HeardInv, HeardUnlessCrossed, DataTypeOK, Receiving
<1>3. CASE HearConnecting
  BY <1>3 DEF HearConnecting, HeardInv, HeardUnlessCrossed
<1>4. CASE Join
  BY <1>4 DEF Join, HeardInv, HeardUnlessCrossed
<1>5. CASE Take
  BY <1>5 DEF Take, HeardInv, HeardUnlessCrossed
<1>6. CASE CloseSocket
  <2>1. ending'.step = "manager"
    BY <1>6 DEF CloseSocket, DataTypeOK
  <2> QED BY <1>6, <2>1 DEF CloseSocket, HeardInv, HeardUnlessCrossed
<1>7. CASE CloseManager
  <2>1. ending'.step = "release"
    BY <1>7 DEF CloseManager, DataTypeOK
  <2> QED BY <1>7, <2>1 DEF CloseManager, HeardInv, HeardUnlessCrossed
<1>8. CASE ResetListeners
  <2>1. ending'.step = "idle"
    BY <1>8 DEF ResetListeners
  <2> QED BY <1>8, <2>1 DEF ResetListeners, HeardInv, HeardUnlessCrossed
<1>9. ASSUME NEW s \in inClosing, CloseReceiving(s) PROVE HeardInv'
  BY <1>9 DEF CloseReceiving, HeardInv, HeardUnlessCrossed
<1>10. ASSUME NEW l \in Labels, RemoteChannelOpened(l) PROVE HeardInv'
  BY <1>10 DEF RemoteChannelOpened, HeardInv, HeardUnlessCrossed
<1>11. ASSUME NEW l \in Labels, OnMessage(l) PROVE UNCHANGED inVars
  BY <1>11 DEF OnMessage
<1>12. Sender \/ Network => UNCHANGED inVars
  BY DEF Sender, Network, Begin, End, LocalChannelCreated, CloseSending, GetChannel, SendAsync,
         LoseLossy, Relay
<1> QED BY <1>1, <1>2, <1>3, <1>4, <1>5, <1>6, <1>7, <1>8, <1>9, <1>10, <1>11, <1>12
        DEF DataNext, Receiver

----------------------------------------------------------------------------
(* The order on the way.                                                   *)

\* What is left of a queue: all of it, nothing, or all but its head.
Left(t, s) == t = s \/ t = <<>> \/ (s # <<>> /\ t = Tail(s))

LEMMA LeftFacts ==
  ASSUME NEW s \in Seq(Nat), NEW t, Left(t, s)
  PROVE  /\ t \in Seq(Nat)
         /\ \A i \in DOMAIN t : \E j \in DOMAIN s : t[i] = s[j]
         /\ Rising(s) => Rising(t)
<1>1. CASE t = s
  BY <1>1
<1>2. CASE t = <<>>
  BY <1>2 DEF Rising
<1>3. CASE s # <<>> /\ t = Tail(s)
  BY <1>3, TailFacts, TailRises
<1> QED BY <1>1, <1>2, <1>3 DEF Left

\* Messages that are lost leave the others in order.
LEMMA LossKeepsOrder ==
  ASSUME DataTypeOK, OrderInv, UNCHANGED <<sent, got, hand>>,
         \A l \in Labels : Left(up'[l], up[l]) /\ Left(down'[l], down[l])
  PROVE  OrderInv'
<1>1. ASSUME NEW l \in Labels
      PROVE  /\ Rising(up'[l]) /\ Rising(down'[l])
             /\ \A i \in DOMAIN up'[l] : \E j \in DOMAIN up[l] : up'[l][i] = up[l][j]
             /\ \A i \in DOMAIN down'[l] : \E j \in DOMAIN down[l] : down'[l][i] = down[l][j]
  BY <1>1, LabelType, LeftFacts DEF OrderInv
<1>2. HandInv'
  <2>1. hand # Nothing => hand.label \in Labels
    BY HandType
  <2> QED BY <1>1, <2>1 DEF OrderInv, HandInv
<1>3. ASSUME NEW l \in Labels
      PROVE  (/\ OfLabel(up[l], l) /\ OfLabel(down[l], l)
              /\ Rising(up[l]) /\ Rising(down[l]) /\ Before(down[l], up[l]))'
  <2>1. OfLabel(up[l], l)' /\ OfLabel(down[l], l)'
    BY <1>1 DEF OrderInv, OfLabel
  <2>2. Before(down[l], up[l])'
    BY <1>1 DEF OrderInv, Before
  <2> QED BY <1>1, <2>1, <2>2
<1>4. (\A i \in DOMAIN got :
        /\ got[i].n \in DOMAIN sent
        /\ \A l \in Labels : sent[got[i].n].label = l =>
             /\ \A j \in DOMAIN up[l] : got[i].n < up[l][j]
             /\ \A j \in DOMAIN down[l] : got[i].n < down[l][j])'
  BY <1>1 DEF OrderInv
<1> QED BY <1>2, <1>3, <1>4 DEF OrderInv

LEMMA LossSteps ==
  ASSUME DataTypeOK, OrderInv,
         \/ LoseLossy
         \/ \E s \in outClosing : CloseSending(s)
         \/ \E s \in inClosing : CloseReceiving(s)
         \/ \E l \in Labels : RemoteChannelOpened(l)
  PROVE  OrderInv'
<1>1. CASE LoseLossy
  <2>1. \A l \in Labels : Left(up'[l], up[l]) /\ Left(down'[l], down[l])
    BY <1>1 DEF LoseLossy, Left, outVars, inVars, DataTypeOK
  <2> QED BY <1>1, <2>1, LossKeepsOrder DEF LoseLossy, outVars
<1>2. ASSUME NEW s \in outClosing, CloseSending(s) PROVE OrderInv'
  <2>1. \A l \in Labels : Left(up'[l], up[l]) /\ Left(down'[l], down[l])
    BY <1>2 DEF CloseSending, Left
  <2> QED BY <1>2, <2>1, LossKeepsOrder DEF CloseSending
<1>3. ASSUME NEW s \in inClosing, CloseReceiving(s) PROVE OrderInv'
  <2>1. \A l \in Labels : Left(up'[l], up[l]) /\ Left(down'[l], down[l])
    BY <1>3 DEF CloseReceiving, Left
  <2> QED BY <1>3, <2>1, LossKeepsOrder DEF CloseReceiving, outVars
<1>4. ASSUME NEW k \in Labels, RemoteChannelOpened(k) PROVE OrderInv'
  <2>1. \A l \in Labels : Left(up'[l], up[l]) /\ Left(down'[l], down[l])
    BY <1>4 DEF RemoteChannelOpened, Left, DataTypeOK
  <2> QED BY <1>4, <2>1, LossKeepsOrder DEF RemoteChannelOpened, outVars
<1> QED BY <1>1, <1>2, <1>3, <1>4

LEMMA InitOrder == DataInit => OrderInv
BY DEF DataInit, OrderInv, HandInv, OfLabel, Rising, Before

\* A message gets its number: it is greater than all there are.
LEMMA GetChannelOrder ==
  ASSUME DataTypeOK, OrderInv, NEW kind \in Kinds, NEW k \in Labels, GetChannel(kind, k)
  PROVE  OrderInv'
<1> DEFINE e == [label |-> k, kind |-> kind, from |-> local[k], to |-> 0]
<1>1. e \in SentType /\ e.label = k
  BY DataMessagesAssumption, LabelType DEF SentType, Receiving
<1>2. sent' = Append(sent, e) /\ up' = up /\ down' = down /\ got' = got
  BY <1>1 DEF GetChannel
<1>3. hand' # Nothing => hand'.label = k /\ hand'.n = Len(sent) + 1
  BY DEF GetChannel
<1> HIDE DEF e
<1>4. sent \in Seq(SentType) /\ got \in Seq(GotType)
  BY DEF DataTypeOK
<1>5. /\ DOMAIN sent' = DOMAIN sent \cup {Len(sent) + 1} /\ Len(sent') = Len(sent) + 1
      /\ \A n \in DOMAIN sent : sent'[n] = sent[n] /\ n \in Nat /\ n <= Len(sent)
      /\ sent'[Len(sent) + 1] = e
  BY <1>1, <1>2, <1>4, AppendFacts
<1>6. ASSUME NEW l \in Labels
      PROVE  /\ OfLabel(up[l], l)' /\ OfLabel(down[l], l)'
             /\ \A i \in DOMAIN up[l] : up[l][i] < Len(sent) + 1
             /\ \A i \in DOMAIN down[l] : down[l][i] < Len(sent) + 1
  BY <1>2, <1>4, <1>5 DEF OrderInv, OfLabel
<1>7. ASSUME NEW i \in DOMAIN got
      PROVE  got[i].n \in DOMAIN sent' /\ sent'[got[i].n] = sent[got[i].n] /\ got[i].n < Len(sent) + 1
  BY <1>4, <1>5 DEF OrderInv
<1>8. HandInv'
  BY <1>1, <1>2, <1>3, <1>4, <1>5, <1>6, <1>7 DEF HandInv
<1>9. ASSUME NEW l \in Labels
      PROVE  (/\ OfLabel(up[l], l) /\ OfLabel(down[l], l)
              /\ Rising(up[l]) /\ Rising(down[l]) /\ Before(down[l], up[l]))'
  BY <1>2, <1>6 DEF OrderInv, Rising, Before
<1>10. ASSUME NEW i \in DOMAIN got
       PROVE  (/\ got[i].n \in DOMAIN sent
               /\ \A l \in Labels : sent[got[i].n].label = l =>
                    /\ \A j \in DOMAIN up[l] : got[i].n < up[l][j]
                    /\ \A j \in DOMAIN down[l] : got[i].n < down[l][j])'
  <2>1. \A l \in Labels : sent[got[i].n].label = l =>
          /\ \A j \in DOMAIN up[l] : got[i].n < up[l][j]
          /\ \A j \in DOMAIN down[l] : got[i].n < down[l][j]
    BY DEF OrderInv
  <2> QED BY <1>2, <1>7, <2>1
<1> QED BY <1>2, <1>8, <1>9, <1>10 DEF OrderInv

\* It goes up behind the others of its label.
LEMMA SendOrder ==
  ASSUME DataTypeOK, OrderInv, NEW ok \in BOOLEAN, SendAsync(ok)
  PROVE  OrderInv'
<1>1. CASE ~ok
  BY <1>1 DEF SendAsync, OrderInv, HandInv, OfLabel, inVars
<1>2. CASE ok
  <2> DEFINE k == hand.label
             m == hand.n
  <2>1. /\ k \in Labels /\ m \in DOMAIN sent /\ sent[m].label = k
        /\ \A i \in DOMAIN up[k] : up[k][i] < m
        /\ \A i \in DOMAIN down[k] : down[k][i] < m
        /\ \A i \in DOMAIN got : got[i].n < m
    BY HandType DEF SendAsync, OrderInv, HandInv
  <2>2. m \in Nat /\ up[k] \in Seq(Nat)
    BY <2>1, HandType, LabelType DEF SendAsync, Numbers
  <2>3. /\ up' = [up EXCEPT ![k] = Append(@, m)] /\ hand' = Nothing
        /\ down' = down /\ sent' = sent /\ got' = got
    BY <1>2 DEF SendAsync
  <2> HIDE DEF k, m
  <2>4. up'[k] = Append(up[k], m) /\ \A l \in Labels \ {k} : up'[l] = up[l]
    BY <2>1, <2>3 DEF DataTypeOK
  <2>5. /\ Rising(up'[k])
        /\ \A i \in DOMAIN up'[k] : up'[k][i] = m \/ \E j \in DOMAIN up[k] : up'[k][i] = up[k][j]
    <3>1. Rising(up[k])
      BY <2>1 DEF OrderInv
    <3>2. Rising(Append(up[k], m))
      BY <2>1, <2>2, <3>1, AppendRises
    <3> QED BY <2>2, <2>4, <3>2, AppendFacts
  <2>6. HandInv'
    BY <2>3 DEF HandInv
  <2>7. ASSUME NEW l \in Labels
        PROVE  (/\ OfLabel(up[l], l) /\ OfLabel(down[l], l)
                /\ Rising(up[l]) /\ Rising(down[l]) /\ Before(down[l], up[l]))'
    <3>1. CASE l = k
      <4>1. OfLabel(up[l], l)' /\ OfLabel(down[l], l)'
        BY <2>1, <2>3, <2>5, <3>1 DEF OrderInv, OfLabel
      <4>2. Before(down[l], up[l])'
        BY <2>1, <2>3, <2>5, <3>1 DEF OrderInv, Before
      <4> QED BY <2>1, <2>3, <2>5, <3>1, <4>1, <4>2 DEF OrderInv
    <3>2. CASE l # k
      BY <2>3, <2>4, <3>2 DEF OrderInv, OfLabel, Before
    <3> QED BY <3>1, <3>2
  <2>8. ASSUME NEW i \in DOMAIN got
        PROVE  (/\ got[i].n \in DOMAIN sent
                /\ \A l \in Labels : sent[got[i].n].label = l =>
                     /\ \A j \in DOMAIN up[l] : got[i].n < up[l][j]
                     /\ \A j \in DOMAIN down[l] : got[i].n < down[l][j])'
    <3>1. got[i].n \in DOMAIN sent /\ got[i].n < m
      BY <2>1 DEF OrderInv
    <3>2. ASSUME NEW l \in Labels, sent[got[i].n].label = l
          PROVE  /\ \A j \in DOMAIN up'[l] : got[i].n < up'[l][j]
                 /\ \A j \in DOMAIN down'[l] : got[i].n < down'[l][j]
      <4>1. /\ \A j \in DOMAIN up[l] : got[i].n < up[l][j]
            /\ \A j \in DOMAIN down[l] : got[i].n < down[l][j]
        BY <3>2 DEF OrderInv
      <4>2. CASE l = k
        BY <2>3, <2>5, <3>1, <4>1, <4>2
      <4>3. CASE l # k
        BY <2>3, <2>4, <4>1, <4>3
      <4> QED BY <4>2, <4>3
    <3> QED BY <2>3, <3>1, <3>2
  <2> QED BY <2>3, <2>6, <2>7, <2>8 DEF OrderInv
<1> QED BY <1>1, <1>2

\* The server hands the head of what goes up to the end of what comes down.
LEMMA RelayOrder ==
  ASSUME DataTypeOK, OrderInv, NEW k \in Labels, Relay(k)
  PROVE  OrderInv'
<1>1. CASE ~(in # 0 /\ remote[k] = in)
  <2>1. \A l \in Labels : Left(up'[l], up[l]) /\ Left(down'[l], down[l])
    BY <1>1 DEF Relay, Left, DataTypeOK
  <2> QED BY <1>1, <2>1, LossKeepsOrder DEF Relay, outVars
<1>2. CASE in # 0 /\ remote[k] = in
  <2> DEFINE m == Head(up[k])
  <2>1. up[k] # <<>> /\ up[k] \in Seq(Nat) /\ down[k] \in Seq(Nat)
    BY LabelType DEF Relay
  <2>2. /\ 1 \in DOMAIN up[k] /\ m = up[k][1] /\ m \in Nat
        /\ \A i \in DOMAIN Tail(up[k]) : i + 1 \in DOMAIN up[k] /\ Tail(up[k])[i] = up[k][i + 1]
    BY <2>1, TailFacts
  <2>3. /\ up' = [up EXCEPT ![k] = Tail(@)]
        /\ down' = [down EXCEPT ![k] = Append(@, m)] /\ hand' = hand /\ got' = got
    BY <1>2 DEF Relay, outVars
  <2>4. DOMAIN sent' = DOMAIN sent /\ Len(sent') = Len(sent)
    BY <1>2 DEF Relay, DataTypeOK
  <2>5. ASSUME NEW n \in DOMAIN sent PROVE sent'[n].label = sent[n].label
    <3>1. sent[n] \in SentType
      BY DEF DataTypeOK
    <3>2. CASE n = m
      BY <1>2, <3>1, <3>2 DEF Relay, SentType
    <3>3. CASE n # m
      BY <1>2, <3>3 DEF Relay
    <3> QED BY <3>2, <3>3
  <2> HIDE DEF m
  <2>6. /\ up'[k] = Tail(up[k]) /\ down'[k] = Append(down[k], m)
        /\ \A l \in Labels \ {k} : up'[l] = up[l] /\ down'[l] = down[l]
    BY <2>3 DEF DataTypeOK
  <2>7. /\ Rising(up[k]) /\ Rising(down[k]) /\ Before(down[k], up[k])
        /\ OfLabel(up[k], k) /\ OfLabel(down[k], k)
    BY DEF OrderInv
  <2>8. /\ \A i \in DOMAIN up'[k] : m < up'[k][i] /\ \E j \in DOMAIN up[k] : up'[k][i] = up[k][j]
        /\ Rising(up'[k])
    BY <2>1, <2>2, <2>6, <2>7, TailRises DEF m
  <2>9. /\ \A i \in DOMAIN down'[k] :
             down'[k][i] = m \/ \E j \in DOMAIN down[k] : down'[k][i] = down[k][j]
        /\ Rising(down'[k])
    <3>1. \A i \in DOMAIN down[k] : down[k][i] < m
      BY <2>2, <2>7 DEF Before
    <3> QED BY <2>1, <2>2, <2>6, <2>7, <3>1, AppendFacts, AppendRises
  <2>10. HandInv'
    <3>1. hand # Nothing => hand.label \in Labels
      BY HandType
    <3>2. hand # Nothing /\ hand.label = k => m < hand.n
      BY <2>2 DEF OrderInv, HandInv
    <3> QED BY <2>3, <2>4, <2>5, <2>6, <2>8, <2>9, <3>1, <3>2 DEF OrderInv, HandInv
  <2>11. ASSUME NEW l \in Labels
         PROVE  (/\ OfLabel(up[l], l) /\ OfLabel(down[l], l)
                 /\ Rising(up[l]) /\ Rising(down[l]) /\ Before(down[l], up[l]))'
    <3>1. CASE l = k
      <4>1. m \in DOMAIN sent /\ sent[m].label = k
        BY <2>2, <2>7 DEF OfLabel
      <4>2. OfLabel(up[l], l)' /\ OfLabel(down[l], l)'
        BY <2>4, <2>5, <2>7, <2>8, <2>9, <3>1, <4>1 DEF OfLabel
      <4>3. Before(down[l], up[l])'
        BY <2>7, <2>8, <2>9, <3>1 DEF Before
      <4> QED BY <2>8, <2>9, <3>1, <4>2, <4>3
    <3>2. CASE l # k
      <4>1. up'[l] = up[l] /\ down'[l] = down[l]
        BY <2>6, <3>2
      <4>2. /\ OfLabel(up[l], l) /\ OfLabel(down[l], l)
            /\ Rising(up[l]) /\ Rising(down[l]) /\ Before(down[l], up[l])
        BY DEF OrderInv
      <4>3. OfLabel(up[l], l)' /\ OfLabel(down[l], l)'
        BY <2>4, <2>5, <4>1, <4>2 DEF OfLabel
      <4> QED BY <4>1, <4>2, <4>3 DEF Before, Rising
    <3> QED BY <3>1, <3>2
  <2>12. ASSUME NEW i \in DOMAIN got
         PROVE  (/\ got[i].n \in DOMAIN sent
                 /\ \A l \in Labels : sent[got[i].n].label = l =>
                      /\ \A j \in DOMAIN up[l] : got[i].n < up[l][j]
                      /\ \A j \in DOMAIN down[l] : got[i].n < down[l][j])'
    <3>1. got[i].n \in DOMAIN sent'
      BY <2>4 DEF OrderInv
    <3>2. sent[got[i].n].label = k => got[i].n < m
      BY <2>2 DEF OrderInv
    <3>3. ASSUME NEW l \in Labels, sent'[got[i].n].label = l
          PROVE  /\ \A j \in DOMAIN up'[l] : got[i].n < up'[l][j]
                 /\ \A j \in DOMAIN down'[l] : got[i].n < down'[l][j]
      <4>1. sent[got[i].n].label = l
        BY <2>4, <2>5, <3>1, <3>3
      <4>2. /\ \A j \in DOMAIN up[l] : got[i].n < up[l][j]
            /\ \A j \in DOMAIN down[l] : got[i].n < down[l][j]
        BY <4>1 DEF OrderInv
      <4>3. CASE l = k
        BY <2>8, <2>9, <3>2, <4>1, <4>2, <4>3
      <4>4. CASE l # k
        BY <2>6, <4>2, <4>4
      <4> QED BY <4>3, <4>4
    <3> QED BY <2>3, <3>1, <3>3
  <2> QED BY <2>3, <2>10, <2>11, <2>12 DEF OrderInv
<1> QED BY <1>1, <1>2

\* What the listener gets is the head of what comes down.
LEMMA MessageOrder ==
  ASSUME DataTypeOK, OrderInv, NEW k \in Labels, OnMessage(k)
  PROVE  OrderInv'
<1> DEFINE m == Head(down[k])
           heard == sent[m].kind # "misread" /\ listening
           r == [n |-> m, session |-> remote[k]]
<1>1. down[k] # <<>> /\ down[k] \in Seq(Nat) /\ up[k] \in Seq(Nat)
  BY LabelType DEF OnMessage
<1>2. /\ 1 \in DOMAIN down[k] /\ m = down[k][1] /\ m \in Nat
      /\ \A i \in DOMAIN Tail(down[k]) : i + 1 \in DOMAIN down[k] /\ Tail(down[k])[i] = down[k][i + 1]
  BY <1>1, TailFacts
<1>3. UNCHANGED <<up, sent, hand>> /\ down' = [down EXCEPT ![k] = Tail(@)]
  BY DEF OnMessage, outVars
<1>4. \A l \in Labels : Left(up'[l], up[l]) /\ Left(down'[l], down[l])
  BY <1>1, <1>3 DEF Left, DataTypeOK
<1>5. CASE ~heard
  <2>1. got' = got
    BY <1>5 DEF OnMessage
  <2> QED BY <1>3, <1>4, <2>1, LossKeepsOrder
<1>6. CASE heard
  <2>1. got' = Append(got, r)
    BY <1>6 DEF OnMessage
  <2>2. m \in Numbers
    BY <1>1, LabelType, TailFacts
  <2>3. r \in GotType /\ r.n = m
    BY <2>2, LabelType DEF GotType
  <2> HIDE DEF m, r, heard
  <2>4. /\ Rising(down[k]) /\ Rising(up[k]) /\ Before(down[k], up[k])
        /\ OfLabel(down[k], k) /\ OfLabel(up[k], k)
    BY DEF OrderInv
  <2>5. down'[k] = Tail(down[k]) /\ \A l \in Labels \ {k} : down'[l] = down[l]
    BY <1>3 DEF DataTypeOK
  <2>6. /\ \A i \in DOMAIN down'[k] : m < down'[k][i] /\ \E j \in DOMAIN down[k] : down'[k][i] = down[k][j]
        /\ Rising(down'[k])
    BY <1>1, <1>2, <2>4, <2>5, TailRises DEF m
  <2>7. /\ DOMAIN got' = DOMAIN got \cup {Len(got) + 1} /\ got'[Len(got) + 1].n = m
        /\ \A i \in DOMAIN got : got'[i] = got[i]
    BY <2>1, <2>3, AppendFacts DEF DataTypeOK
  <2>8. m \in DOMAIN sent /\ sent[m].label = k
    BY <1>2, <2>4 DEF OfLabel
  <2>9. HandInv'
    <3>1. hand # Nothing => hand.label \in Labels /\ hand.n = Len(sent) /\ hand.n \in DOMAIN sent
      BY HandType DEF OrderInv, HandInv
    <3>2. hand # Nothing => m < hand.n
      <4>1. hand # Nothing => m # hand.n
        BY <1>2, <2>8 DEF OrderInv, HandInv
      <4>2. \A n \in DOMAIN sent : n <= Len(sent) /\ n \in Nat
        BY DEF DataTypeOK
      <4> QED BY <2>8, <3>1, <4>1, <4>2
    <3> QED BY <1>3, <2>5, <2>6, <2>7, <3>1, <3>2 DEF OrderInv, HandInv
  <2>10. ASSUME NEW l \in Labels
         PROVE  (/\ OfLabel(up[l], l) /\ OfLabel(down[l], l)
                 /\ Rising(up[l]) /\ Rising(down[l]) /\ Before(down[l], up[l]))'
    <3>1. CASE l = k
      BY <1>3, <2>4, <2>6, <3>1 DEF OfLabel, Before
    <3>2. CASE l # k
      BY <1>3, <2>5, <3>2 DEF OrderInv, OfLabel, Before
    <3> QED BY <3>1, <3>2
  <2>11. ASSUME NEW i \in DOMAIN got'
         PROVE  (/\ got[i].n \in DOMAIN sent
                 /\ \A l \in Labels : sent[got[i].n].label = l =>
                      /\ \A j \in DOMAIN up[l] : got[i].n < up[l][j]
                      /\ \A j \in DOMAIN down[l] : got[i].n < down[l][j])'
    <3>1. CASE i = Len(got) + 1
      BY <1>2, <1>3, <2>4, <2>6, <2>7, <2>8, <3>1 DEF Before
    <3>2. CASE i \in DOMAIN got
      <4>1. got'[i] = got[i] /\ got[i].n \in DOMAIN sent'
        BY <1>3, <2>7, <3>2 DEF OrderInv
      <4>2. ASSUME NEW l \in Labels, sent[got[i].n].label = l
            PROVE  /\ \A j \in DOMAIN up'[l] : got[i].n < up'[l][j]
                   /\ \A j \in DOMAIN down'[l] : got[i].n < down'[l][j]
        <5>1. /\ \A j \in DOMAIN up[l] : got[i].n < up[l][j]
              /\ \A j \in DOMAIN down[l] : got[i].n < down[l][j]
          BY <3>2, <4>2 DEF OrderInv
        <5> QED BY <1>3, <2>5, <2>6, <5>1
      <4> QED BY <1>3, <4>1, <4>2
    <3> QED BY <2>7, <3>1, <3>2
  <2> QED BY <2>9, <2>10, <2>11 DEF OrderInv
<1> QED BY <1>5, <1>6

----------------------------------------------------------------------------
(* The theorems.                                                           *)

LEMMA Invariance == DataSpec => []Inv
<1>1. DataInit => Inv
  BY InitType, InitHeard, InitOrder DEF Inv
<1>2. Inv /\ [DataNext]_dataVars => Inv'
  <2> SUFFICES ASSUME Inv, [DataNext]_dataVars PROVE Inv'
    OBVIOUS
  <2>1. CASE UNCHANGED dataVars
    BY <2>1 DEF Inv, DataTypeOK, HeardInv, HeardUnlessCrossed, OrderInv, HandInv, OfLabel,
                dataVars, outVars, inVars, transitVars
  <2>2. CASE DataNext
    <3>1. DataTypeOK'
      BY <2>2, SenderTypes, NetworkTypes, ReceiverTypes DEF Inv, DataNext
    <3>2. HeardInv'
      BY <2>2, HeardStep DEF Inv
    <3>3. UNCHANGED <<up, down, sent, got, hand>> => OrderInv'
      BY DEF Inv, OrderInv, HandInv, OfLabel
    <3>4. OrderInv'
      <4>1. CASE Sender
        <5>1. Begin \/ End \/ (\E l \in Labels : LocalChannelCreated(l))
                => UNCHANGED <<up, down, sent, got, hand>>
          BY DEF Begin, End, LocalChannelCreated, transitVars
        <5> QED BY <3>3, <4>1, <5>1, LossSteps, GetChannelOrder, SendOrder DEF Sender, Inv
      <4>2. CASE Network
        BY <4>2, LossSteps, RelayOrder DEF Network, Inv
      <4>3. CASE Receiver
        <5>1. Connect \/ HearConnecting \/ Join \/ Take \/ CloseSocket \/ CloseManager \/ ResetListeners
                => UNCHANGED <<up, down, sent, got, hand>>
          BY DEF Connect, HearConnecting, Join, Take, CloseSocket, CloseManager, ResetListeners,
                 transitVars, outVars
        <5> QED BY <3>3, <4>3, <5>1, LossSteps, MessageOrder DEF Receiver, Inv
      <4> QED BY <2>2, <4>1, <4>2, <4>3 DEF DataNext
    <3> QED BY <3>1, <3>2, <3>4 DEF Inv
  <2> QED BY <2>1, <2>2
<1> QED BY <1>1, <1>2, PTL DEF DataSpec

\* Every variable of the data channels keeps its type.
THEOREM DataTypeCorrect == DataSpec => []DataTypeOK
BY Invariance, PTL DEF Inv

\* A session whose Connecting was heard has its listeners, whatever the thread that ends
\* an earlier one does, unless the two overlap.
THEOREM ConnectedIsHeard == DataSpec => []HeardUnlessCrossed
BY Invariance, PTL DEF Inv, HeardInv

LEMMA PublishedFacts ==
  ASSUME DataTypeOK
  PROVE  /\ sent \in Seq(SentType) /\ got \in Seq(GotType)
         /\ Len(sent) \in Nat /\ DOMAIN sent = 1..Len(sent)
         /\ Len(got) \in Nat /\ DOMAIN got = 1..Len(got)
BY DEF DataTypeOK

\* The storages, the channels and the server implement the exchange of messages: whatever
\* channel is closed, replaced or left unheard, on each label messages arrive once, in the
\* order they were sent.
THEOREM DataImplementsExchange == DataSpec => ImplementsExchange
<1> DEFINE P == [n \in DOMAIN sent |-> sent[n].label]
           R == [i \in DOMAIN got |-> got[i].n]
<1>1. DataInit => Ordered!Init
  BY DEF DataInit, Ordered!Init
<1>2. Inv /\ [DataNext]_dataVars => [Ordered!Next]_<<P, R>>
  <2> SUFFICES ASSUME Inv, [DataNext]_dataVars PROVE Ordered!Next \/ (P' = P /\ R' = R)
    OBVIOUS
  <2>1. CASE UNCHANGED <<sent, got>>
    BY <2>1
  <2>2. ASSUME NEW kind \in Kinds, NEW l \in Labels, GetChannel(kind, l) PROVE Ordered!Next
    <3> DEFINE e == [label |-> l, kind |-> kind, from |-> local[l], to |-> 0]
    <3>1. e \in SentType /\ e.label = l
      BY DataMessagesAssumption, LabelType DEF Inv, SentType, Receiving
    <3>2. sent' = Append(sent, e) /\ got' = got
      BY <2>2 DEF GetChannel
    <3> HIDE DEF e
    <3>3. P' = Append(P, l)
      <4>1. DOMAIN sent' = 1..(Len(sent) + 1) /\ DOMAIN P = 1..Len(sent) /\ Len(sent) \in Nat
        BY <3>1, <3>2, PublishedFacts DEF Inv
      <4>2. Len(P) = Len(sent)
        BY <4>1
      <4>3. \A n \in DOMAIN sent' : sent'[n] = IF n = Len(sent) + 1 THEN e ELSE sent[n]
        BY <3>1, <3>2, <4>1, PublishedFacts DEF Inv
      <4> QED BY <3>1, <4>1, <4>2, <4>3
    <3>4. R' = R
      BY <3>2
    <3> QED BY <3>3, <3>4 DEF Ordered!Next, Ordered!Publish
  <2>3. ASSUME NEW l \in Labels, Relay(l) PROVE P' = P /\ R' = R
    <3>1. DOMAIN sent' = DOMAIN sent /\ got' = got
      BY <2>3 DEF Relay
    <3>2. ASSUME NEW n \in DOMAIN sent PROVE sent'[n].label = sent[n].label
      <4>1. sent[n] \in SentType
        BY DEF Inv, DataTypeOK
      <4>2. CASE sent' = sent
        BY <4>2
      <4>3. CASE sent' = [sent EXCEPT ![Head(up[l])].to = in]
        <5>1. CASE n = Head(up[l])
          BY <4>1, <4>3, <5>1 DEF SentType
        <5>2. CASE n # Head(up[l])
          BY <4>3, <5>2
        <5> QED BY <5>1, <5>2
      <4> QED BY <2>3, <4>2, <4>3 DEF Relay
    <3> QED BY <3>1, <3>2
  <2>4. ASSUME NEW l \in Labels, OnMessage(l) PROVE Ordered!Next \/ (P' = P /\ R' = R)
    <3> DEFINE m == Head(down[l])
               r == [n |-> m, session |-> remote[l]]
    <3>1. down[l] # <<>> /\ down[l] \in Seq(Numbers)
      BY <2>4, LabelType DEF OnMessage, Inv
    <3>2. 1 \in DOMAIN down[l] /\ m = down[l][1] /\ m \in Numbers
      BY <3>1, TailFacts
    <3>3. sent' = sent /\ (got' = got \/ got' = Append(got, r))
      BY <2>4 DEF OnMessage
    <3>4. CASE got' = got
      BY <3>3, <3>4
    <3>5. CASE got' = Append(got, r)
      <4>1. r \in GotType /\ r.n = m
        BY <3>2, LabelType DEF GotType, Inv
      <4> HIDE DEF m, r
      <4>2. m \in DOMAIN sent /\ sent[m].label = l
        BY <3>2 DEF Inv, OrderInv, OfLabel
      <4>3. R' = Append(R, m)
        <5>1. DOMAIN got' = 1..(Len(got) + 1) /\ DOMAIN R = 1..Len(got) /\ Len(got) \in Nat
          BY <3>5, <4>1, PublishedFacts DEF Inv
        <5>2. Len(R) = Len(got)
          BY <5>1
        <5>3. \A i \in DOMAIN got' : got'[i] = IF i = Len(got) + 1 THEN r ELSE got[i]
          BY <3>5, <4>1, <5>1, PublishedFacts DEF Inv
        <5> QED BY <4>1, <5>1, <5>2, <5>3
      <4>4. \A i \in DOMAIN R : P[R[i]] = P[m] => R[i] < m
        BY <3>2, <4>2 DEF Inv, OrderInv
      <4>5. P' = P /\ m \in DOMAIN P
        BY <3>3, <4>2
      <4> QED BY <4>3, <4>4, <4>5 DEF Ordered!Next, Ordered!Receive
    <3> QED BY <3>3, <3>4, <3>5
  <2>5. \/ UNCHANGED <<sent, got>>
        \/ \E kind \in Kinds, l \in Labels : GetChannel(kind, l)
        \/ \E l \in Labels : Relay(l) \/ OnMessage(l)
    BY DEF DataNext, Sender, Network, Receiver, Begin, End, LocalChannelCreated, CloseSending,
           SendAsync, LoseLossy, Connect, HearConnecting, Join, Take, CloseSocket, CloseManager,
           ResetListeners, CloseReceiving, RemoteChannelOpened, dataVars, transitVars
  <2> QED BY <2>1, <2>2, <2>3, <2>4, <2>5
<1> QED BY <1>1, <1>2, Invariance, PTL DEF DataSpec, ImplementsExchange, Ordered!Spec

----------------------------------------------------------------------------
(* The sessions of the receiver, one after the other.                      *)

InDown(l) == {down[l][j] : j \in DOMAIN down[l]}

\* A session that is ending or whose channels are to be closed is not the current one.
EndedInv ==
  /\ \A s \in inClosing : s # 0 /\ s <= inMade /\ s # in
  /\ ending.step # "idle" => ending.session <= inMade /\ ending.session # in

\* What comes down belongs to the session of the channel: to the current one, or to one that
\* is being closed. Unless they overlap, a channel of a session is made when nothing comes
\* down for an earlier one.
ChannelInv ==
  \A l \in Labels :
    /\ remote[l] <= inMade
    /\ down[l] # <<>> =>
         \/ remote[l] = in /\ in # 0
         \/ remote[l] \in inClosing
         \/ ending.step \in {"socket", "manager"} /\ ending.session = remote[l]
    /\ \A n \in InDown(l) : sent[n].to = remote[l]
    /\ \A k \in Labels : remote[l] < remote[k] /\ remote[k] \notin overlapped => down[l] = <<>>

SessionsInv == EndedInv /\ ChannelInv

LEMMA InitSessions == DataInit => SessionsInv
BY DEF DataInit, SessionsInv, EndedInv, ChannelInv, InDown

LEMMA MadeType ==
  ASSUME DataTypeOK
  PROVE  /\ inMade \in Nat /\ in \in {0, inMade} /\ in \in Nat
         /\ \A s \in Receiving : s \in Nat
BY DataMessagesAssumption DEF DataTypeOK, Receiving

\* What comes down on a label changes in three ways: it is lost or handed on, the server sends
\* one more, or another channel takes its place.
LEMMA DownSteps ==
  ASSUME DataTypeOK, DataNext, NEW l \in Labels
  PROVE  \/ Left(down'[l], down[l])
         \/ Relay(l) /\ in # 0 /\ remote[l] = in /\ down'[l] = Append(down[l], Head(up[l]))
<1>1. CASE down' = down
  BY <1>1 DEF Left
<1>2. CASE LoseLossy
  BY <1>2 DEF LoseLossy, Left, DataTypeOK
<1>3. ASSUME NEW k \in Labels, Relay(k)
      PROVE  \/ Left(down'[l], down[l])
             \/ Relay(l) /\ in # 0 /\ remote[l] = in /\ down'[l] = Append(down[l], Head(up[l]))
  BY <1>3 DEF Relay, Left, DataTypeOK
<1>4. ASSUME NEW s \in inClosing, CloseReceiving(s) PROVE Left(down'[l], down[l])
  BY <1>4 DEF CloseReceiving, Left
<1>5. ASSUME NEW k \in Labels, RemoteChannelOpened(k) PROVE Left(down'[l], down[l])
  BY <1>5 DEF RemoteChannelOpened, Left, DataTypeOK
<1>6. ASSUME NEW k \in Labels, OnMessage(k) PROVE Left(down'[l], down[l])
  BY <1>6 DEF OnMessage, Left, DataTypeOK
<1>7. \/ down' = down \/ LoseLossy
      \/ \E k \in Labels : Relay(k) \/ RemoteChannelOpened(k) \/ OnMessage(k)
      \/ \E s \in inClosing : CloseReceiving(s)
  BY DEF DataNext, Sender, Network, Receiver, Begin, End, LocalChannelCreated, CloseSending,
         GetChannel, SendAsync, Connect, HearConnecting, Join, Take, CloseSocket, CloseManager,
         ResetListeners, transitVars
<1> QED BY <1>1, <1>2, <1>3, <1>4, <1>5, <1>6, <1>7

LEMMA InDownSteps ==
  ASSUME DataTypeOK, DataNext, NEW l \in Labels
  PROVE  \/ InDown(l)' \subseteq InDown(l) /\ (down'[l] # <<>> => down[l] # <<>>)
         \/ Relay(l) /\ in # 0 /\ remote[l] = in /\ InDown(l)' = InDown(l) \cup {Head(up[l])}
<1>1. down[l] \in Seq(Nat) /\ down[l] \in Seq(Numbers)
  BY LabelType
<1>2. CASE Left(down'[l], down[l])
  <2>1. \A i \in DOMAIN down'[l] : \E j \in DOMAIN down[l] : down'[l][i] = down[l][j]
    BY <1>1, <1>2, LeftFacts
  <2>2. down'[l] # <<>> => down[l] # <<>>
    BY <1>2 DEF Left
  <2> QED BY <2>1, <2>2 DEF InDown
<1>3. CASE Relay(l) /\ in # 0 /\ remote[l] = in /\ down'[l] = Append(down[l], Head(up[l]))
  <2>1. Head(up[l]) \in Numbers
    BY <1>3, LabelType, TailFacts DEF Relay
  <2> QED BY <1>1, <1>3, <2>1, AppendFacts DEF InDown
<1> QED BY <1>2, <1>3, DownSteps

\* The session a message goes to is set when the server hands it on, and not changed before it
\* comes down.
LEMMA SentSteps ==
  ASSUME DataTypeOK, OrderInv, DataNext, NEW n \in DOMAIN sent
  PROVE  /\ n \in DOMAIN sent' /\ sent'[n].label = sent[n].label /\ sent'[n].kind = sent[n].kind
         /\ \/ sent'[n].to = sent[n].to
            \/ /\ Relay(sent[n].label) /\ n = Head(up[sent[n].label])
               /\ in # 0 /\ remote[sent[n].label] = in /\ sent'[n].to = in
<1>0. sent[n] \in SentType
  BY DEF DataTypeOK
<1>1. CASE sent' = sent
  BY <1>1
<1>2. ASSUME NEW kind \in Kinds, NEW l \in Labels, GetChannel(kind, l)
      PROVE  n \in DOMAIN sent' /\ sent'[n] = sent[n]
  <2> DEFINE e == [label |-> l, kind |-> kind, from |-> local[l], to |-> 0]
  <2>1. e \in SentType
    BY DataMessagesAssumption, LabelType DEF SentType, Receiving
  <2>2. sent' = Append(sent, e) /\ sent \in Seq(SentType)
    BY <1>2 DEF GetChannel, DataTypeOK
  <2> HIDE DEF e
  <2> QED BY <2>1, <2>2, AppendFacts
<1>3. ASSUME NEW l \in Labels, Relay(l), sent' # sent
      PROVE  /\ n \in DOMAIN sent' /\ sent'[n].label = sent[n].label /\ sent'[n].kind = sent[n].kind
             /\ \/ sent'[n].to = sent[n].to
                \/ l = sent[n].label /\ n = Head(up[l]) /\ in # 0 /\ remote[l] = in /\ sent'[n].to = in
  <2>1. sent' = [sent EXCEPT ![Head(up[l])].to = in] /\ in # 0 /\ remote[l] = in
    BY <1>3 DEF Relay
  <2>2. CASE n = Head(up[l])
    <3>1. sent[n].label = l
      BY <1>3, <2>2, LabelType, TailFacts DEF Relay, OrderInv, OfLabel
    <3> QED BY <1>0, <2>1, <2>2, <3>1 DEF SentType
  <2>3. CASE n # Head(up[l])
    BY <2>1, <2>3
  <2> QED BY <2>2, <2>3
<1>4. \/ sent' = sent
      \/ \E kind \in Kinds, l \in Labels : GetChannel(kind, l)
      \/ \E l \in Labels : Relay(l)
  BY DEF DataNext, Sender, Network, Receiver, Begin, End, LocalChannelCreated, CloseSending,
         SendAsync, LoseLossy, Connect, HearConnecting, Join, Take, CloseSocket, CloseManager,
         ResetListeners, CloseReceiving, RemoteChannelOpened, OnMessage, transitVars
<1> QED BY <1>1, <1>2, <1>3, <1>4

LEMMA SessionsStep ==
  ASSUME DataTypeOK, HeardInv, OrderInv, SessionsInv, DataNext
  PROVE  SessionsInv'
<1> USE MadeType
<1>0. EndedInv /\ ChannelInv
  BY DEF SessionsInv
<1>2. ASSUME NEW l \in Labels, NEW n \in InDown(l)' PROVE remote'[l] = remote[l] => sent'[n].to = remote'[l]
  <2>1. n \in InDown(l) => n \in DOMAIN sent /\ sent[n].label = l /\ sent[n].to = remote[l]
    BY <1>0 DEF ChannelInv, OrderInv, OfLabel, InDown
  <2>2. CASE n \in InDown(l)
    BY <2>1, <2>2, SentSteps
  <2>3. CASE Relay(l) /\ in # 0 /\ remote[l] = in /\ n = Head(up[l])
    <3>1. n \in DOMAIN sent /\ sent[n].label = l
      BY <2>3, LabelType, TailFacts DEF Relay, OrderInv, OfLabel
    <3>2. sent[n] \in SentType
      BY <3>1 DEF DataTypeOK
    <3>3. sent' = [sent EXCEPT ![n].to = in]
      BY <2>3 DEF Relay
    <3>4. sent'[n].to = in
      BY <3>1, <3>2, <3>3 DEF SentType
    <3> QED BY <2>3, <3>4
  <2> QED BY <2>2, <2>3, InDownSteps
<1>3. ASSUME UNCHANGED inVars PROVE SessionsInv'
  <2>1. EndedInv'
    BY <1>0, <1>3 DEF EndedInv, inVars
  <2>2. ASSUME NEW l \in Labels
        PROVE  (/\ remote[l] <= inMade
                /\ down[l] # <<>> =>
                     \/ remote[l] = in /\ in # 0
                     \/ remote[l] \in inClosing
                     \/ ending.step \in {"socket", "manager"} /\ ending.session = remote[l]
                /\ \A n \in InDown(l) : sent[n].to = remote[l]
                /\ \A k \in Labels : remote[l] < remote[k] /\ remote[k] \notin overlapped => down[l] = <<>>)'
    <3>1. (down'[l] # <<>> => down[l] # <<>>) \/ (in # 0 /\ remote[l] = in)
      BY InDownSteps
    <3>2. in # 0 /\ remote[l] = in => \A k \in Labels : ~(remote[l] < remote[k])
      BY <1>0, LabelType DEF ChannelInv
    <3>3. remote' = remote
      BY <1>3 DEF inVars
    <3> QED BY <1>0, <1>2, <1>3, <3>1, <3>2, <3>3 DEF ChannelInv, inVars
  <2> QED BY <2>1, <2>2 DEF SessionsInv, ChannelInv
\* A session begins, or the thread that ends one goes on.
<1>4. ASSUME UNCHANGED <<down, sent, remote>>, EndedInv',
             inMade' \in {inMade, inMade + 1}, overlapped \subseteq overlapped',
             \A l \in Labels : down[l] # <<>> =>
               \/ remote[l] = in' /\ in' # 0
               \/ remote[l] \in inClosing'
               \/ ending'.step \in {"socket", "manager"} /\ ending'.session = remote[l]
      PROVE  SessionsInv'
  <2>1. ASSUME NEW l \in Labels PROVE remote[l] <= inMade'
    <3>1. remote[l] <= inMade /\ remote[l] \in Nat
      BY <1>0, LabelType DEF ChannelInv
    <3> QED BY <1>4, <3>1
  <2> QED BY <1>0, <1>4, <2>1 DEF SessionsInv, ChannelInv, InDown
<1>5. CASE Connect
  <2>1. EndedInv'
    BY <1>0, <1>5 DEF Connect, EndedInv
  <2>2. \A l \in Labels : down[l] # <<>> =>
          \/ remote[l] = in /\ in # 0
          \/ remote[l] \in inClosing
          \/ ending.step \in {"socket", "manager"} /\ ending.session = remote[l]
    BY <1>0 DEF ChannelInv
  <2>3. UNCHANGED <<down, sent, remote, in, inMade, ending, inClosing>> /\ overlapped \subseteq overlapped'
    BY <1>5 DEF Connect, transitVars
  <2> QED BY <1>4, <2>1, <2>2, <2>3
<1>6. CASE HearConnecting
  <2>1. UNCHANGED <<down, sent, remote, in, inMade, ending, inClosing, overlapped>>
    BY <1>6 DEF HearConnecting, transitVars
  <2> QED BY <1>0, <2>1 DEF SessionsInv, EndedInv, ChannelInv, InDown
<1>7. CASE Join
  <2>1. in = 0 /\ in' = inMade + 1 /\ inMade' = inMade + 1
    BY <1>7 DEF Join, HeardInv
  <2>2. UNCHANGED <<down, sent, remote, ending, inClosing, overlapped>>
    BY <1>7 DEF Join, transitVars
  <2>3. /\ \A s \in inClosing : s \in Nat
        /\ ending.step # "idle" => ending.session \in Nat
    BY DEF DataTypeOK
  <2>4. EndedInv'
    BY <1>0, <2>1, <2>2, <2>3 DEF EndedInv
  <2>5. \A l \in Labels : down[l] # <<>> =>
          \/ remote[l] \in inClosing
          \/ ending.step \in {"socket", "manager"} /\ ending.session = remote[l]
    BY <1>0, <2>1 DEF ChannelInv
  <2> QED BY <1>4, <2>1, <2>2, <2>4, <2>5
<1>8. CASE Take
  <2>1. in # 0 /\ in = inMade /\ in' = 0 /\ ending.step = "idle"
    BY <1>8 DEF Take
  <2>2. ending'.step = "socket" /\ ending'.session = in
    BY <1>8 DEF Take
  <2>3. UNCHANGED <<down, sent, remote, inMade, inClosing, overlapped>>
    BY <1>8 DEF Take, transitVars
  <2>4. \A l \in Labels : down[l] # <<>> => remote[l] = in \/ remote[l] \in inClosing
    BY <1>0, <2>1 DEF ChannelInv
  <2>5. ASSUME NEW s \in inClosing PROVE s <= inMade /\ s # 0
    BY <1>0 DEF EndedInv
  <2>6. EndedInv'
    BY <1>0, <2>1, <2>2, <2>3, <2>5 DEF EndedInv
  <2> QED BY <1>4, <2>1, <2>2, <2>3, <2>4, <2>6
<1>9. CASE CloseSocket
  <2>1. ending.step = "socket" /\ ending'.step = "manager" /\ ending'.session = ending.session
    BY <1>9 DEF CloseSocket, DataTypeOK
  <2>2. UNCHANGED <<down, sent, remote, in, inMade, inClosing, overlapped>>
    BY <1>9 DEF CloseSocket, transitVars
  <2> QED BY <1>0, <2>1, <2>2 DEF SessionsInv, EndedInv, ChannelInv, InDown
<1>10. CASE CloseManager
  <2>1. ending.step = "manager" /\ ending'.step = "release" /\ ending'.session = ending.session
    BY <1>10 DEF CloseManager, DataTypeOK
  <2>2. UNCHANGED <<down, sent, remote, in, inMade, overlapped>> /\ inClosing' = inClosing \cup {ending.session}
    BY <1>10 DEF CloseManager, transitVars
  <2>3. ending.session # 0
    BY <2>1 DEF DataTypeOK
  <2>4. EndedInv'
    BY <1>0, <2>1, <2>2, <2>3 DEF EndedInv
  <2>5. \A l \in Labels : down[l] # <<>> => (remote[l] = in /\ in # 0) \/ remote[l] \in inClosing'
    BY <1>0, <2>2 DEF ChannelInv
  <2> QED BY <1>4, <2>2, <2>4, <2>5
<1>11. CASE ResetListeners
  <2>1. ending.step = "release" /\ ending'.step = "idle"
    BY <1>11 DEF ResetListeners
  <2>2. UNCHANGED <<down, sent, remote, in, inMade, inClosing, overlapped>>
    BY <1>11 DEF ResetListeners, transitVars
  <2> QED BY <1>0, <2>1, <2>2 DEF SessionsInv, EndedInv, ChannelInv, InDown
<1>12. ASSUME NEW s \in inClosing, CloseReceiving(s) PROVE SessionsInv'
  <2>1. UNCHANGED <<sent, remote, in, inMade, ending, overlapped>> /\ inClosing' = inClosing \ {s}
    BY <1>12 DEF CloseReceiving
  <2>2. EndedInv'
    BY <1>0, <2>1 DEF EndedInv
  <2>3. ASSUME NEW l \in Labels
        PROVE  (/\ remote[l] <= inMade
                /\ down[l] # <<>> =>
                     \/ remote[l] = in /\ in # 0
                     \/ remote[l] \in inClosing
                     \/ ending.step \in {"socket", "manager"} /\ ending.session = remote[l]
                /\ \A n \in InDown(l) : sent[n].to = remote[l]
                /\ \A k \in Labels : remote[l] < remote[k] /\ remote[k] \notin overlapped => down[l] = <<>>)'
    <3>1. down'[l] = IF remote[l] = s THEN <<>> ELSE down[l]
      BY <1>12 DEF CloseReceiving
    <3> QED BY <1>0, <1>2, <2>1, <3>1 DEF ChannelInv
  <2> QED BY <2>2, <2>3 DEF SessionsInv, ChannelInv
\* Nothing is being closed when a channel is made: what comes down on the other belongs to the
\* same session, unless the thread that ends the last one has not posted its closing yet.
<1>13. ASSUME NEW k \in Labels, RemoteChannelOpened(k) PROVE SessionsInv'
  <2>1. UNCHANGED <<sent, in, inMade, ending, inClosing, overlapped>> /\ in # 0 /\ inClosing = {}
    BY <1>13 DEF RemoteChannelOpened, outVars
  <2>2. EndedInv'
    BY <1>0, <2>1 DEF EndedInv
  <2>3. ASSUME NEW l \in Labels
        PROVE  /\ remote'[l] = (IF l = k THEN in ELSE remote[l])
               /\ down'[l] = (IF l = k THEN <<>> ELSE down[l])
    BY <1>13 DEF RemoteChannelOpened, DataTypeOK
  <2>4. ASSUME NEW l \in Labels, down[l] # <<>>, in \notin overlapped PROVE remote[l] = in
    BY <1>0, <2>1, <2>4 DEF ChannelInv, HeardInv
  <2>5. ASSUME NEW l \in Labels
        PROVE  (/\ remote[l] <= inMade
                /\ down[l] # <<>> =>
                     \/ remote[l] = in /\ in # 0
                     \/ remote[l] \in inClosing
                     \/ ending.step \in {"socket", "manager"} /\ ending.session = remote[l]
                /\ \A n \in InDown(l) : sent[n].to = remote[l])'
    <3>1. \A n \in InDown(l)' : down'[l] # <<>>
      BY LabelType DEF InDown
    <3> QED BY <1>0, <1>2, <2>1, <2>3, <3>1 DEF ChannelInv
  <2>6. ASSUME NEW l \in Labels, NEW j \in Labels, remote'[l] < remote'[j], remote'[j] \notin overlapped',
               down'[l] # <<>>
        PROVE  FALSE
    <3>1. l # k /\ remote'[l] = remote[l] /\ down[l] # <<>> /\ overlapped' = overlapped
      BY <2>1, <2>3, <2>6
    <3>2. CASE j = k
      BY <2>3, <2>4, <2>6, <3>1, <3>2
    <3>3. CASE j # k
      BY <1>0, <2>3, <2>6, <3>1, <3>3 DEF ChannelInv
    <3> QED BY <3>2, <3>3
  <2> QED BY <2>2, <2>5, <2>6 DEF SessionsInv, ChannelInv
<1>14. ASSUME NEW k \in Labels, OnMessage(k) PROVE UNCHANGED inVars
  BY <1>14 DEF OnMessage
<1>15. Sender \/ Network => UNCHANGED inVars
  BY DEF Sender, Network, Begin, End, LocalChannelCreated, CloseSending, GetChannel, SendAsync,
         LoseLossy, Relay
<1> QED BY <1>3, <1>5, <1>6, <1>7, <1>8, <1>9, <1>10, <1>11, <1>12, <1>13, <1>14, <1>15
        DEF DataNext, Receiver

----------------------------------------------------------------------------
(* Which session a message is given to, and which messages are missed.     *)

\* What comes down is of the session of the last message given to the listener, or of a later
\* one.
SilentInv ==
  /\ \A i \in DOMAIN got :
       /\ got[i].session <= inMade
       /\ \/ got[i].session \in overlapped
          \/ \A l \in Labels : down[l] # <<>> => got[i].session <= remote[l]
  /\ OldSessionIsSilent

Reliable == {n \in DOMAIN sent : sent[n].label = "reliable"}

\* A reliable message that was handed on to a session has arrived, is on its way, or was lost
\* with its channel, and with it those sent later to that session.
GapInv ==
  /\ \A n \in DOMAIN sent : sent[n].to <= inMade
  /\ \A n \in Reliable :
       sent[n].kind # "misread" /\ sent[n].to # 0 =>
         \/ n \in Got \cup unheard \cup InDown("reliable")
         \/ /\ sent[n].to # in
            /\ \A m \in Reliable :
                 n < m /\ sent[m].to = sent[n].to => m \notin Got \cup InDown("reliable")

LEMMA InitSilent == DataInit => SilentInv /\ GapInv
BY DEF DataInit, SilentInv, GapInv, OldSessionIsSilent, Reliable

\* What the listener has got grows by the head of what comes down.
LEMMA GotSteps ==
  ASSUME DataTypeOK, OrderInv, DataNext
  PROVE  \/ UNCHANGED <<got, unheard>>
         \/ \E l \in Labels :
              /\ OnMessage(l) /\ down[l] # <<>> /\ UNCHANGED <<sent, inVars>>
              /\ Head(down[l]) \in InDown(l) /\ Head(down[l]) \in DOMAIN sent
              /\ sent[Head(down[l])].label = l
              /\ InDown(l) = InDown(l)' \cup {Head(down[l])}
              /\ \A k \in Labels \ {l} : InDown(k)' = InDown(k)
              /\ \/ got' = got /\ unheard' = unheard \cup {Head(down[l])}
                 \/ got' = got /\ unheard' = unheard /\ sent[Head(down[l])].kind = "misread"
                 \/ got' = Append(got, [n |-> Head(down[l]), session |-> remote[l]]) /\ unheard' = unheard
<1>1. ASSUME NEW l \in Labels, OnMessage(l)
      PROVE  /\ down[l] # <<>> /\ UNCHANGED <<sent, inVars>>
             /\ Head(down[l]) \in InDown(l) /\ Head(down[l]) \in DOMAIN sent
             /\ sent[Head(down[l])].label = l
             /\ InDown(l) = InDown(l)' \cup {Head(down[l])}
             /\ \A k \in Labels \ {l} : InDown(k)' = InDown(k)
             /\ \/ got' = got /\ unheard' = unheard \cup {Head(down[l])}
                \/ got' = got /\ unheard' = unheard /\ sent[Head(down[l])].kind = "misread"
                \/ got' = Append(got, [n |-> Head(down[l]), session |-> remote[l]]) /\ unheard' = unheard
  <2>1. down[l] # <<>> /\ down[l] \in Seq(Numbers) /\ UNCHANGED <<sent, inVars>>
    BY <1>1, LabelType DEF OnMessage
  <2>2. /\ down'[l] = Tail(down[l]) /\ \A k \in Labels \ {l} : down'[k] = down[k]
    BY <1>1 DEF OnMessage, DataTypeOK
  <2>3. 1 \in DOMAIN down[l] /\ Head(down[l]) = down[l][1]
    BY <2>1, TailFacts
  <2>4. InDown(l) = InDown(l)' \cup {Head(down[l])}
    <3>1. \A i \in DOMAIN Tail(down[l]) : i + 1 \in DOMAIN down[l] /\ Tail(down[l])[i] = down[l][i + 1]
      BY <2>1, TailFacts
    <3>2. ASSUME NEW i \in DOMAIN down[l], i # 1
          PROVE  i - 1 \in DOMAIN Tail(down[l]) /\ Tail(down[l])[i - 1] = down[l][i]
      BY <2>1, <3>2
    <3>3. InDown(l)' \cup {Head(down[l])} \subseteq InDown(l)
      BY <2>2, <2>3, <3>1 DEF InDown
    <3>4. ASSUME NEW i \in DOMAIN down[l] PROVE down[l][i] \in InDown(l)' \cup {Head(down[l])}
      <4>1. CASE i = 1
        BY <2>3, <4>1
      <4>2. CASE i # 1
        <5>1. i - 1 \in DOMAIN down'[l] /\ down'[l][i - 1] = down[l][i]
          BY <2>2, <3>2, <4>2
        <5> QED BY <5>1 DEF InDown
      <4> QED BY <4>1, <4>2
    <3> QED BY <3>3, <3>4 DEF InDown
  <2>5. Head(down[l]) \in DOMAIN sent /\ sent[Head(down[l])].label = l
    BY <2>3 DEF OrderInv, OfLabel
  <2>6. \/ got' = got /\ unheard' = unheard \cup {Head(down[l])}
        \/ got' = got /\ unheard' = unheard /\ sent[Head(down[l])].kind = "misread"
        \/ got' = Append(got, [n |-> Head(down[l]), session |-> remote[l]]) /\ unheard' = unheard
    BY <1>1 DEF OnMessage
  <2>7. Head(down[l]) \in InDown(l) /\ \A k \in Labels \ {l} : InDown(k)' = InDown(k)
    BY <2>2, <2>3 DEF InDown
  <2> QED BY <2>1, <2>4, <2>5, <2>6, <2>7
<1>2. UNCHANGED <<got, unheard>> \/ \E l \in Labels : OnMessage(l)
  BY DEF DataNext, Sender, Network, Receiver, Begin, End, LocalChannelCreated, CloseSending,
         GetChannel, SendAsync, LoseLossy, Relay, Connect, HearConnecting, Join, Take, CloseSocket,
         CloseManager, ResetListeners, CloseReceiving, RemoteChannelOpened, transitVars
<1> QED BY <1>1, <1>2

LEMMA RemoteSteps ==
  ASSUME DataTypeOK, HeardInv, SessionsInv, DataNext
  PROVE  /\ inMade <= inMade' /\ overlapped \subseteq overlapped'
         /\ \A l \in Labels : remote'[l] = remote[l] \/ (remote'[l] = inMade /\ down'[l] = <<>>)
         /\ in' \in {in, 0, inMade + 1}
<1> USE MadeType
<1>1. CASE UNCHANGED inVars
  BY <1>1 DEF inVars
<1>2. CASE Connect \/ HearConnecting \/ Join \/ Take \/ CloseSocket \/ CloseManager \/ ResetListeners
  BY <1>2 DEF Connect, HearConnecting, Join, Take, CloseSocket, CloseManager, ResetListeners
<1>3. ASSUME NEW s \in inClosing, CloseReceiving(s)
      PROVE  UNCHANGED <<in, inMade, overlapped, remote>>
  BY <1>3 DEF CloseReceiving
<1>4. ASSUME NEW k \in Labels, RemoteChannelOpened(k)
      PROVE  /\ UNCHANGED <<in, inMade, overlapped>>
             /\ \A l \in Labels : remote'[l] = remote[l] \/ (remote'[l] = inMade /\ down'[l] = <<>>)
  BY <1>4 DEF RemoteChannelOpened, DataTypeOK
<1>5. ASSUME NEW k \in Labels, OnMessage(k) PROVE UNCHANGED inVars
  BY <1>5 DEF OnMessage
<1>6. Sender \/ Network => UNCHANGED inVars
  BY DEF Sender, Network, Begin, End, LocalChannelCreated, CloseSending, GetChannel, SendAsync,
         LoseLossy, Relay
<1> QED BY <1>1, <1>2, <1>3, <1>4, <1>5, <1>6 DEF DataNext, Receiver

LEMMA SilentStep ==
  ASSUME DataTypeOK, HeardInv, OrderInv, SessionsInv, SilentInv, DataNext
  PROVE  SilentInv'
<1> USE MadeType
<1>1. /\ inMade' \in Nat /\ got \in Seq(GotType) /\ \A i \in DOMAIN got : got[i].session \in Nat
      /\ \A l \in Labels : remote[l] \in Nat /\ remote[l] <= inMade
  <2>1. DataTypeOK'
    BY SenderTypes, NetworkTypes, ReceiverTypes DEF DataNext
  <2>2. \A i \in DOMAIN got : got[i] \in GotType
    BY DEF DataTypeOK
  <2> QED BY <2>1, <2>2, LabelType, DataMessagesAssumption
          DEF DataTypeOK, Receiving, GotType, SessionsInv, ChannelInv
\* Messages got before.
<1>2. ASSUME NEW i \in DOMAIN got
      PROVE  /\ got[i].session <= inMade'
             /\ \/ got[i].session \in overlapped'
                \/ \A l \in Labels : down'[l] # <<>> => got[i].session <= remote'[l]
  <2>1. got[i].session <= inMade
    BY DEF SilentInv
  <2>2. ASSUME got[i].session \notin overlapped, NEW l \in Labels, down'[l] # <<>>
        PROVE  got[i].session <= remote'[l]
    <3>1. remote'[l] = remote[l] \/ remote'[l] = inMade
      BY RemoteSteps
    <3>2. CASE down[l] # <<>>
      BY <2>1, <2>2, <3>1, <3>2 DEF SilentInv
    <3>3. CASE in # 0 /\ remote[l] = in
      BY <2>1, <3>1, <3>3
    <3> QED BY <2>2, <3>2, <3>3, InDownSteps
  <2> QED BY <1>1, <2>1, <2>2, RemoteSteps
<1>3. CASE got' = got
  BY <1>2, <1>3, RemoteSteps DEF SilentInv, OldSessionIsSilent
<1>4. ASSUME NEW l \in Labels, down[l] # <<>>, UNCHANGED inVars,
             got' = Append(got, [n |-> Head(down[l]), session |-> remote[l]])
      PROVE  SilentInv'
  <2> DEFINE r == [n |-> Head(down[l]), session |-> remote[l]]
  <2>1. r \in GotType /\ r.session = remote[l]
    BY <1>4, LabelType, TailFacts DEF GotType
  <2> HIDE DEF r
  <2>2. /\ DOMAIN got' = DOMAIN got \cup {Len(got) + 1} /\ got'[Len(got) + 1] = r
        /\ \A i \in DOMAIN got : got'[i] = got[i] /\ i \in Nat /\ i <= Len(got)
    BY <1>1, <1>4, <2>1, AppendFacts DEF r
  <2>3. UNCHANGED <<inMade, overlapped, remote, in>>
    BY <1>4 DEF inVars
  <2>4. ASSUME remote[l] \notin overlapped, NEW k \in Labels, down'[k] # <<>>
        PROVE  remote[l] <= remote'[k]
    <3>1. CASE down[k] # <<>>
      BY <1>1, <2>3, <2>4, <3>1 DEF SessionsInv, ChannelInv
    <3>2. CASE in # 0 /\ remote[k] = in
      BY <1>1, <2>3, <3>2
    <3> QED BY <2>4, <3>1, <3>2, InDownSteps
  <2>5. ASSUME NEW i \in DOMAIN got'
        PROVE  /\ got'[i].session <= inMade'
               /\ \/ got'[i].session \in overlapped'
                  \/ \A k \in Labels : down'[k] # <<>> => got'[i].session <= remote'[k]
    BY <1>1, <1>2, <2>1, <2>2, <2>3, <2>4
  <2>6. ASSUME NEW i \in DOMAIN got', NEW j \in DOMAIN got', i < j
        PROVE  got'[i].session <= got'[j].session \/ got'[i].session \in overlapped'
    <3>1. Len(got) \in Nat
      BY <1>1
    <3>2. i \in DOMAIN got
      BY <2>2, <2>6, <3>1
    <3>3. CASE j \in DOMAIN got
      BY <2>2, <2>3, <2>6, <3>2, <3>3 DEF SilentInv, OldSessionIsSilent
    <3>4. CASE j = Len(got) + 1
      BY <1>4, <2>1, <2>2, <2>3, <3>2, <3>4 DEF SilentInv
    <3> QED BY <2>2, <3>3, <3>4
  <2> QED BY <2>5, <2>6 DEF SilentInv, OldSessionIsSilent
<1> QED BY <1>3, <1>4, GotSteps

\* A message handed on is at the end of what comes down, and it is known to which session.
LEMMA RelaySteps ==
  ASSUME DataTypeOK, OrderInv, NEW l \in Labels, Relay(l), in # 0, remote[l] = in
  PROVE  /\ Head(up[l]) \in DOMAIN sent /\ sent'[Head(up[l])].to = in
         /\ Head(up[l]) \in InDown(l)'
<1>1. Head(up[l]) \in Numbers /\ Head(up[l]) \in DOMAIN sent
  BY LabelType, TailFacts DEF Relay, OrderInv, OfLabel
<1>2. sent[Head(up[l])] \in SentType
  BY <1>1 DEF DataTypeOK
<1>3. sent' = [sent EXCEPT ![Head(up[l])].to = in]
  BY DEF Relay
<1>4. sent'[Head(up[l])].to = in
  BY <1>1, <1>2, <1>3 DEF SentType
<1>5. down'[l] = Append(down[l], Head(up[l])) /\ down[l] \in Seq(Numbers)
  BY LabelType DEF Relay, DataTypeOK
<1>6. Head(up[l]) \in InDown(l)'
  BY <1>1, <1>5, AppendFacts DEF InDown
<1> QED BY <1>1, <1>4, <1>6

\* A reliable message that no longer comes down was handed to the storage, or its channel is
\* closed, which is not one of the current session.
LEMMA ReliableSteps ==
  ASSUME DataTypeOK, OrderInv, SessionsInv, DataNext,
         NEW n \in InDown("reliable"), n \notin InDown("reliable")'
  PROVE  \/ OnMessage("reliable") /\ n = Head(down["reliable"])
         \/ down'["reliable"] = <<>> /\ UNCHANGED <<sent, got>> /\ remote["reliable"] # in
<1>0. "reliable" \in Labels /\ "lossy" \in Labels
  BY DEF Labels
<1>1. down'["reliable"] # down["reliable"]
  BY DEF InDown
<1>2. ~LoseLossy
  BY <1>0, <1>1 DEF LoseLossy, DataTypeOK
<1>3. ASSUME NEW l \in Labels, Relay(l) PROVE FALSE
  <2>1. InDown("reliable") \subseteq InDown("reliable")'
    <3>1. CASE down' = down
      BY <3>1 DEF InDown
    <3>2. CASE down' = [down EXCEPT ![l] = Append(@, Head(up[l]))]
      <4>1. Head(up[l]) \in Numbers /\ down[l] \in Seq(Numbers)
        BY <1>3, LabelType, TailFacts DEF Relay
      <4>2. CASE l = "reliable"
        <5>1. down'["reliable"] = Append(down["reliable"], Head(up[l]))
          BY <1>0, <3>2, <4>2 DEF DataTypeOK
        <5> QED BY <4>1, <4>2, <5>1, AppendFacts DEF InDown
      <4>3. CASE l # "reliable"
        BY <1>0, <1>1, <3>2, <4>3 DEF DataTypeOK
      <4> QED BY <4>2, <4>3
    <3> QED BY <1>3, <3>1, <3>2 DEF Relay
  <2> QED BY <2>1
<1>4. ASSUME NEW s \in inClosing, CloseReceiving(s)
      PROVE  down'["reliable"] = <<>> /\ UNCHANGED <<sent, got>> /\ remote["reliable"] # in
  <2>1. down'["reliable"] = IF remote["reliable"] = s THEN <<>> ELSE down["reliable"]
    BY <1>0, <1>4 DEF CloseReceiving
  <2>2. s # in
    BY DEF SessionsInv, EndedInv
  <2> QED BY <1>1, <1>4, <2>1, <2>2 DEF CloseReceiving
<1>5. ASSUME NEW k \in Labels, RemoteChannelOpened(k)
      PROVE  down'["reliable"] = <<>> /\ UNCHANGED <<sent, got>> /\ remote["reliable"] # in
  BY <1>0, <1>1, <1>5 DEF RemoteChannelOpened, DataTypeOK
<1>6. ASSUME NEW k \in Labels, OnMessage(k)
      PROVE  OnMessage("reliable") /\ n = Head(down["reliable"])
  <2>1. k = "reliable"
    BY <1>0, <1>1, <1>6 DEF OnMessage, DataTypeOK
  <2>2. down["reliable"] \in Seq(Numbers) /\ down["reliable"] # <<>> /\ down'["reliable"] = Tail(down["reliable"])
    BY <1>0, <1>6, <2>1, LabelType DEF OnMessage, DataTypeOK
  <2>3. PICK i \in DOMAIN down["reliable"] : n = down["reliable"][i]
    BY DEF InDown
  <2>4. CASE i = 1
    BY <1>6, <2>1, <2>2, <2>3, <2>4
  <2>5. CASE i # 1
    <3>1. i - 1 \in DOMAIN down'["reliable"] /\ down'["reliable"][i - 1] = n
      BY <2>2, <2>3, <2>5
    <3> QED BY <3>1 DEF InDown
  <2> QED BY <2>4, <2>5
<1>7. \/ down' = down \/ LoseLossy
      \/ \E k \in Labels : Relay(k) \/ RemoteChannelOpened(k) \/ OnMessage(k)
      \/ \E s \in inClosing : CloseReceiving(s)
  BY DEF DataNext, Sender, Network, Receiver, Begin, End, LocalChannelCreated, CloseSending,
         GetChannel, SendAsync, Connect, HearConnecting, Join, Take, CloseSocket, CloseManager,
         ResetListeners, transitVars
<1> QED BY <1>1, <1>2, <1>3, <1>4, <1>5, <1>6, <1>7

\* A new message has not been handed on.
LEMMA NewSteps ==
  ASSUME DataTypeOK, DataNext, NEW n \in DOMAIN sent'
  PROVE  n \in DOMAIN sent \/ sent'[n].to = 0
<1>1. ASSUME NEW kind \in Kinds, NEW l \in Labels, GetChannel(kind, l)
      PROVE  n \in DOMAIN sent \/ sent'[n].to = 0
  <2> DEFINE e == [label |-> l, kind |-> kind, from |-> local[l], to |-> 0]
  <2>1. e \in SentType /\ e.to = 0
    BY DataMessagesAssumption, LabelType DEF SentType, Receiving
  <2>2. sent' = Append(sent, e) /\ sent \in Seq(SentType)
    BY <1>1 DEF GetChannel, DataTypeOK
  <2> HIDE DEF e
  <2> QED BY <2>1, <2>2, AppendFacts
<1>2. ASSUME NEW l \in Labels, Relay(l) PROVE n \in DOMAIN sent
  BY <1>2 DEF Relay
<1>3. \/ sent' = sent
      \/ \E kind \in Kinds, l \in Labels : GetChannel(kind, l)
      \/ \E l \in Labels : Relay(l)
  BY DEF DataNext, Sender, Network, Receiver, Begin, End, LocalChannelCreated, CloseSending,
         SendAsync, LoseLossy, Connect, HearConnecting, Join, Take, CloseSocket, CloseManager,
         ResetListeners, CloseReceiving, RemoteChannelOpened, OnMessage, transitVars
<1> QED BY <1>1, <1>2, <1>3

\* What has been got stays so; what is new came down last.
LEMMA GotGrows ==
  ASSUME DataTypeOK, OrderInv, DataNext
  PROVE  /\ Got \subseteq Got' /\ unheard \subseteq unheard'
         /\ \A m \in Got' \ Got : m \in DOMAIN sent /\ \E l \in Labels : m \in InDown(l) /\ sent[m].label = l
         /\ OnMessage("reliable") =>
              \/ Head(down["reliable"]) \in Got' \cup unheard'
              \/ sent[Head(down["reliable"])].kind = "misread"
<1>1. CASE UNCHANGED <<got, unheard>>
  <2>1. OnMessage("reliable") =>
          Head(down["reliable"]) \in unheard' \/ sent[Head(down["reliable"])].kind = "misread"
    <3> SUFFICES ASSUME OnMessage("reliable"), listening, sent[Head(down["reliable"])].kind # "misread"
                 PROVE  FALSE
      BY DEF OnMessage
    <3> DEFINE r == [n |-> Head(down["reliable"]), session |-> remote["reliable"]]
    <3>1. got' = Append(got, r)
      BY DEF OnMessage
    <3>2. "reliable" \in Labels
      BY DEF Labels
    <3>3. r \in GotType
      BY <3>2, LabelType, TailFacts DEF GotType, OnMessage
    <3> HIDE DEF r
    <3> QED BY <1>1, <3>1, <3>3, AppendFacts DEF DataTypeOK
  <2> QED BY <1>1, <2>1 DEF Got
<1>2. ASSUME NEW l \in Labels, OnMessage(l),
             Head(down[l]) \in InDown(l), Head(down[l]) \in DOMAIN sent, sent[Head(down[l])].label = l,
             \/ got' = got /\ unheard' = unheard \cup {Head(down[l])}
             \/ got' = got /\ unheard' = unheard /\ sent[Head(down[l])].kind = "misread"
             \/ got' = Append(got, [n |-> Head(down[l]), session |-> remote[l]]) /\ unheard' = unheard
      PROVE  /\ Got \subseteq Got' /\ unheard \subseteq unheard'
             /\ Got' \subseteq Got \cup {Head(down[l])}
             /\ \/ Head(down[l]) \in Got' \cup unheard'
                \/ sent[Head(down[l])].kind = "misread"
  <2>1. CASE got' = got
    BY <1>2, <2>1 DEF Got
  <2>2. CASE got' = Append(got, [n |-> Head(down[l]), session |-> remote[l]]) /\ unheard' = unheard
    <3> DEFINE r == [n |-> Head(down[l]), session |-> remote[l]]
    <3>1. r \in GotType /\ r.n = Head(down[l])
      BY <1>2, LabelType, TailFacts DEF GotType, OnMessage
    <3> HIDE DEF r
    <3>2. /\ DOMAIN got' = DOMAIN got \cup {Len(got) + 1} /\ got'[Len(got) + 1] = r
          /\ \A i \in DOMAIN got : got'[i] = got[i]
      BY <2>2, <3>1, AppendFacts DEF r, DataTypeOK
    <3>3. Got' = Got \cup {Head(down[l])}
      BY <3>1, <3>2 DEF Got
    <3> QED BY <2>2, <3>3
  <2> QED BY <1>2, <2>1, <2>2
<1>3. ASSUME NEW l \in Labels, OnMessage(l), OnMessage("reliable"), ~UNCHANGED <<got, unheard>>
      PROVE  l = "reliable"
  <2>1. "reliable" \in Labels /\ down["reliable"] \in Seq(Numbers) /\ down["reliable"] # <<>>
    BY <1>3, LabelType DEF Labels, OnMessage
  <2>2. down'["reliable"] = Tail(down["reliable"]) /\ (l # "reliable" => down'["reliable"] = down["reliable"])
    BY <1>3, <2>1 DEF OnMessage, DataTypeOK
  <2>3. Len(Tail(down["reliable"])) # Len(down["reliable"])
    BY <2>1
  <2> QED BY <2>2, <2>3
<1>4. CASE ~UNCHANGED <<got, unheard>>
  <2>1. PICK l \in Labels :
          /\ OnMessage(l) /\ Head(down[l]) \in InDown(l) /\ Head(down[l]) \in DOMAIN sent
          /\ sent[Head(down[l])].label = l
          /\ \/ got' = got /\ unheard' = unheard \cup {Head(down[l])}
             \/ got' = got /\ unheard' = unheard /\ sent[Head(down[l])].kind = "misread"
             \/ got' = Append(got, [n |-> Head(down[l]), session |-> remote[l]]) /\ unheard' = unheard
    BY <1>4, GotSteps
  <2>2. /\ Got \subseteq Got' /\ unheard \subseteq unheard' /\ Got' \subseteq Got \cup {Head(down[l])}
        /\ Head(down[l]) \in Got' \cup unheard' \/ sent[Head(down[l])].kind = "misread"
    BY <1>2, <2>1
  <2> QED BY <1>3, <1>4, <2>1, <2>2
<1> QED BY <1>1, <1>4

LEMMA GapStep ==
  ASSUME DataTypeOK, HeardInv, OrderInv, SessionsInv, GapInv, DataNext
  PROVE  GapInv'
<1> USE MadeType
<1>0. "reliable" \in Labels
  BY DEF Labels
<1>1. \A n \in DOMAIN sent : n \in Nat /\ sent[n].to \in Nat /\ sent[n].to <= inMade
  <2>1. \A n \in DOMAIN sent : n \in Nat /\ sent[n] \in SentType
    BY DEF DataTypeOK
  <2> QED BY <2>1 DEF SentType, GapInv
<1>2. inMade' \in Nat
  <2>1. DataTypeOK'
    BY SenderTypes, NetworkTypes, ReceiverTypes DEF DataNext
  <2> QED BY <2>1, DataMessagesAssumption DEF DataTypeOK, Receiving
<1>3. \A n \in DOMAIN sent' : sent'[n].to <= inMade'
  BY <1>1, <1>2, NewSteps, SentSteps, RemoteSteps
<1>4. ASSUME NEW n \in Reliable', sent'[n].kind # "misread", sent'[n].to # 0
      PROVE  (\/ n \in Got \cup unheard \cup InDown("reliable")
              \/ /\ sent[n].to # in
                 /\ \A m \in Reliable :
                      n < m /\ sent[m].to = sent[n].to => m \notin Got \cup InDown("reliable"))'
  <2>1. n \in DOMAIN sent /\ sent[n].label = "reliable" /\ sent[n].kind # "misread"
    BY <1>4, NewSteps, SentSteps DEF Reliable
  <2>2. CASE sent'[n].to # sent[n].to
    BY <1>0, <2>1, <2>2, SentSteps, RelaySteps
  <2>3. ASSUME sent'[n].to = sent[n].to, n \in InDown("reliable"), n \notin InDown("reliable")'
        PROVE  \/ n \in Got' \cup unheard'
               \/ /\ sent'[n].to # in'
                  /\ \A m \in Reliable' :
                       n < m /\ sent'[m].to = sent'[n].to => m \notin Got' \cup InDown("reliable")'
    <3>1. CASE OnMessage("reliable") /\ n = Head(down["reliable"])
      BY <2>1, <3>1, GotGrows
    <3>2. CASE down'["reliable"] = <<>> /\ UNCHANGED <<sent, got>> /\ remote["reliable"] # in
      <4>1. sent[n].to = remote["reliable"]
        BY <1>0, <2>3 DEF SessionsInv, ChannelInv
      <4>2. sent'[n].to # in'
        BY <1>1, <1>4, <2>1, <2>3, <3>2, <4>1, RemoteSteps
      <4>3. InDown("reliable")' = {}
        BY <3>2 DEF InDown
      <4>4. ASSUME NEW m \in Reliable', n < m PROVE m \notin Got'
        <5>1. Got' = Got /\ m \in DOMAIN sent /\ sent[m].label = "reliable"
          BY <3>2, <4>4 DEF Got, Reliable
        <5>2. \A i \in DOMAIN got : got[i].n = m => m < n
          BY <1>0, <2>3, <5>1 DEF OrderInv, InDown
        <5> QED BY <1>1, <2>1, <4>4, <5>1, <5>2 DEF Got
      <4> QED BY <4>2, <4>3, <4>4
    <3> QED BY <2>3, <3>1, <3>2, ReliableSteps
  <2>4. ASSUME sent'[n].to = sent[n].to, sent[n].to # in,
               \A m \in Reliable : n < m /\ sent[m].to = sent[n].to => m \notin Got \cup InDown("reliable")
        PROVE  /\ sent'[n].to # in'
               /\ \A m \in Reliable' :
                    n < m /\ sent'[m].to = sent'[n].to => m \notin Got' \cup InDown("reliable")'
    <3>1. sent'[n].to # in'
      BY <1>1, <1>4, <2>1, <2>4, RemoteSteps
    <3>2. ASSUME NEW m \in Reliable', n < m, sent'[m].to = sent'[n].to
          PROVE  m \notin Got' \cup InDown("reliable")'
      <4>1. m \in DOMAIN sent /\ sent[m].label = "reliable"
        BY <1>4, <3>2, NewSteps, SentSteps DEF Reliable
      <4>2. sent[m].to = sent[n].to
        BY <2>4, <3>2, <4>1, SentSteps
      <4>3. m \notin Got \cup InDown("reliable")
        BY <2>4, <3>2, <4>1, <4>2 DEF Reliable
      <4>4. m \notin Got'
        BY <4>1, <4>3, GotGrows
      <4>5. m \notin InDown("reliable")'
        BY <1>0, <2>4, <3>2, <4>3, InDownSteps, RelaySteps
      <4> QED BY <4>4, <4>5
    <3> QED BY <3>1, <3>2
  <2>5. CASE sent'[n].to = sent[n].to
    <3>1. \/ n \in Got \cup unheard \cup InDown("reliable")
          \/ /\ sent[n].to # in
             /\ \A m \in Reliable :
                  n < m /\ sent[m].to = sent[n].to => m \notin Got \cup InDown("reliable")
      BY <1>4, <2>1, <2>5 DEF GapInv, Reliable
    <3> QED BY <2>3, <2>4, <2>5, <3>1, GotGrows
  <2> QED BY <2>2, <2>5
<1> QED BY <1>3, <1>4 DEF GapInv

----------------------------------------------------------------------------
LEMMA SessionsInvariance == DataSpec => [](SessionsInv /\ SilentInv /\ GapInv)
<1>1. DataInit => SessionsInv /\ SilentInv /\ GapInv
  BY InitSessions, InitSilent
<1>2. Inv /\ SessionsInv /\ SilentInv /\ GapInv /\ [DataNext]_dataVars
        => SessionsInv' /\ SilentInv' /\ GapInv'
  <2> SUFFICES ASSUME Inv, SessionsInv, SilentInv, GapInv, [DataNext]_dataVars
               PROVE  SessionsInv' /\ SilentInv' /\ GapInv'
    OBVIOUS
  <2>1. CASE UNCHANGED dataVars
    BY <2>1 DEF SessionsInv, EndedInv, ChannelInv, SilentInv, OldSessionIsSilent, GapInv, Reliable,
                InDown, Got, dataVars, outVars, inVars, transitVars
  <2>2. CASE DataNext
    BY <2>2, SessionsStep, SilentStep, GapStep DEF Inv
  <2> QED BY <2>1, <2>2
<1> QED BY <1>1, <1>2, Invariance, PTL DEF DataSpec

\* DataChannelsStorage keeps the channels of earlier sessions: still the listener gets no message
\* of an earlier session after one of a later, unless connect() overlapped with disconnect().
THEOREM SessionsDoNotMix == DataSpec => []OldSessionIsSilent
BY SessionsInvariance, PTL DEF SilentInv

\* Of the reliable messages between two sessions none is left out when a later one arrives,
\* unless it was misread or came when nobody listened.
THEOREM NothingIsSkipped == DataSpec => []NoGap
<1>1. DataTypeOK /\ OrderInv /\ GapInv => NoGap
  <2> SUFFICES ASSUME DataTypeOK, OrderInv, GapInv, NEW m \in Got, NEW n \in DOMAIN sent,
                      n < m, sent[n].to # 0, sent[m].label = "reliable",
                      sent[n] \in [label: {"reliable"}, kind: Kinds \ {"misread"},
                                    from: {sent[m].from}, to: {sent[m].to}],
                      n \notin Got \cup unheard
               PROVE  FALSE
    BY DEF NoGap
  <2>1. n \in Reliable /\ sent[n].kind # "misread" /\ sent[n].to = sent[m].to
    BY DEF Reliable
  <2>2. m \in Reliable
    BY DEF OrderInv, Got, Reliable
  <2>3. CASE n \in InDown("reliable")
    <3>1. m < n
      BY <2>3, <2>2 DEF OrderInv, Got, InDown, Labels, Reliable
    <3>2. m \in Nat /\ n \in Nat
      BY <2>1, <2>2 DEF Reliable, DataTypeOK
    <3> QED BY <3>1, <3>2
  <2> QED BY <2>1, <2>2, <2>3 DEF GapInv
<1> QED BY <1>1, Invariance, SessionsInvariance, PTL DEF Inv

(***************************************************************************)
(* Statistics: a report in the hands of the user.                          *)
(***************************************************************************)

\* Statistics that were taken out keep the report.
StatsInv ==
  /\ entry \in Entries \cup {"none"}
  /\ entry # "none" => "statistics" \in owners
  /\ StatisticsAreTrue

\* A class of WebRTC: what its entry is told to be, and what it is cast to.
LEMMA TypesAreTold ==
  ASSUME NEW e \in Entries, e \notin {"LocalCandidate", "RemoteCandidate"}
  PROVE  TypeTold(Impl[e]) = TypeOfEntry[e]
BY DEF Entries, TypeTold, Impl, TypeOfEntry

\* An entry has the extensions its type and its class say, and no others.
LEMMA ExtensionsAreFound ==
  ASSUME NEW e \in Entries, NEW x \in Extensions
  PROVE  x \in Bases(Impl[e]) <=>
            (/\ TypeOfEntry[e] \in TypesWith(x)
             /\ x \in {"AudioSource", "VideoSource"} => x = e)
<1>1. \A d \in Entries : Impl[d] = IF d \in {"LocalCandidate", "RemoteCandidate"} THEN "IceCandidate"
                                   ELSE IF d = "Newer" THEN "Data" ELSE d
  BY DEF Impl
<1>2. PICK d \in Entries : x \in Bases(Impl[d])
  BY DEF Extensions
<1>3. x \notin {"RtpStream", "ReceivedStream", "SentStream"}
  BY DEF Extensions
<1>4. x \in {"Codec", "InboundRtp", "OutboundRtp", "RemoteInboundRtp", "RemoteOutboundRtp",
             "AudioSource", "VideoSource", "MediaSource", "AudioPlayout", "PeerConnection",
             "DataChannel", "Transport", "CandidatePair", "IceCandidate", "Certificate"}
  BY <1>1, <1>2, <1>3 DEF Entries, TypeOfEntry, Bases
<1>5. QED  BY <1>1, <1>4 DEF Entries, TypeOfEntry, Bases, TypesWith

\* What is kept of an answer.
LEMMA AnswerFacts ==
  ASSUME NEW what, NEW asked, NEW value, Answer(what, asked, value)
  PROVE  /\ reading'.what = what /\ reading'.asked = asked /\ reading'.value = value
         /\ reading'.of = entry /\ reading'.gone = (owners = {})
BY DEF Answer

\* Every getter.
LEMMA AskInv == StatsInv /\ Ask => StatisticsAreTrue'
<1> SUFFICES ASSUME StatsInv, Ask PROVE StatisticsAreTrue'
  OBVIOUS
<1>1. entry # "none" => owners # {} /\ entry \in Entries
  BY DEF StatsInv
<1>2. CASE AskType
  <2>1. /\ reading'.what = "type" /\ reading'.value = TypeTold(Impl[entry]) /\ reading'.of = entry
        /\ reading'.gone = FALSE /\ entry \in Entries
    <3>1. entry # "none" /\ Answer("type", "type", TypeTold(Impl[entry]))
      BY <1>2 DEF AskType
    <3>2. (owners = {}) = FALSE
      BY <1>1, <3>1
    <3>3. QED  BY <1>1, <3>1, <3>2, AnswerFacts
  <2>2. QED  BY <2>1, TypesAreTold DEF StatisticsAreTrue
<1>3. ASSUME NEW us \in Times, AskTime(us) PROVE StatisticsAreTrue'
  <2>1. reading'.what = "time" /\ reading'.gone = FALSE
    BY <1>1, <1>3, AnswerFacts DEF AskTime
  <2>2. QED  BY <2>1 DEF StatisticsAreTrue
<1>4. ASSUME NEW x \in Extensions, AskExtension(x) PROVE StatisticsAreTrue'
  <2>1. /\ reading'.what = "extension" /\ reading'.asked = x /\ reading'.of = entry
        /\ reading'.value = (x \in Bases(Impl[entry]))
        /\ reading'.gone = FALSE /\ entry \in Entries
    BY <1>1, <1>4, AnswerFacts DEF AskExtension
  <2>2. CASE x \in Bases(Impl[entry])
    <3>1. reading'.value = TRUE
      BY <2>1, <2>2
    <3>2. QED  BY <2>1, <2>2, <3>1, ExtensionsAreFound DEF StatisticsAreTrue
  <2>3. CASE x \notin Bases(Impl[entry])
    <3>1. (x \in Bases(Impl[entry])) = FALSE
      BY <2>3
    <3>2. reading'.value = FALSE
      BY <2>1, <3>1
    <3>3. QED  BY <2>1, <2>3, <3>2, ExtensionsAreFound DEF StatisticsAreTrue
  <2>4. QED  BY <2>2, <2>3
<1>5. ASSUME entry # "none", NEW getter, AskGetter(getter) PROVE StatisticsAreTrue'
  <2>1. /\ reading'.what = "getter" /\ reading'.asked = getter /\ reading'.value = AttributeOf(getter)
        /\ reading'.gone = FALSE
    BY <1>1, <1>5, AnswerFacts DEF AskGetter
  <2>2. QED  BY <2>1 DEF AttributeOf, StatisticsAreTrue
<1>6. CASE AskAttribute
  <2>1. reading'.what = "attribute"
    BY <1>6, AnswerFacts DEF AskAttribute
  <2>2. QED  BY <2>1 DEF StatisticsAreTrue
<1>7. QED  BY <1>2, <1>3, <1>4, <1>5, <1>6 DEF Ask

\* Every step.
LEMMA StatsStepInv == StatsInv /\ [StatsNext]_statsVars => StatsInv'
<1> SUFFICES ASSUME StatsInv, [StatsNext]_statsVars PROVE StatsInv'
  OBVIOUS
<1>1. ASSUME reading' = reading PROVE StatisticsAreTrue'
  BY <1>1 DEF StatsInv, StatisticsAreTrue
<1>2. CASE UNCHANGED statsVars
  BY <1>1, <1>2 DEF StatsInv, statsVars
<1>3. CASE StatsNext /\ Ask
  <2>1. UNCHANGED <<entry, owners>>
    BY <1>3 DEF Ask, AskType, AskTime, AskExtension, AskGetter, AskAttribute
  <2>2. QED  BY <1>3, <2>1, AskInv DEF StatsInv
<1>4. CASE OnStatsDelivered
  BY <1>1, <1>4 DEF OnStatsDelivered, StatsInv
<1>5. CASE CopyReport
  BY <1>1, <1>5 DEF CopyReport, StatsInv
<1>6. ASSUME NEW e \in Entries, Get(e) PROVE StatsInv'
  BY <1>1, <1>6 DEF Get, StatsInv
<1>7. ASSUME NEW owner \in {"callback", "report"}, DropReport(owner) PROVE StatsInv'
  BY <1>1, <1>7 DEF DropReport, StatsInv
<1>8. CASE DropStatistics
  BY <1>1, <1>8 DEF DropStatistics, StatsInv
<1>9. CASE TakeAttribute
  BY <1>1, <1>9 DEF TakeAttribute, StatsInv
<1>10. QED  BY <1>2, <1>3, <1>4, <1>5, <1>6, <1>7, <1>8, <1>9 DEF StatsNext

\* The getters of Stats and of StatsReport::get, at any time: what they say of an entry is what
\* WebRTC has in it, whoever dropped the report or its copy before, and the report is there as
\* long as anything but an attribute is asked.
THEOREM StatisticsStayTrue == StatsSpec => []StatisticsAreTrue
<1>1. StatsInit => StatsInv
  BY DEF StatsInit, StatsInv, StatisticsAreTrue, NoReading
<1>2. StatsInv => StatisticsAreTrue
  BY DEF StatsInv
<1>3. QED  BY <1>1, <1>2, StatsStepInv, PTL DEF StatsSpec
=============================================================================
