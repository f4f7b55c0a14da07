------------------------- MODULE SubscriptionProofs -------------------------
(***************************************************************************)
(* What TLAPS proves of Subscription, for any tracks and any number of     *)
(* offers: the types, that an offer of the server is answered, and that    *)
(* the user is told the state of the connection.                           *)
(***************************************************************************)
EXTENDS Subscription, TLAPS

----------------------------------------------------------------------------
(* Sequences.                                                              *)

LEMMA TailFacts ==
  ASSUME NEW S, NEW s \in Seq(S), s # <<>>
  PROVE  /\ 1 \in DOMAIN s /\ Head(s) = s[1] /\ Head(s) \in S
         /\ Tail(s) \in Seq(S)
         /\ \A i \in DOMAIN Tail(s) : i \in Nat \ {0} /\ i + 1 \in DOMAIN s /\ Tail(s)[i] = s[i + 1]
         /\ \A i \in DOMAIN s : i \in Nat \ {0} /\ (i # 1 => i - 1 \in DOMAIN Tail(s) /\ Tail(s)[i - 1] = s[i])
OBVIOUS

LEMMA AppendFacts ==
  ASSUME NEW S, NEW s \in Seq(S), NEW e \in S
  PROVE  /\ Append(s, e) \in Seq(S)
         /\ Len(s) \in Nat /\ \A i \in DOMAIN s : i \in Nat \ {0} /\ i <= Len(s)
         /\ DOMAIN Append(s, e) = DOMAIN s \cup {Len(s) + 1}
         /\ \A i \in DOMAIN s : Append(s, e)[i] = s[i]
         /\ Append(s, e)[Len(s) + 1] = e
OBVIOUS

LEMMA ConcatOne ==
  ASSUME NEW S, NEW s \in Seq(S), NEW e
  PROVE  s \o <<e>> = Append(s, e) /\ s \o <<>> = s
OBVIOUS

----------------------------------------------------------------------------
(* Types.                                                                  *)

States == Links \cup {"Closed"}

LEMMA Members ==
  ASSUME SubTypeOK
  PROVE  /\ [op |-> "failed"] \in CallType /\ [op |-> "disconnected"] \in CallType
         /\ \A n \in Nat : [op |-> "answer", n |-> n] \in CallType
         /\ \A m \in SUBSET Media : [op |-> "media", media |-> m] \in CallType
         /\ \A s \in States : StateCall(s) \in CallType
         /\ [op |-> "candidate"] \in TaskType /\ [op |-> "createAnswer"] \in TaskType
         /\ \A n \in Nat : [op |-> "setLocal", n |-> n] \in TaskType
         /\ \A n \in Nat, m \in SUBSET Media : [op |-> "offer", n |-> n, media |-> m] \in TaskType
<1>1. ASSUME NEW s \in States PROVE StateCall(s) \in CallType
  BY DEF StateCall, Failing, CallType, States
<1> QED BY <1>1 DEF CallType, TaskType

LEMMA HeadCall ==
  ASSUME SubTypeOK, posted # <<>>
  PROVE  /\ Head(posted) \in CallType
         /\ Head(posted).op = "answer" => Head(posted).n \in Nat
         /\ Head(posted).op = "media" => Head(posted).media \in SUBSET Media
         /\ Head(posted).op = "state" => Head(posted).state \in States
<1>1. Head(posted) \in CallType
  BY TailFacts DEF SubTypeOK
<1> QED BY <1>1 DEF CallType, States

LEMMA HeadTask ==
  ASSUME NEW q \in Seq(TaskType), q # <<>>
  PROVE  /\ Head(q) \in TaskType
         /\ Head(q).op \in {"setLocal", "offer"} => Head(q).n \in Nat
         /\ Head(q).op = "offer" => Head(q).media \in SUBSET Media
<1>1. Head(q) \in TaskType
  BY TailFacts
<1> QED BY <1>1 DEF TaskType

\* A call is posted, or the one at the head is made.
Posts(c) == c \in CallType /\ posted' = Append(posted, c)
Makes == posted # <<>> /\ posted' = Tail(posted)
MakesAndPosts(c) == posted # <<>> /\ c \in CallType /\ posted' = Append(Tail(posted), c)

LEMMA PostedType ==
  ASSUME SubTypeOK, \/ UNCHANGED posted \/ Makes
                    \/ \E c : Posts(c) \/ MakesAndPosts(c)
  PROVE  posted' \in Seq(CallType)
<1>1. posted \in Seq(CallType)
  BY DEF SubTypeOK
<1>2. ASSUME NEW c, MakesAndPosts(c) PROVE posted' \in Seq(CallType)
  <2>1. Tail(posted) \in Seq(CallType)
    BY <1>1, <1>2, TailFacts DEF MakesAndPosts
  <2> QED BY <1>2, <2>1, AppendFacts DEF MakesAndPosts
<1>3. ASSUME NEW c, Posts(c) PROVE posted' \in Seq(CallType)
  BY <1>1, <1>3, AppendFacts DEF Posts
<1>4. ASSUME Makes PROVE posted' \in Seq(CallType)
  BY <1>1, <1>4, TailFacts DEF Makes
<1> QED BY <1>1, <1>2, <1>3, <1>4

\* What a task of the signaling thread leaves of its queue.
LEMMA SigTail ==
  ASSUME SubTypeOK, sig # <<>>
  PROVE  Tail(sig) \in Seq(TaskType)
BY TailFacts DEF SubTypeOK


\* What an action does to the queues of the signaling thread and of the events.
LEMMA TaskEffects ==
  ASSUME SubTypeOK,
         DropTask \/ SetRemoteDescription \/ CreateAnswer \/ SetLocalDescription \/ AddIceCandidate
  PROVE  /\ sig # <<>> /\ Tail(sig) \in Seq(TaskType) /\ Head(sig) = sig[1] /\ Head(sig) \in TaskType
         /\ sig' = Tail(sig) \/ \E c \in TaskType : sig' = Append(Tail(sig), c)
         /\ UNCHANGED posted \/ \E c : Posts(c)
         /\ UNCHANGED <<primary, linkVars, inbox, userVars, lifeVars, offered, replied>>
<1>1. sig # <<>> /\ sig \in Seq(TaskType) /\ posted \in Seq(CallType) /\ applied \in Nat
  BY DEF DropTask, SetRemoteDescription, CreateAnswer, SetLocalDescription, AddIceCandidate, Runs, Task, SubTypeOK
<1>2. Tail(sig) \in Seq(TaskType) /\ Head(sig) = sig[1] /\ Head(sig) \in TaskType
  BY <1>1, TailFacts
<1>3. ASSUME Fail PROVE sig' = Tail(sig) /\ (UNCHANGED posted \/ \E c : Posts(c))
  BY <1>3, Members DEF Fail, Posts
<1>4. CASE DropTask \/ AddIceCandidate
  BY <1>1, <1>2, <1>4 DEF DropTask, AddIceCandidate, linkVars, userVars, lifeVars, serverVars
<1>5. CASE SetRemoteDescription
  <2>1. Head(sig).media \in SUBSET Media
    BY <1>1, <1>5, HeadTask DEF SetRemoteDescription, Runs, Task
  <2>2. CASE Fail
    BY <1>1, <1>2, <1>3, <1>5, <2>2 DEF SetRemoteDescription, serverVars
  <2>3. CASE ~Fail
    <3>1. Notify("subscriber", [op |-> "media", media |-> Head(sig).media])
          /\ sig' = Tail(sig) \o (IF Open THEN <<[op |-> "createAnswer"]>> ELSE <<>>)
      BY <1>5, <2>3 DEF SetRemoteDescription
    <3>2. UNCHANGED posted \/ \E c : Posts(c)
      BY <2>1, <3>1, Members DEF Notify, Posts
    <3>3. sig' = Tail(sig) \/ sig' = Append(Tail(sig), [op |-> "createAnswer"])
      BY <1>2, <3>1, ConcatOne
    <3> QED BY <1>1, <1>2, <1>5, <3>2, <3>3, Members DEF SetRemoteDescription, serverVars
  <2> QED BY <2>2, <2>3
<1>6. CASE CreateAnswer
  <2>1. CASE Fail
    BY <1>1, <1>2, <1>3, <1>6, <2>1 DEF CreateAnswer, serverVars
  <2>2. CASE ~Fail
    <3>1. UNCHANGED posted
          /\ sig' = Tail(sig) \o (IF Open THEN <<[op |-> "setLocal", n |-> applied]>> ELSE <<>>)
      BY <1>6, <2>2 DEF CreateAnswer
    <3>2. sig' = Tail(sig) \/ sig' = Append(Tail(sig), [op |-> "setLocal", n |-> applied])
      BY <1>2, <3>1, ConcatOne
    <3> QED BY <1>1, <1>2, <1>6, <3>1, <3>2, Members DEF CreateAnswer, serverVars
  <2> QED BY <2>1, <2>2
<1>7. CASE SetLocalDescription
  <2>1. Head(sig).n \in Nat
    BY <1>1, <1>7, HeadTask DEF SetLocalDescription, Runs, Task
  <2>2. CASE Fail
    BY <1>1, <1>2, <1>3, <1>7, <2>2 DEF SetLocalDescription
  <2>3. CASE ~Fail
    <3>1. /\ sig' = Tail(sig)
          /\ \/ posted' = IF Open THEN Append(posted, [op |-> "answer", n |-> Head(sig).n]) ELSE posted
             \/ UNCHANGED posted
      BY <1>7, <2>3 DEF SetLocalDescription
    <3>2. UNCHANGED posted \/ \E c : Posts(c)
      BY <2>1, <3>1, Members DEF Posts
    <3> QED BY <1>1, <1>2, <1>7, <3>1, <3>2 DEF SetLocalDescription
  <2> QED BY <2>2, <2>3
<1> QED BY <1>4, <1>5, <1>6, <1>7

LEMMA TaskKeepsType ==
  ASSUME SubTypeOK,
         DropTask \/ SetRemoteDescription \/ CreateAnswer \/ SetLocalDescription \/ AddIceCandidate
  PROVE  SubTypeOK'
<1>1. /\ sig \in Seq(TaskType) /\ sig # <<>> /\ sig' \in Seq(TaskType) /\ posted' \in Seq(CallType)
      /\ UNCHANGED <<primary, linkVars, inbox, userVars, lifeVars, offered, replied>>
  <2>1. \A c \in TaskType : Append(Tail(sig), c) \in Seq(TaskType)
    BY TaskEffects, AppendFacts
  <2> QED BY <2>1, TaskEffects, PostedType DEF SubTypeOK
<1>2. applied' \in Nat /\ local' \in Nat /\ receivers' \subseteq Media /\ dropped' \in Nat
      /\ candidate' \in {"none", "sent", "added", "failed", "dropped"}
  <2>1. SetRemoteDescription => Head(sig).n \in Nat /\ Head(sig).media \in SUBSET Media
    BY <1>1, HeadTask DEF SetRemoteDescription, Runs, Task
  <2>2. SetLocalDescription => Head(sig).n \in Nat
    BY <1>1, HeadTask DEF SetLocalDescription, Runs, Task
  <2>3. CASE DropTask \/ CreateAnswer \/ AddIceCandidate
    BY <2>3 DEF DropTask, CreateAnswer, AddIceCandidate, peerVars, serverVars, SubTypeOK
  <2>4. CASE SetRemoteDescription
    BY <2>1, <2>4 DEF SetRemoteDescription, serverVars, SubTypeOK
  <2>5. CASE SetLocalDescription
    BY <2>2, <2>5 DEF SetLocalDescription, SubTypeOK
  <2> QED BY <2>3, <2>4, <2>5
<1> QED BY <1>1, <1>2 DEF SubTypeOK, linkVars, userVars, lifeVars

\* The server, its messages, and the user who disconnects.
LEMMA MessageType ==
  ASSUME SubTypeOK, OnOffer \/ OnTrickle \/ Server \/ Disconnect
  PROVE  SubTypeOK'
<1>0. inbox \in Seq(TaskType) /\ sig \in Seq(TaskType) /\ posted \in Seq(CallType) /\ offered \in Nat
  BY DEF SubTypeOK
<1>1. CASE OnOffer \/ OnTrickle
  <2>1. inbox # <<>> /\ inbox' = Tail(inbox) /\ (UNCHANGED sig \/ sig' = Append(sig, Head(inbox)))
    BY <1>1 DEF OnOffer, OnTrickle, Receive
  <2>2. Head(inbox) \in TaskType /\ inbox' \in Seq(TaskType)
    BY <1>0, <2>1, TailFacts
  <2>3. sig' \in Seq(TaskType)
    <3>1. Append(sig, Head(inbox)) \in Seq(TaskType)
      BY <1>0, <2>2, AppendFacts
    <3> QED BY <1>0, <2>1, <3>1
  <2>4. dropped' \in Nat /\ candidate' \in {"none", "sent", "added", "failed", "dropped"}
    <3>1. OnOffer => Head(inbox).n \in Nat
      BY <1>0, <2>1, HeadTask DEF OnOffer, Receive
    <3> QED BY <1>1, <3>1 DEF OnOffer, OnTrickle, SubTypeOK, peerVars, serverVars
  <2> QED BY <1>1, <2>2, <2>3, <2>4
          DEF OnOffer, OnTrickle, SubTypeOK, linkVars, peerVars, userVars, lifeVars, serverVars
<1>2. CASE Server
  <2>1. CASE ServerTrickles
    <3>1. inbox' \in Seq(TaskType)
      BY <1>0, <2>1, Members, AppendFacts DEF ServerTrickles
    <3> QED BY <2>1, <3>1 DEF ServerTrickles, SubTypeOK, linkVars, userVars, lifeVars, serverVars
  <2>2. ASSUME NEW media \in SUBSET Media, ServerOffers(media) PROVE SubTypeOK'
    <3> DEFINE c == [op |-> "offer", n |-> offered + 1, media |-> media]
    <3>0. offered + 1 \in Nat
      BY <1>0
    <3>1. c \in TaskType
      BY <3>0 DEF TaskType
    <3>2. inbox' = Append(inbox, c) /\ offered' = offered + 1
      BY <2>2 DEF ServerOffers
    <3> HIDE DEF c
    <3>3. inbox' \in Seq(TaskType) /\ offered' \in Nat
      BY <1>0, <3>1, <3>2, AppendFacts
    <3> QED BY <2>2, <3>3 DEF ServerOffers, SubTypeOK, linkVars, peerVars, userVars, lifeVars
  <2> QED BY <1>2, <2>1, <2>2 DEF Server
<1>3. CASE Disconnect
  <2>1. Posts([op |-> "disconnected"])
    BY <1>3, Members DEF Disconnect, Posts
  <2>2. posted' \in Seq(CallType)
    BY <2>1, PostedType
  <2> QED BY <1>3, <2>2
          DEF Disconnect, Begin, CloseSteps, SubTypeOK, linkVars, peerVars, userVars, serverVars
<1> QED BY <1>1, <1>2, <1>3

\* The states: of the peer connections, of the manager, of the user.
LEMMA StateType ==
  ASSUME SubTypeOK, \/ \E t \in {"signaling", "closer"} : ExchangeState(t)
                    \/ \E x \in Targets, s \in Links \ {"New"} : PeerChanges(x, s)
                    \/ Closer
  PROVE  SubTypeOK'
<1>0. reading \in [{"signaling", "closer"} -> States \cup {"none"}] /\ phase \in [Targets -> {"open", "disposed", "closed"}]
      /\ conn \in [Targets -> Links] /\ primary \in Targets
  BY DEF SubTypeOK, States
<1>1. ASSUME NEW t \in {"signaling", "closer"}, ExchangeState(t) PROVE SubTypeOK'
  <2>1. reading[t] \in States
    BY <1>0, <1>1 DEF ExchangeState
  <2>2. StateCall(reading[t]).state = reading[t]
    BY DEF StateCall
  <2>3. told' \in States \cup {"TransportConnected", "TransportDisconnected"} /\ heard' \subseteq Media
    BY <1>1, <2>1, <2>2 DEF ExchangeState, Tell, SubTypeOK, States, userVars
  <2>4. UNCHANGED posted \/ Posts(StateCall(reading[t]))
    BY <1>1, <2>1, Members DEF ExchangeState, Posts
  <2>5. posted' \in Seq(CallType)
    BY <2>4, PostedType
  <2>6. state' \in States /\ reading' \in [{"signaling", "closer"} -> States \cup {"none"}] /\ late' \in BOOLEAN
    BY <1>0, <1>1, <2>1 DEF ExchangeState, SubTypeOK
  <2> QED BY <1>1, <2>3, <2>5, <2>6 DEF ExchangeState, SubTypeOK, States, peerVars, lifeVars, serverVars
<1>2. ASSUME NEW x \in Targets, NEW s \in Links \ {"New"}, PeerChanges(x, s) PROVE SubTypeOK'
  <2>1. conn' \in [Targets -> Links] /\ changes' \in Nat
        /\ reading' \in [{"signaling", "closer"} -> States \cup {"none"}]
    BY <1>0, <1>2 DEF PeerChanges, SubTypeOK, States
  <2> QED BY <1>2, <2>1 DEF PeerChanges, SubTypeOK, States, peerVars, userVars, lifeVars, serverVars
<1>3. ASSUME \/ \E x \in Targets : Dispose(x) \/ ForceSignaling(x)
             \/ ResetListener("publisher", "subscriber") \/ ResetListener("subscriber", "update")
             \/ UpdateAtEnd \/ Destroy
      PROVE  SubTypeOK'
  <2>1. closing' \in CloseSteps
    BY <1>3 DEF Dispose, ForceSignaling, ResetListener, UpdateAtEnd, Destroy, Signal, Reset, CloseSteps
  <2>2. phase' \in [Targets -> {"open", "disposed", "closed"}]
    BY <1>0, <1>3 DEF Dispose, ForceSignaling, ResetListener, UpdateAtEnd, Destroy, linkVars
  <2>3. reading' \in [{"signaling", "closer"} -> States \cup {"none"}]
    BY <1>0, <1>3 DEF Dispose, ForceSignaling, ResetListener, UpdateAtEnd, Destroy, linkVars, StateOf, States
  <2>4. UNCHANGED <<primary, conn, state, late, changes, inbox, sig, posted, peerVars, userVars, closer, gone, serverVars>>
    BY <1>3 DEF Dispose, ForceSignaling, ResetListener, UpdateAtEnd, Destroy, linkVars
  <2> QED BY <2>1, <2>2, <2>3, <2>4 DEF SubTypeOK, States, peerVars, userVars, serverVars
<1> QED BY <1>1, <1>2, <1>3 DEF Closer


\* The events queue.
LEMMA EventEffects ==
  ASSUME SubTypeOK, Events
  PROVE  /\ posted # <<>> /\ Head(posted) = posted[1] /\ Head(posted) \in CallType
         /\ Makes \/ MakesAndPosts([op |-> "disconnected"])
         /\ UNCHANGED <<primary, linkVars, inbox, sig, peerVars, offered>>
<1>1. posted # <<>> /\ posted \in Seq(CallType)
  BY DEF Events, OnSubscriberAnswer, OnMedia, OnSdpOperationFailed, OnStateChange,
         OnTransportDisconnected, Deliver, SubTypeOK
<1>2. Head(posted) = posted[1] /\ Head(posted) \in CallType
  BY <1>1, TailFacts
<1>3. Makes \/ MakesAndPosts([op |-> "disconnected"])
  <2>1. posted' = Tail(posted) \/ posted' = Append(Tail(posted), [op |-> "disconnected"])
    BY DEF Events, OnSubscriberAnswer, OnMedia, OnSdpOperationFailed, OnStateChange,
           OnTransportDisconnected, Deliver, Cleanup
  <2> QED BY <1>1, <2>1, Members DEF Makes, MakesAndPosts
<1>4. UNCHANGED <<primary, linkVars, inbox, sig, peerVars, offered>>
  BY DEF Events, OnSubscriberAnswer, OnMedia, OnSdpOperationFailed, OnStateChange,
         OnTransportDisconnected, serverVars
<1> QED BY <1>1, <1>2, <1>3, <1>4

LEMMA EventType ==
  ASSUME SubTypeOK, Events
  PROVE  SubTypeOK'
<1>1. posted' \in Seq(CallType) /\ UNCHANGED <<primary, linkVars, inbox, sig, peerVars, offered>>
      /\ posted # <<>>
  BY EventEffects, PostedType
<1>2. /\ closing' \in CloseSteps /\ closer' \in {"none", "user", "events"} /\ gone' \in BOOLEAN
      /\ replied' \in Nat /\ dropped' \in Nat /\ heard' \subseteq Media
      /\ told' \in States \cup {"TransportConnected", "TransportDisconnected"}
  <2>0. /\ closing \in CloseSteps /\ closer \in {"none", "user", "events"} /\ gone \in BOOLEAN
        /\ replied \in Nat /\ dropped \in Nat /\ heard \subseteq Media
        /\ told \in States \cup {"TransportConnected", "TransportDisconnected"}
    BY DEF SubTypeOK, States
  <2>1. CASE OnSubscriberAnswer
    <3>1. Head(posted).n \in Nat
      BY <1>1, <2>1, HeadCall DEF OnSubscriberAnswer, Deliver
    <3> QED BY <2>0, <2>1, <3>1 DEF OnSubscriberAnswer, userVars, lifeVars
  <2>2. CASE OnMedia
    <3>1. Head(posted).media \in SUBSET Media
      BY <1>1, <2>2, HeadCall DEF OnMedia, Deliver
    <3> QED BY <2>0, <2>2, <3>1 DEF OnMedia, lifeVars, serverVars
  <2>3. CASE OnSdpOperationFailed
    BY <2>0, <2>3 DEF OnSdpOperationFailed, Cleanup, Begin, CloseSteps, lifeVars, serverVars
  <2>4. CASE OnStateChange
    <3>1. Head(posted).state \in States
      BY <1>1, <2>4, HeadCall DEF OnStateChange
    <3> QED BY <2>0, <2>4, <3>1
            DEF OnStateChange, Tell, Cleanup, Begin, CloseSteps, lifeVars, serverVars, userVars
  <2>5. CASE OnTransportDisconnected
    BY <2>0, <2>5 DEF OnTransportDisconnected, lifeVars, serverVars
  <2> QED BY <2>1, <2>2, <2>3, <2>4, <2>5 DEF Events
<1> QED BY <1>1, <1>2 DEF SubTypeOK, States, linkVars, peerVars

LEMMA TypeStep ==
  ASSUME SubTypeOK, SubNext
  PROVE  SubTypeOK'
<1>1. CASE Signaling
  BY <1>1, TaskKeepsType, StateType DEF Signaling
<1> QED BY <1>1, MessageType, StateType, EventType DEF SubNext

----------------------------------------------------------------------------
(* Closing: where its thread is, which transports are open, and that it     *)
(* leaves the manager closed.                                               *)

ClosingInv ==
  /\ gone <=> closing # "open"
  /\ phase["publisher"] = "open" <=> closing \in {"open", "publisher"}
  /\ phase["publisher"] = "closed" <=>
       closing \notin {"open", "publisher", "publisherSignal", "publisherReset"}
  /\ phase["subscriber"] = "open" <=>
       closing \in {"open", "publisher", "publisherSignal", "publisherReset", "subscriber"}
  /\ phase["subscriber"] = "closed" <=> closing \in {"update", "free", "over"}
  /\ reading["closer"] \in {"none", "Closed"}
  /\ closing \in {"open", "over"} => reading["closer"] = "none"
  /\ phase[primary] = "closed" => reading["signaling"] = "none"
  /\ closing = "free" => reading["closer"] = "Closed" \/ state = "Closed"
  /\ closing = "over" => state = "Closed"

\* Until then the manager has the state of the primary transport, or is
\* about to take it over.
StateInv ==
  ~gone =>
    /\ state \in Links
    /\ reading["signaling"] \in {"none", conn[primary]}
    /\ reading["signaling"] = "none" => state = conn[primary]
    /\ reading["signaling"] # "New"

LEMMA ClosingKept ==
  ASSUME ClosingInv, StateInv, UNCHANGED <<primary, conn, phase, state, reading, closing, gone>>
  PROVE  ClosingInv' /\ StateInv'
BY DEF ClosingInv, StateInv

LEMMA ClosingStep ==
  ASSUME SubTypeOK, ClosingInv, StateInv, SubNext
  PROVE  ClosingInv' /\ StateInv'
<1>0. /\ reading \in [{"signaling", "closer"} -> States \cup {"none"}]
      /\ phase \in [Targets -> {"open", "disposed", "closed"}] /\ closing \in CloseSteps
      /\ conn \in [Targets -> Links] /\ primary \in {"publisher", "subscriber"} /\ gone \in BOOLEAN
  BY DEF SubTypeOK, States, Targets
<1> USE DEF Targets
<1>1. CASE OnOffer \/ OnTrickle \/ Server
  <2>1. UNCHANGED <<primary, conn, phase, state, reading, closing, gone>>
    BY <1>1 DEF OnOffer, OnTrickle, Server, ServerOffers, ServerTrickles, linkVars, lifeVars
  <2> QED BY <2>1, ClosingKept
<1>2. CASE DropTask \/ SetRemoteDescription \/ CreateAnswer \/ SetLocalDescription \/ AddIceCandidate
  <2>1. UNCHANGED <<primary, conn, phase, state, reading, closing, gone>>
    BY <1>2, TaskEffects DEF linkVars, lifeVars
  <2> QED BY <2>1, ClosingKept
<1>3. CASE ExchangeState("signaling")
  <2>1. /\ reading["signaling"] # "none" /\ state' = reading["signaling"]
        /\ reading' = [reading EXCEPT !["signaling"] = "none"]
        /\ UNCHANGED <<primary, conn, phase, closing, gone>>
    BY <1>3 DEF ExchangeState, lifeVars
  <2>2. phase[primary] # "closed"
    BY <2>1 DEF ClosingInv
  <2>3. closing \notin {"free", "over"}
    BY <1>0, <2>2 DEF ClosingInv
  <2>4. reading'["signaling"] = "none" /\ reading'["closer"] = reading["closer"]
    BY <1>0, <2>1
  <2>5. ClosingInv'
    BY <2>1, <2>2, <2>3, <2>4 DEF ClosingInv
  <2>6. StateInv'
    BY <1>0, <2>1, <2>4 DEF StateInv
  <2> QED BY <2>5, <2>6
<1>4. ASSUME NEW x \in Targets, NEW s \in Links \ {"New"}, PeerChanges(x, s)
      PROVE  ClosingInv' /\ StateInv'
  <2>1. /\ reading["signaling"] = "none" /\ phase[x] # "closed" /\ conn' = [conn EXCEPT ![x] = s]
        /\ reading' = [reading EXCEPT !["signaling"] =
             IF x # primary THEN "none" ELSE IF phase[x] = "open" THEN s ELSE "Closed"]
        /\ UNCHANGED <<primary, phase, state, closing, gone>>
    BY <1>4 DEF PeerChanges, lifeVars
  <2>2. /\ reading'["closer"] = reading["closer"]
        /\ x # primary => reading'["signaling"] = "none" /\ conn'[primary] = conn[primary]
        /\ x = primary => /\ conn'[primary] = s
                          /\ reading'["signaling"] = IF phase[primary] = "open" THEN s ELSE "Closed"
    BY <1>0, <2>1
  <2>3. ClosingInv'
    BY <2>1, <2>2 DEF ClosingInv
  <2>4. ~gone => phase[primary] = "open"
    BY <1>0 DEF ClosingInv
  <2>5. s # "none"
    BY DEF Links
  <2>6. StateInv'
    BY <2>1, <2>2, <2>4, <2>5 DEF StateInv
  <2> QED BY <2>3, <2>6
<1>5. CASE ExchangeState("closer")
  <2>1. /\ reading["closer"] # "none" /\ state' = reading["closer"]
        /\ reading' = [reading EXCEPT !["closer"] = "none"]
        /\ UNCHANGED <<primary, conn, phase, closing, gone>>
    BY <1>5 DEF ExchangeState, lifeVars
  <2>2. state' = "Closed" /\ gone
    BY <2>1 DEF ClosingInv
  <2>3. reading'["closer"] = "none" /\ reading'["signaling"] = reading["signaling"]
    BY <1>0, <2>1
  <2> QED BY <2>1, <2>2, <2>3 DEF ClosingInv, StateInv
<1>6. ASSUME NEW x \in Targets, Dispose(x) PROVE ClosingInv' /\ StateInv'
  <2>1. /\ closing = x /\ phase' = [phase EXCEPT ![x] = "disposed"] /\ closing' = Signal(x)
        /\ UNCHANGED <<primary, conn, state, reading, gone>>
    BY <1>6 DEF Dispose
  <2>2. gone /\ phase[x] = "open"
    BY <2>1 DEF ClosingInv
  <2> QED BY <1>0, <2>1, <2>2 DEF ClosingInv, StateInv, Signal
<1>7. ASSUME NEW x \in Targets, ForceSignaling(x) PROVE ClosingInv' /\ StateInv'
  <2>1. /\ closing = Signal(x) /\ closing' = Reset(x)
        /\ reading' = [reading EXCEPT !["closer"] = IF x = primary THEN "Closed" ELSE "none"]
        /\ UNCHANGED <<primary, conn, state, phase, gone>>
    BY <1>7 DEF ForceSignaling
  <2>2. reading'["signaling"] = reading["signaling"] /\ reading'["closer"] \in {"none", "Closed"}
    BY <1>0, <2>1
  <2>3. gone
    BY <2>1 DEF ClosingInv, Signal
  <2> QED BY <2>1, <2>2, <2>3 DEF ClosingInv, StateInv, Signal, Reset
<1>8. ASSUME NEW x \in Targets, NEW next,
             (x = "publisher" /\ next = "subscriber") \/ (x = "subscriber" /\ next = "update"),
             ResetListener(x, next)
      PROVE  ClosingInv' /\ StateInv'
  <2>1. /\ closing = Reset(x) /\ reading["closer"] = "none" /\ closing' = next
        /\ x = primary => reading["signaling"] = "none"
        /\ phase' = [phase EXCEPT ![x] = "closed"]
        /\ UNCHANGED <<primary, conn, state, reading, gone>>
    BY <1>8 DEF ResetListener, CloserIsFree
  <2>2. gone
    BY <2>1 DEF ClosingInv, Reset
  <2> QED BY <1>0, <1>8, <2>1, <2>2 DEF ClosingInv, StateInv, Reset
<1>9. CASE UpdateAtEnd
  <2>1. /\ closing = "update" /\ closing' = "free"
        /\ reading' = [reading EXCEPT !["closer"] = StateOf(primary)]
        /\ UNCHANGED <<primary, conn, state, phase, gone>>
    BY <1>9 DEF UpdateAtEnd
  <2>2. StateOf(primary) = "Closed" /\ gone
    BY <1>0, <2>1 DEF ClosingInv, StateOf
  <2>3. reading'["signaling"] = reading["signaling"] /\ reading'["closer"] = "Closed"
    BY <1>0, <2>1, <2>2
  <2> QED BY <2>1, <2>2, <2>3 DEF ClosingInv, StateInv
<1>10. CASE Destroy
  <2>1. /\ closing = "free" /\ closing' = "over" /\ reading["closer"] = "none"
        /\ UNCHANGED <<primary, conn, state, phase, reading, gone>>
    BY <1>10 DEF Destroy, CloserIsFree, linkVars
  <2> QED BY <2>1 DEF ClosingInv, StateInv
<1>11. CASE Events \/ Disconnect
  <2>1. UNCHANGED <<primary, conn, phase, state, reading>>
    BY <1>11, EventEffects DEF Disconnect, linkVars
  <2>2. \/ UNCHANGED <<closing, gone>>
        \/ ~gone /\ gone' = TRUE /\ closing' = "publisher"
    BY <1>11 DEF Events, OnSubscriberAnswer, OnMedia, OnSdpOperationFailed, OnStateChange,
                 OnTransportDisconnected, Cleanup, Disconnect, Begin, lifeVars
  <2>3. CASE UNCHANGED <<closing, gone>>
    BY <2>1, <2>3, ClosingKept
  <2>4. CASE ~gone /\ gone' = TRUE /\ closing' = "publisher"
    <3>1. closing = "open"
      BY <2>4 DEF ClosingInv
    <3> QED BY <2>1, <2>4, <3>1 DEF ClosingInv, StateInv
  <2> QED BY <2>2, <2>3, <2>4
<1> QED BY <1>1, <1>2, <1>3, <1>4, <1>5, <1>6, <1>7, <1>8, <1>9, <1>10, <1>11
        DEF SubNext, Signaling, Closer

----------------------------------------------------------------------------
(* What the calls on the events queue make the user know: the last call of  *)
(* a kind has what the manager has, and if none is left, so has the user.   *)

Last(q, i, op) == q[i].op = op /\ \A j \in DOMAIN q : q[j].op = op => j <= i
TellsOf(s) == IF s = "New" THEN "TransportConnected" ELSE s

TellsState(q, s, t) ==
  /\ \A i \in DOMAIN q : q[i].op = "state" =>
       q[i].state # "New" /\ ~q[i].empty /\ (q[i].state = "Failed" => q[i].failed)
  /\ \A i \in DOMAIN q : Last(q, i, "state") => q[i].state = s
  /\ (\A i \in DOMAIN q : q[i].op # "state") => t = TellsOf(s) /\ s # "Failed"

TellsMedia(q, r, h) ==
  /\ \A i \in DOMAIN q : Last(q, i, "media") => q[i].media = r
  /\ (\A i \in DOMAIN q : q[i].op # "media") => h = r

NeverClosed(q) == \A i \in DOMAIN q : q[i].op # "disconnected"

ToldInv ==
  ~gone => TellsState(posted, state, told) /\ TellsMedia(posted, receivers, heard) /\ NeverClosed(posted)

LEMMA LastOfAppend ==
  ASSUME NEW q \in Seq(CallType), NEW c \in CallType, NEW op
  PROVE  /\ c.op = op => \A i \in DOMAIN Append(q, c) : Last(Append(q, c), i, op) => Append(q, c)[i] = c
         /\ c.op # op => \A i \in DOMAIN Append(q, c) : Last(Append(q, c), i, op) =>
              i \in DOMAIN q /\ Last(q, i, op) /\ Append(q, c)[i] = q[i]
<1> DEFINE p == Append(q, c)
           n == Len(q)
<1>1. /\ n \in Nat /\ DOMAIN p = DOMAIN q \cup {n + 1} /\ p[n + 1] = c
      /\ \A i \in DOMAIN q : i \in Nat \ {0} /\ i <= n /\ p[i] = q[i]
  BY AppendFacts
<1> HIDE DEF p, n
<1>2. ASSUME c.op = op, NEW i \in DOMAIN p, Last(p, i, op) PROVE p[i] = c
  BY <1>1, <1>2 DEF Last
<1>3. ASSUME c.op # op, NEW i \in DOMAIN p, Last(p, i, op) PROVE i \in DOMAIN q /\ Last(q, i, op) /\ p[i] = q[i]
  BY <1>1, <1>3 DEF Last
<1> QED BY <1>2, <1>3 DEF p

LEMMA LastOfTail ==
  ASSUME NEW q \in Seq(CallType), q # <<>>, NEW op
  PROVE  /\ \A i \in DOMAIN Tail(q) : i + 1 \in DOMAIN q /\ Tail(q)[i] = q[i + 1]
         /\ \A i \in DOMAIN Tail(q) : Last(Tail(q), i, op) => Last(q, i + 1, op)
         /\ (\A i \in DOMAIN Tail(q) : Tail(q)[i].op # op) =>
              IF q[1].op = op THEN 1 \in DOMAIN q /\ Last(q, 1, op) ELSE \A i \in DOMAIN q : q[i].op # op
<1> DEFINE p == Tail(q)
<1>1. /\ 1 \in DOMAIN q
      /\ \A i \in DOMAIN p : i \in Nat \ {0} /\ i + 1 \in DOMAIN q /\ p[i] = q[i + 1]
      /\ \A i \in DOMAIN q : i \in Nat \ {0} /\ (i # 1 => i - 1 \in DOMAIN p /\ p[i - 1] = q[i])
  BY TailFacts
<1> HIDE DEF p
<1>2. ASSUME NEW i \in DOMAIN p, Last(p, i, op) PROVE Last(q, i + 1, op)
  <2>1. q[i + 1].op = op
    BY <1>1, <1>2 DEF Last
  <2>2. ASSUME NEW j \in DOMAIN q, q[j].op = op PROVE j <= i + 1
    <3>1. CASE j = 1
      BY <1>1, <3>1
    <3>2. CASE j # 1
      <4>1. j - 1 \in DOMAIN p /\ p[j - 1].op = op
        BY <1>1, <2>2, <3>2
      <4>2. j - 1 <= i
        BY <1>2, <4>1 DEF Last
      <4> QED BY <1>1, <4>2
    <3> QED BY <3>1, <3>2
  <2> QED BY <2>1, <2>2 DEF Last
<1>3. ASSUME \A i \in DOMAIN p : p[i].op # op
      PROVE  IF q[1].op = op THEN 1 \in DOMAIN q /\ Last(q, 1, op) ELSE \A i \in DOMAIN q : q[i].op # op
  <2>1. \A i \in DOMAIN q : i # 1 => q[i].op # op
    BY <1>1, <1>3
  <2> QED BY <1>1, <2>1 DEF Last
<1> QED BY <1>1, <1>2, <1>3 DEF p

\* A call is posted.
LEMMA PostTells ==
  ASSUME NEW q \in Seq(CallType), NEW c \in CallType
  PROVE  /\ \A s, t : TellsState(q, s, t) /\ c.op # "state" => TellsState(Append(q, c), s, t)
         /\ \A s, t : /\ TellsState(q, s, t) /\ c.op = "state" /\ c.state # "New" /\ ~c.empty
                      /\ c.state = "Failed" => c.failed
                      => TellsState(Append(q, c), c.state, t)
         /\ \A r, h : TellsMedia(q, r, h) /\ c.op # "media" => TellsMedia(Append(q, c), r, h)
         /\ \A r, h : TellsMedia(q, r, h) /\ c.op = "media" => TellsMedia(Append(q, c), c.media, h)
         /\ NeverClosed(q) /\ c.op # "disconnected" => NeverClosed(Append(q, c))
<1> DEFINE p == Append(q, c)
           n == Len(q)
<1>1. /\ n \in Nat /\ DOMAIN p = DOMAIN q \cup {n + 1} /\ p[n + 1] = c
      /\ \A i \in DOMAIN q : i \in Nat \ {0} /\ i <= n /\ p[i] = q[i]
  BY AppendFacts
<1>2. \A op : /\ c.op = op => \A i \in DOMAIN p : Last(p, i, op) => p[i] = c
              /\ c.op # op => \A i \in DOMAIN p : Last(p, i, op) =>
                   i \in DOMAIN q /\ Last(q, i, op) /\ p[i] = q[i]
  BY LastOfAppend
<1>a. /\ c.op = "state" => \A i \in DOMAIN p : Last(p, i, "state") => p[i] = c
      /\ c.op # "state" => \A i \in DOMAIN p : Last(p, i, "state") =>
                   i \in DOMAIN q /\ Last(q, i, "state") /\ p[i] = q[i]
  BY <1>2
<1>b. /\ c.op = "media" => \A i \in DOMAIN p : Last(p, i, "media") => p[i] = c
      /\ c.op # "media" => \A i \in DOMAIN p : Last(p, i, "media") =>
                   i \in DOMAIN q /\ Last(q, i, "media") /\ p[i] = q[i]
  BY <1>2
<1> HIDE DEF p, n
<1>3. ASSUME NEW s, NEW t, TellsState(q, s, t), c.op # "state" PROVE TellsState(p, s, t)
  <2>1. \A i \in DOMAIN p : p[i].op = "state" =>
          p[i].state # "New" /\ ~p[i].empty /\ (p[i].state = "Failed" => p[i].failed)
    BY <1>1, <1>3 DEF TellsState
  <2>2. \A i \in DOMAIN p : Last(p, i, "state") => p[i].state = s
    BY <1>a, <1>3 DEF TellsState
  <2>3. (\A i \in DOMAIN p : p[i].op # "state") => t = TellsOf(s) /\ s # "Failed"
    BY <1>1, <1>3 DEF TellsState
  <2> QED BY <2>1, <2>2, <2>3 DEF TellsState
<1>4. ASSUME NEW s, NEW t, TellsState(q, s, t), c.op = "state", c.state # "New", ~c.empty,
             c.state = "Failed" => c.failed
      PROVE  TellsState(p, c.state, t)
  <2>1. \A i \in DOMAIN p : p[i].op = "state" =>
          p[i].state # "New" /\ ~p[i].empty /\ (p[i].state = "Failed" => p[i].failed)
    BY <1>1, <1>4 DEF TellsState
  <2>2. \A i \in DOMAIN p : Last(p, i, "state") => p[i].state = c.state
    BY <1>a, <1>4
  <2>3. ~ \A i \in DOMAIN p : p[i].op # "state"
    BY <1>1, <1>4
  <2> QED BY <2>1, <2>2, <2>3 DEF TellsState
<1>5. ASSUME NEW r, NEW h, TellsMedia(q, r, h), c.op # "media" PROVE TellsMedia(p, r, h)
  BY <1>1, <1>b, <1>5 DEF TellsMedia
<1>6. ASSUME NEW r, NEW h, c.op = "media" PROVE TellsMedia(p, c.media, h)
  BY <1>1, <1>b, <1>6 DEF TellsMedia
<1>7. ASSUME NeverClosed(q), c.op # "disconnected" PROVE NeverClosed(p)
  BY <1>1, <1>7 DEF NeverClosed
<1> QED BY <1>3, <1>4, <1>5, <1>6, <1>7 DEF p

\* A call is made.
LEMMA MakeTells ==
  ASSUME NEW q \in Seq(CallType), q # <<>>
  PROVE  /\ \A s, t : TellsState(q, s, t) /\ q[1].op # "state" => TellsState(Tail(q), s, t)
         /\ \A s, t : TellsState(q, s, t) /\ q[1].op = "state" =>
              /\ q[1].state # "New" /\ ~q[1].empty
              /\ ~q[1].failed => TellsState(Tail(q), s, q[1].state)
         /\ \A r, h : TellsMedia(q, r, h) /\ q[1].op # "media" => TellsMedia(Tail(q), r, h)
         /\ \A r, h : TellsMedia(q, r, h) /\ q[1].op = "media" => TellsMedia(Tail(q), r, q[1].media)
         /\ NeverClosed(q) => NeverClosed(Tail(q)) /\ q[1].op # "disconnected"
<1> DEFINE p == Tail(q)
<1>0. 1 \in DOMAIN q
  BY TailFacts
<1>1. \A op :
         /\ \A i \in DOMAIN p : i + 1 \in DOMAIN q /\ p[i] = q[i + 1]
         /\ \A i \in DOMAIN p : Last(p, i, op) => Last(q, i + 1, op)
         /\ (\A i \in DOMAIN p : p[i].op # op) =>
              IF q[1].op = op THEN 1 \in DOMAIN q /\ Last(q, 1, op) ELSE \A i \in DOMAIN q : q[i].op # op
  BY LastOfTail
<1>a. /\ \A i \in DOMAIN p : i + 1 \in DOMAIN q /\ p[i] = q[i + 1]
      /\ \A i \in DOMAIN p : Last(p, i, "state") => Last(q, i + 1, "state")
      /\ (\A i \in DOMAIN p : p[i].op # "state") =>
           IF q[1].op = "state" THEN Last(q, 1, "state") ELSE \A i \in DOMAIN q : q[i].op # "state"
  BY <1>1
<1>b. /\ \A i \in DOMAIN p : i + 1 \in DOMAIN q /\ p[i] = q[i + 1]
      /\ \A i \in DOMAIN p : Last(p, i, "media") => Last(q, i + 1, "media")
      /\ (\A i \in DOMAIN p : p[i].op # "media") =>
           IF q[1].op = "media" THEN Last(q, 1, "media") ELSE \A i \in DOMAIN q : q[i].op # "media"
  BY <1>1
<1> HIDE DEF p
<1>2. ASSUME NEW s, NEW t, TellsState(q, s, t)
      PROVE  /\ \A i \in DOMAIN p : p[i].op = "state" =>
                  p[i].state # "New" /\ ~p[i].empty /\ (p[i].state = "Failed" => p[i].failed)
             /\ \A i \in DOMAIN p : Last(p, i, "state") => p[i].state = s
  BY <1>a, <1>2 DEF TellsState
<1>3. ASSUME NEW s, NEW t, TellsState(q, s, t), q[1].op # "state" PROVE TellsState(p, s, t)
  <2>1. (\A i \in DOMAIN p : p[i].op # "state") => t = TellsOf(s) /\ s # "Failed"
    BY <1>a, <1>3 DEF TellsState
  <2> QED BY <1>2, <1>3, <2>1 DEF TellsState
<1>4. ASSUME NEW s, NEW t, TellsState(q, s, t), q[1].op = "state"
      PROVE  /\ q[1].state # "New" /\ ~q[1].empty
             /\ ~q[1].failed => TellsState(p, s, q[1].state)
  <2>1. q[1].state # "New" /\ ~q[1].empty /\ (q[1].state = "Failed" => q[1].failed)
    BY <1>0, <1>4 DEF TellsState
  <2>2. (\A i \in DOMAIN p : p[i].op # "state") => q[1].state = s
    BY <1>0, <1>a, <1>4 DEF TellsState
  <2> QED BY <1>2, <1>4, <2>1, <2>2 DEF TellsState, TellsOf
<1>5. ASSUME NEW r, NEW h, TellsMedia(q, r, h), q[1].op # "media" PROVE TellsMedia(p, r, h)
  BY <1>b, <1>5 DEF TellsMedia
<1>6. ASSUME NEW r, NEW h, TellsMedia(q, r, h), q[1].op = "media" PROVE TellsMedia(p, r, q[1].media)
  BY <1>0, <1>b, <1>6 DEF TellsMedia
<1>7. ASSUME NeverClosed(q) PROVE NeverClosed(p) /\ q[1].op # "disconnected"
  BY <1>0, <1>a, <1>7 DEF NeverClosed
<1> QED BY <1>3, <1>4, <1>5, <1>6, <1>7 DEF p

LEMMA ToldKept ==
  ASSUME ToldInv, UNCHANGED <<posted, state, told, receivers, heard>>, gone => gone'
  PROVE  ToldInv'
BY DEF ToldInv

LEMMA FailTells ==
  ASSUME SubTypeOK, ToldInv, Fail \/ UNCHANGED posted, UNCHANGED <<state, told, receivers, heard, gone>>
  PROVE  ToldInv'
<1>1. posted \in Seq(CallType) /\ [op |-> "failed"] \in CallType
  BY Members DEF SubTypeOK
<1>2. posted' = posted \/ posted' = Append(posted, [op |-> "failed"])
  BY DEF Fail
<1> DEFINE c == [op |-> "failed"]
<1>3. c.op = "failed"
  OBVIOUS
<1> HIDE DEF c
<1>4. ~gone => /\ TellsState(Append(posted, c), state, told)
               /\ TellsMedia(Append(posted, c), receivers, heard)
               /\ NeverClosed(Append(posted, c))
  BY <1>1, <1>3, PostTells DEF ToldInv, c
<1> QED BY <1>2, <1>4 DEF ToldInv, c

LEMMA ToldStep ==
  ASSUME SubTypeOK, ClosingInv, StateInv, ToldInv, SubNext
  PROVE  ToldInv'
<1>0. /\ posted \in Seq(CallType) /\ phase \in [Targets -> {"open", "disposed", "closed"}]
      /\ reading \in [{"signaling", "closer"} -> States \cup {"none"}] /\ "subscriber" \in Targets
      /\ gone \in BOOLEAN /\ applied \in Nat
  BY DEF SubTypeOK, States, Targets
<1>1. CASE OnOffer \/ OnTrickle \/ Server
  <2>1. UNCHANGED <<posted, state, told, receivers, heard, gone>>
    BY <1>1 DEF OnOffer, OnTrickle, Server, ServerOffers, ServerTrickles, linkVars, peerVars, userVars, lifeVars
  <2> QED BY <2>1, ToldKept
<1>2. CASE DropTask \/ AddIceCandidate
  BY <1>2, ToldKept DEF DropTask, AddIceCandidate, linkVars, peerVars, userVars, lifeVars
<1>3. CASE CreateAnswer
  BY <1>3, FailTells DEF CreateAnswer, linkVars, peerVars, userVars, lifeVars
<1>4. CASE SetLocalDescription
  <2>1. UNCHANGED <<state, told, receivers, heard, gone>>
    BY <1>4 DEF SetLocalDescription, linkVars, userVars, lifeVars
  <2>2. CASE Fail
    BY <2>1, <2>2, FailTells
  <2>3. CASE ~Fail
    <3>1. PICK n \in Nat : n = Head(sig).n
      BY <1>4, HeadTask DEF SetLocalDescription, Runs, Task, SubTypeOK
    <3> DEFINE c == [op |-> "answer", n |-> n]
    <3>2. posted' = posted \/ posted' = Append(posted, c)
      BY <1>4, <2>3, <3>1 DEF SetLocalDescription
    <3>3. c \in CallType /\ c.op = "answer"
      BY Members
    <3> HIDE DEF c
    <3>4. ~gone => /\ TellsState(Append(posted, c), state, told)
                   /\ TellsMedia(Append(posted, c), receivers, heard)
                   /\ NeverClosed(Append(posted, c))
      BY <1>0, <3>3, PostTells DEF ToldInv
    <3> QED BY <2>1, <3>2, <3>4 DEF ToldInv
  <2> QED BY <2>2, <2>3
<1>5. CASE SetRemoteDescription
  <2>1. UNCHANGED <<state, told, heard, gone>>
    BY <1>5 DEF SetRemoteDescription, linkVars, userVars, lifeVars
  <2>2. CASE Fail /\ UNCHANGED receivers
    BY <2>1, <2>2, FailTells
  <2>3. CASE ~(Fail /\ UNCHANGED receivers)
    <3>1. PICK m \in SUBSET Media : m = Head(sig).media
      BY <1>5, HeadTask DEF SetRemoteDescription, Runs, Task, SubTypeOK
    <3> DEFINE c == [op |-> "media", media |-> m]
    <3>2. receivers' = m /\ Notify("subscriber", c)
      BY <1>5, <2>3, <3>1 DEF SetRemoteDescription
    <3>3. ~gone => posted' = Append(posted, c)
      BY <3>2 DEF Notify, ClosingInv
    <3>4. c \in CallType /\ c.op = "media" /\ c.media = m
      BY Members
    <3> HIDE DEF c
    <3>5. ~gone => /\ TellsState(Append(posted, c), state, told)
                   /\ TellsMedia(Append(posted, c), m, heard)
                   /\ NeverClosed(Append(posted, c))
      BY <1>0, <3>4, PostTells DEF ToldInv
    <3> QED BY <2>1, <3>2, <3>3, <3>5 DEF ToldInv
  <2> QED BY <2>2, <2>3
<1>6. CASE ExchangeState("signaling")
  <2>1. SUFFICES ASSUME ~gone' PROVE ToldInv'
    BY DEF ToldInv
  <2>2. /\ reading["signaling"] # "none" /\ state' = reading["signaling"]
        /\ UNCHANGED <<receivers, told, heard, gone>>
        /\ \/ state' = state /\ posted' = posted
           \/ posted' = Append(posted, StateCall(reading["signaling"]))
    BY <1>6 DEF ExchangeState, peerVars, userVars, lifeVars
  <2>3. ~gone /\ reading["signaling"] = conn[primary] /\ reading["signaling"] # "New"
    BY <2>1, <2>2 DEF StateInv
  <2>4. PICK s \in States : s = reading["signaling"]
    BY <1>0, <2>2
  <2>5. PICK c \in CallType : c = StateCall(s)
    BY Members
  <2>6. c.op = "state" /\ c.state = s /\ (s = "Failed" => c.failed)
        /\ (c.empty <=> StateOf("subscriber") = "Closed")
    BY <2>5 DEF StateCall, Failing
  <2>7. StateOf("subscriber") # "Closed"
    <3>1. phase["subscriber"] = "open" /\ conn["subscriber"] \in Links
      BY <1>0, <2>3 DEF ClosingInv, SubTypeOK
    <3> QED BY <3>1 DEF StateOf, Links
  <2>8. /\ TellsState(Append(posted, c), s, told)
        /\ TellsMedia(Append(posted, c), receivers, heard)
        /\ NeverClosed(Append(posted, c))
    <3>1. c.state # "New" /\ ~c.empty /\ (c.state = "Failed" => c.failed)
      BY <2>3, <2>4, <2>6, <2>7
    <3>2. TellsState(Append(posted, c), c.state, told)
      BY <1>0, <2>3, <2>6, <3>1, PostTells DEF ToldInv
    <3> QED BY <1>0, <2>3, <2>6, <3>2, PostTells DEF ToldInv
  <2> QED BY <2>2, <2>3, <2>4, <2>5, <2>8 DEF ToldInv
<1>7. ASSUME NEW x \in Targets, NEW s \in Links \ {"New"}, PeerChanges(x, s) PROVE ToldInv'
  BY <1>7, ToldKept DEF PeerChanges, peerVars, userVars, lifeVars
<1>8. CASE Closer
  <2>1. gone
    <3>1. CASE ExchangeState("closer")
      BY <3>1 DEF ExchangeState, ClosingInv
    <3>2. CASE ~ExchangeState("closer")
      BY <1>8, <3>2 DEF Closer, Dispose, ForceSignaling, ResetListener, UpdateAtEnd, Destroy, ClosingInv,
                        Targets, Signal, Reset
    <3> QED BY <3>1, <3>2
  <2>2. gone' = gone
    BY <1>8 DEF Closer, Dispose, ForceSignaling, ResetListener, UpdateAtEnd, Destroy, ExchangeState, lifeVars
  <2> QED BY <2>1, <2>2 DEF ToldInv
<1>9. CASE Disconnect
  BY <1>9 DEF Disconnect, Begin, ToldInv
<1>10. CASE Events
  <2>0. SUFFICES ASSUME ~gone' PROVE ToldInv'
    BY DEF ToldInv
  <2>1. ~gone
    BY <1>10, <2>0 DEF Events, OnSubscriberAnswer, OnMedia, OnSdpOperationFailed, OnStateChange,
               OnTransportDisconnected, Cleanup, Begin, lifeVars
  <2>2. /\ posted # <<>> /\ Head(posted) = posted[1] /\ UNCHANGED <<state, receivers>>
    BY <1>10, EventEffects DEF linkVars, peerVars
  <2>3. Lives
    BY <2>1 DEF Lives, ClosingInv
  <2>4. TellsState(posted, state, told) /\ TellsMedia(posted, receivers, heard) /\ NeverClosed(posted)
    BY <2>1 DEF ToldInv
  <2>5. NeverClosed(Tail(posted)) /\ posted[1].op # "disconnected"
    BY <1>0, <2>2, <2>4, MakeTells
  <2>6. CASE OnSubscriberAnswer
    <3>1. posted[1].op = "answer" /\ posted' = Tail(posted) /\ UNCHANGED <<told, heard>>
      BY <2>2, <2>6 DEF OnSubscriberAnswer, Deliver, userVars
    <3>2. TellsState(Tail(posted), state, told) /\ TellsMedia(Tail(posted), receivers, heard)
      BY <1>0, <2>2, <2>4, <3>1, MakeTells
    <3> QED BY <2>2, <2>5, <3>1, <3>2 DEF ToldInv
  <2>7. CASE OnMedia
    <3>1. posted[1].op = "media" /\ posted' = Tail(posted) /\ UNCHANGED told /\ heard' = posted[1].media
      BY <2>2, <2>3, <2>7 DEF OnMedia, Deliver
    <3>2. TellsState(Tail(posted), state, told) /\ TellsMedia(Tail(posted), receivers, posted[1].media)
      BY <1>0, <2>2, <2>4, <3>1, MakeTells
    <3> QED BY <2>2, <2>5, <3>1, <3>2 DEF ToldInv
  <2>8. CASE OnSdpOperationFailed
    BY <2>0, <2>1, <2>3, <2>8 DEF OnSdpOperationFailed, Cleanup, Begin
  <2>9. CASE OnStateChange
    <3>1. posted[1].op = "state" /\ ~posted[1].failed /\ posted' = Tail(posted) /\ Tell(posted[1])
      BY <2>0, <2>1, <2>2, <2>3, <2>9 DEF OnStateChange, Cleanup, Begin
    <3>2. /\ posted[1].state # "New" /\ ~posted[1].empty
          /\ TellsState(Tail(posted), state, posted[1].state) /\ TellsMedia(Tail(posted), receivers, heard)
      BY <1>0, <2>2, <2>4, <3>1, MakeTells
    <3>3. told' = posted[1].state /\ heard' = heard
      BY <3>1, <3>2 DEF Tell
    <3> QED BY <2>2, <2>5, <3>1, <3>2, <3>3 DEF ToldInv
  <2>10. CASE OnTransportDisconnected
    BY <2>2, <2>5, <2>10 DEF OnTransportDisconnected, Deliver
  <2> QED BY <1>10, <2>6, <2>7, <2>8, <2>9, <2>10 DEF Events
<1> QED BY <1>1, <1>2, <1>3, <1>4, <1>5, <1>6, <1>7, <1>8, <1>9, <1>10 DEF SubNext, Signaling

----------------------------------------------------------------------------
(* After the end the user hears of no other state for good.                *)

Over(q, t) ==
  /\ t \in {"Closed", "TransportDisconnected"} \/ Carries(q, "disconnected")
  /\ \A i \in DOMAIN q : q[i].op = "state" =>
       q[i].state = "Closed" \/ \E j \in DOMAIN q : j > i /\ q[j].op = "disconnected"

OverInv == gone /\ ~late => Over(posted, told)

LEMMA PostOver ==
  ASSUME NEW q \in Seq(CallType), NEW c \in CallType
  PROVE  /\ \A t : c.op = "disconnected" => Over(Append(q, c), t)
         /\ \A t : Over(q, t) /\ (c.op = "state" => c.state = "Closed") => Over(Append(q, c), t)
<1> DEFINE p == Append(q, c)
           n == Len(q)
<1>1. /\ n \in Nat /\ DOMAIN p = DOMAIN q \cup {n + 1} /\ p[n + 1] = c
      /\ \A i \in DOMAIN q : i \in Nat \ {0} /\ i <= n /\ p[i] = q[i]
  BY AppendFacts
<1> HIDE DEF p, n
<1>2. ASSUME NEW t, c.op = "disconnected" PROVE Over(p, t)
  <2>1. n + 1 \in DOMAIN p /\ p[n + 1].op = "disconnected"
    BY <1>1, <1>2
  <2>2. \A i \in DOMAIN p : p[i].op = "state" => n + 1 > i
    BY <1>1, <1>2
  <2> QED BY <2>1, <2>2 DEF Over, Carries
<1>3. ASSUME NEW t, Over(q, t), c.op = "state" => c.state = "Closed" PROVE Over(p, t)
  <2>1. t \in {"Closed", "TransportDisconnected"} \/ Carries(p, "disconnected")
    BY <1>1, <1>3 DEF Over, Carries
  <2>2. ASSUME NEW i \in DOMAIN p, p[i].op = "state"
        PROVE  p[i].state = "Closed" \/ \E j \in DOMAIN p : j > i /\ p[j].op = "disconnected"
    <3>1. CASE i \in DOMAIN q
      <4>1. q[i].state = "Closed" \/ \E j \in DOMAIN q : j > i /\ q[j].op = "disconnected"
        BY <1>1, <1>3, <2>2, <3>1 DEF Over
      <4> QED BY <1>1, <3>1, <4>1
    <3>2. CASE i \notin DOMAIN q
      BY <1>1, <1>3, <2>2, <3>2
    <3> QED BY <3>1, <3>2
  <2> QED BY <2>1, <2>2 DEF Over
<1> QED BY <1>2, <1>3 DEF p

LEMMA MakeOver ==
  ASSUME NEW q \in Seq(CallType), q # <<>>
  PROVE  /\ \A t : Over(q, t) /\ q[1].op # "disconnected" => Over(Tail(q), t)
         /\ \A t : Over(q, t) /\ q[1].op = "state" => Over(Tail(q), q[1].state)
         /\ \A t : Over(q, t) => Over(Tail(q), "TransportDisconnected")
<1> DEFINE p == Tail(q)
<1>1. /\ 1 \in DOMAIN q
      /\ \A i \in DOMAIN p : i \in Nat \ {0} /\ i + 1 \in DOMAIN q /\ p[i] = q[i + 1]
      /\ \A i \in DOMAIN q : i \in Nat \ {0} /\ (i # 1 => i - 1 \in DOMAIN p /\ p[i - 1] = q[i])
  BY TailFacts
<1> HIDE DEF p
<1>2. ASSUME NEW t, Over(q, t)
      PROVE  \A i \in DOMAIN p : p[i].op = "state" =>
               p[i].state = "Closed" \/ \E j \in DOMAIN p : j > i /\ p[j].op = "disconnected"
  <2>1. TAKE i \in DOMAIN p
  <2>2. HAVE p[i].op = "state"
  <2>3. q[i + 1].state = "Closed" \/ \E j \in DOMAIN q : j > i + 1 /\ q[j].op = "disconnected"
    BY <1>1, <1>2, <2>2 DEF Over
  <2>4. ASSUME NEW j \in DOMAIN q, j > i + 1, q[j].op = "disconnected"
        PROVE  \E k \in DOMAIN p : k > i /\ p[k].op = "disconnected"
    <3>1. i \in Nat \ {0} /\ j \in Nat \ {0}
      BY <1>1
    <3>2. j # 1
      BY <2>4, <3>1
    <3>3. j - 1 \in DOMAIN p /\ p[j - 1] = q[j]
      BY <1>1, <2>4, <3>2
    <3>4. j - 1 > i
      BY <2>4, <3>1
    <3> QED BY <2>4, <3>3, <3>4
  <2> QED BY <1>1, <2>3, <2>4
<1>3. Carries(q, "disconnected") /\ q[1].op # "disconnected" => Carries(p, "disconnected")
  BY <1>1 DEF Carries
<1>4. ASSUME NEW t, Over(q, t), q[1].op = "state" PROVE Over(p, q[1].state)
  <2>1. q[1].state = "Closed" \/ \E j \in DOMAIN q : j > 1 /\ q[j].op = "disconnected"
    BY <1>1, <1>4 DEF Over
  <2>2. q[1].state = "Closed" \/ Carries(p, "disconnected")
    BY <1>1, <2>1 DEF Carries
  <2> QED BY <1>2, <1>4, <2>2 DEF Over
<1>5. ASSUME NEW t, Over(q, t), q[1].op # "disconnected" PROVE Over(p, t)
  BY <1>2, <1>3, <1>5 DEF Over
<1>6. ASSUME NEW t, Over(q, t) PROVE Over(p, "TransportDisconnected")
  BY <1>2, <1>6 DEF Over
<1> QED BY <1>4, <1>5, <1>6 DEF p

LEMMA OverKept ==
  ASSUME SubTypeOK, OverInv, UNCHANGED <<told, late, gone>>,
         \/ UNCHANGED posted \/ \E c : Posts(c) /\ (c.op = "state" => c.state = "Closed")
  PROVE  OverInv'
<1>1. posted \in Seq(CallType)
  BY DEF SubTypeOK
<1>2. ASSUME NEW c \in CallType, posted' = Append(posted, c), c.op = "state" => c.state = "Closed"
      PROVE  OverInv'
  <2>1. gone /\ ~late => Over(Append(posted, c), told)
    BY <1>1, <1>2, PostOver DEF OverInv
  <2> QED BY <1>2, <2>1 DEF OverInv
<1> QED BY <1>2 DEF OverInv, Posts

LEMMA OverStep ==
  ASSUME SubTypeOK, ClosingInv, StateInv, OverInv, SubNext
  PROVE  OverInv'
<1>0. /\ posted \in Seq(CallType) /\ gone \in BOOLEAN
      /\ reading \in [{"signaling", "closer"} -> States \cup {"none"}]
  BY DEF SubTypeOK, States
<1>1. CASE OnOffer \/ OnTrickle \/ Server
  <2>1. UNCHANGED <<posted, told, late, gone>>
    BY <1>1 DEF OnOffer, OnTrickle, Server, ServerOffers, ServerTrickles, linkVars, userVars, lifeVars
  <2> QED BY <2>1, OverKept
<1>2. CASE DropTask \/ SetRemoteDescription \/ CreateAnswer \/ SetLocalDescription \/ AddIceCandidate
  <2>1. UNCHANGED <<told, late, gone>>
    BY <1>2, TaskEffects DEF linkVars, userVars, lifeVars
  <2>2. UNCHANGED posted \/ \E c : Posts(c) /\ c.op # "state"
    <3>1. Fail => UNCHANGED posted \/ \E c : Posts(c) /\ c.op # "state"
      <4>1. Fail => UNCHANGED posted \/ Posts([op |-> "failed"])
        BY Members DEF Fail, Posts
      <4>2. [op |-> "failed"].op # "state"
        OBVIOUS
      <4> QED BY <4>1, <4>2
    <3>2. CASE DropTask \/ AddIceCandidate
      BY <3>2 DEF DropTask, AddIceCandidate
    <3>3. CASE CreateAnswer
      BY <3>1, <3>3 DEF CreateAnswer
    <3>4. CASE SetLocalDescription
      <4>1. PICK n \in Nat : n = Head(sig).n
        BY <3>4, HeadTask DEF SetLocalDescription, Runs, Task, SubTypeOK
      <4>2. Fail \/ UNCHANGED posted \/ posted' = Append(posted, [op |-> "answer", n |-> n])
        BY <3>4, <4>1 DEF SetLocalDescription
      <4>3. Fail \/ UNCHANGED posted \/ Posts([op |-> "answer", n |-> n])
        BY <4>2, Members DEF Posts
      <4> QED BY <3>1, <4>3
    <3>5. CASE SetRemoteDescription
      <4>1. PICK m \in SUBSET Media : m = Head(sig).media
        BY <3>5, HeadTask DEF SetRemoteDescription, Runs, Task, SubTypeOK
      <4>2. Fail \/ UNCHANGED posted \/ posted' = Append(posted, [op |-> "media", media |-> m])
        BY <3>5, <4>1 DEF SetRemoteDescription, Notify
      <4>3. Fail \/ UNCHANGED posted \/ Posts([op |-> "media", media |-> m])
        BY <4>2, Members DEF Posts
      <4> QED BY <3>1, <4>3
    <3> QED BY <1>2, <3>2, <3>3, <3>4, <3>5
  <2> QED BY <2>1, <2>2, OverKept
<1>3. CASE ExchangeState("signaling")
  <2>1. gone' = gone /\ late' = (late \/ gone)
    BY <1>3 DEF ExchangeState, lifeVars
  <2> QED BY <2>1 DEF OverInv
<1>4. ASSUME NEW x \in Targets, NEW s \in Links \ {"New"}, PeerChanges(x, s) PROVE OverInv'
  BY <1>4, OverKept DEF PeerChanges, userVars, lifeVars
<1>5. CASE ExchangeState("closer")
  <2>1. /\ reading["closer"] # "none" /\ UNCHANGED <<late, gone>>
        /\ \/ UNCHANGED <<posted, told>>
           \/ posted' = posted /\ Tell(StateCall(reading["closer"]))
           \/ posted' = Append(posted, StateCall(reading["closer"])) /\ told' = told
    <3>1. late' = (late \/ FALSE)
      BY <1>5 DEF ExchangeState
    <3>2. late \in BOOLEAN
      BY DEF SubTypeOK
    <3> QED BY <1>5, <3>1, <3>2 DEF ExchangeState, lifeVars, userVars
  <2>2. reading["closer"] = "Closed"
    BY <2>1 DEF ClosingInv
  <2>3. PICK c \in CallType : c = StateCall("Closed")
    BY Members DEF States
  <2>4. c.op = "state" /\ c.state = "Closed"
    BY <2>3 DEF StateCall
  <2>5. CASE posted' = posted /\ Tell(StateCall(reading["closer"]))
    <3>1. told' = told \/ told' = "Closed"
      BY <2>2, <2>3, <2>4, <2>5 DEF Tell
    <3> QED BY <2>1, <2>5, <3>1 DEF OverInv, Over
  <2>6. CASE ~(posted' = posted /\ Tell(StateCall(reading["closer"])))
    <3>1. UNCHANGED <<told, late, gone>> /\ (UNCHANGED posted \/ posted' = Append(posted, c))
      BY <2>1, <2>2, <2>3, <2>6
    <3>2. UNCHANGED posted \/ (Posts(c) /\ (c.op = "state" => c.state = "Closed"))
      BY <2>4, <3>1 DEF Posts
    <3> QED BY <3>1, <3>2, OverKept
  <2> QED BY <2>5, <2>6
<1>6. CASE Closer /\ ~ExchangeState("closer")
  <2>1. UNCHANGED <<posted, told, late, gone>>
    BY <1>6 DEF Closer, Dispose, ForceSignaling, ResetListener, UpdateAtEnd, Destroy, userVars, linkVars
  <2> QED BY <2>1, OverKept
<1>7. ASSUME gone' # gone PROVE OverInv'
  <2>1. posted' = Append(posted, [op |-> "disconnected"]) \/ posted' = Append(Tail(posted), [op |-> "disconnected"])
    BY <1>7 DEF SubNext, OnOffer, OnTrickle, Signaling, DropTask, SetRemoteDescription, CreateAnswer,
       SetLocalDescription, AddIceCandidate, ExchangeState, PeerChanges, Closer, Dispose, ForceSignaling,
       ResetListener, UpdateAtEnd, Destroy, Events, OnSubscriberAnswer, OnMedia, OnSdpOperationFailed,
       OnStateChange, OnTransportDisconnected, Cleanup, Disconnect, Server, ServerTrickles, ServerOffers, lifeVars
  <2>2. posted # <<>> => Tail(posted) \in Seq(CallType)
    BY <1>0, TailFacts
  <2>3. \/ posted' = Append(posted, [op |-> "disconnected"])
        \/ posted # <<>> /\ posted' = Append(Tail(posted), [op |-> "disconnected"])
    BY <1>7, <2>1 DEF SubNext, OnOffer, OnTrickle, Signaling, DropTask, SetRemoteDescription, CreateAnswer,
       SetLocalDescription, AddIceCandidate, ExchangeState, PeerChanges, Closer, Dispose, ForceSignaling,
       ResetListener, UpdateAtEnd, Destroy, Events, OnSubscriberAnswer, OnMedia, OnSdpOperationFailed,
       OnStateChange, OnTransportDisconnected, Cleanup, Disconnect, Server, ServerTrickles, ServerOffers, lifeVars
  <2> DEFINE c == [op |-> "disconnected"]
  <2>4. c \in CallType /\ c.op = "disconnected"
    BY Members
  <2> HIDE DEF c
  <2>5. Over(Append(posted, c), told') /\ (posted # <<>> => Over(Append(Tail(posted), c), told'))
    <3>1. \A t : \A q \in Seq(CallType) : Over(Append(q, c), t)
      BY <2>4, PostOver
    <3> QED BY <1>0, <2>2, <3>1
  <2> QED BY <2>3, <2>5 DEF OverInv, c
<1>8. ASSUME Events \/ Disconnect, gone' = gone PROVE OverInv'
  <2>0. SUFFICES ASSUME gone, ~late' PROVE OverInv'
    BY <1>8 DEF OverInv
  <2>1. Events
    BY <1>8, <2>0 DEF Disconnect
  <2>2. posted # <<>> /\ Head(posted) = posted[1] /\ late' = late
    BY <2>1, EventEffects DEF linkVars
  <2>3. Over(posted, told)
    BY <2>0, <2>2 DEF OverInv
  <2>4. posted[1].op # "disconnected" => Over(Tail(posted), told)
    BY <1>0, <2>2, <2>3, MakeOver
  <2>5. CASE OnSubscriberAnswer \/ OnMedia
    <3>1. posted[1].op # "disconnected" /\ posted' = Tail(posted) /\ told' = told
      BY <2>2, <2>5 DEF OnSubscriberAnswer, OnMedia, Deliver, userVars
    <3> QED BY <2>4, <3>1 DEF OverInv
  <2>6. CASE OnSdpOperationFailed
    <3>1. posted[1].op # "disconnected" /\ posted' = Tail(posted) /\ told' = told
      BY <2>0, <2>2, <2>6 DEF OnSdpOperationFailed, Cleanup
    <3> QED BY <2>4, <3>1 DEF OverInv
  <2>7. CASE OnStateChange
    <3>1. posted[1].op = "state" /\ posted' = Tail(posted) /\ (told' = told \/ told' = posted[1].state)
      BY <2>0, <2>2, <2>7 DEF OnStateChange, Cleanup, Tell, userVars
    <3>2. Over(Tail(posted), told) /\ Over(Tail(posted), posted[1].state)
      BY <1>0, <2>2, <2>3, <2>4, <3>1, MakeOver
    <3> QED BY <3>1, <3>2 DEF OverInv
  <2>8. CASE OnTransportDisconnected
    <3>1. posted' = Tail(posted) /\ told' = "TransportDisconnected"
      BY <2>8 DEF OnTransportDisconnected, Deliver
    <3>2. Over(Tail(posted), "TransportDisconnected")
      BY <1>0, <2>2, <2>3, MakeOver
    <3> QED BY <3>1, <3>2 DEF OverInv
  <2> QED BY <2>1, <2>5, <2>6, <2>7, <2>8 DEF Events
<1> QED BY <1>1, <1>2, <1>3, <1>4, <1>5, <1>6, <1>7, <1>8 DEF SubNext, Signaling

----------------------------------------------------------------------------
(* The user is told.                                                       *)

UserInv == SubTypeOK /\ ClosingInv /\ StateInv /\ ToldInv /\ OverInv

LEMMA UserInit ==
  ASSUME SubInit
  PROVE  UserInv
<1>1. SubTypeOK
  <2>1. inbox \in Seq(TaskType) /\ sig \in Seq(TaskType) /\ posted \in Seq(CallType)
    BY DEF SubInit
  <2> QED BY <2>1 DEF SubInit, SubTypeOK, Targets, Links, CloseSteps
<1>2. ClosingInv /\ StateInv
  BY DEF SubInit, ClosingInv, StateInv, Links, Targets
<1>3. ToldInv
  <2>1. \A i \in DOMAIN posted : FALSE
    BY DEF SubInit
  <2>2. TellsState(posted, state, told)
    BY <2>1 DEF SubInit, TellsState, TellsOf
  <2>3. TellsMedia(posted, receivers, heard)
    BY <2>1 DEF SubInit, TellsMedia
  <2> QED BY <2>1, <2>2, <2>3 DEF ToldInv, NeverClosed
<1>4. OverInv
  BY DEF SubInit, OverInv
<1> QED BY <1>1, <1>2, <1>3, <1>4 DEF UserInv

LEMMA UserStutter ==
  ASSUME UserInv, UNCHANGED subVars
  PROVE  UserInv'
<1>1. UNCHANGED <<primary, conn, phase, state, reading, late, changes, inbox, sig, posted, applied, local,
        receivers, candidate, heard, told, closing, closer, gone, offered, replied, dropped>>
  BY DEF subVars, linkVars, peerVars, userVars, lifeVars, serverVars
<1>2. SubTypeOK'
  BY <1>1 DEF UserInv, SubTypeOK
<1>3. ClosingInv' /\ StateInv'
  BY <1>1, ClosingKept DEF UserInv
<1>4. ToldInv' /\ OverInv'
  BY <1>1, ToldKept DEF UserInv, OverInv
<1> QED BY <1>2, <1>3, <1>4 DEF UserInv

LEMMA UserInvariance == SubSpec => []UserInv
<1>1. UserInv /\ [SubNext]_subVars => UserInv'
  <2>1. ASSUME UserInv, SubNext PROVE UserInv'
    BY <2>1, TypeStep, ClosingStep, ToldStep, OverStep DEF UserInv
  <2> QED BY <2>1, UserStutter
<1> QED BY <1>1, UserInit, PTL DEF SubSpec

\* When all is quiet the user knows the state of the primary transport and the participants have
\* the tracks that are received, a failed transport has ended the session, and a manager that is
\* closed says so for good: for any tracks, offers and changes of the transports' states, and
\* whichever thread closes the manager at whatever moment.
THEOREM UserIsTold == SubSpec => []StateIsTold
<1>1. UserInv => StateIsTold
  <2> SUFFICES ASSUME UserInv PROVE StateIsTold
    OBVIOUS
  <2>1. ASSUME AtRest, ~gone
        PROVE  state = conn[primary] /\ state # "Failed" /\ told = TellsOf(state) /\ heard = receivers
    <3>1. \A i \in DOMAIN posted : FALSE
      BY <2>1 DEF AtRest
    <3>2. reading["signaling"] = "none"
      BY <2>1 DEF AtRest
    <3>3. state = conn[primary]
      BY <2>1, <3>2 DEF UserInv, StateInv
    <3>4. told = TellsOf(state) /\ state # "Failed"
      BY <2>1, <3>1 DEF UserInv, ToldInv, TellsState
    <3>5. heard = receivers
      BY <2>1, <3>1 DEF UserInv, ToldInv, TellsMedia
    <3> QED BY <3>3, <3>4, <3>5
  <2>2. ASSUME ~Lives PROVE state = "Closed" /\ gone
    BY <2>2 DEF Lives, UserInv, ClosingInv
  <2>3. ASSUME AtRest, ~Lives, ~late PROVE told \in {"Closed", "TransportDisconnected"}
    <3>1. \A i \in DOMAIN posted : FALSE
      BY <2>3 DEF AtRest
    <3>2. Over(posted, told)
      BY <2>2, <2>3 DEF UserInv, OverInv
    <3> QED BY <3>1, <3>2 DEF Over, Carries
  <2> QED BY <2>1, <2>2, <2>3 DEF StateIsTold, TellsOf
<1> QED BY <1>1, UserInvariance, PTL

----------------------------------------------------------------------------
(* The round of an offer: it is in one place at a time, on its way to the   *)
(* answer, or something has failed, or it was dropped.                     *)

Round == {"offer", "createAnswer", "setLocal", "answer"}
Quiet(q) == \A i \in DOMAIN q : q[i].op \notin Round
Bears(q, c) ==
  c.op \in Round /\ \E i \in DOMAIN q : q[i] = c /\ \A j \in DOMAIN q : q[j].op \in Round => j = i

Idle ==
  /\ Quiet(inbox) /\ Quiet(sig) /\ Quiet(posted)
  /\ offered # replied => gone \/ Carries(posted, "failed") \/ dropped = offered
  /\ dropped # 0 => dropped = offered /\ replied # offered
Comes(c) ==
  /\ Bears(inbox, c) /\ Quiet(sig) /\ Quiet(posted)
  /\ offered = replied + 1 /\ dropped = 0 /\ c.op = "offer" /\ c.n = offered
Worked(c) ==
  /\ Bears(sig, c) /\ Quiet(inbox) /\ Quiet(posted)
  /\ offered = replied + 1 /\ dropped = 0
  /\ c.op \in {"offer", "setLocal"} => c.n = offered
  /\ c.op \in {"createAnswer", "setLocal"} => applied = offered
Answered(c) ==
  /\ Bears(posted, c) /\ Quiet(inbox) /\ Quiet(sig)
  /\ offered = replied + 1 /\ dropped = 0 /\ c.n = offered /\ applied = offered

Somewhere == Idle \/ (\E c \in TaskType : Comes(c) \/ Worked(c)) \/ \E c \in CallType : Answered(c)
CountInv == applied <= offered /\ local <= applied /\ replied <= applied /\ offered <= replied + 1
RoundInv == Somewhere /\ CountInv

LEMMA RoundTail ==
  ASSUME NEW S, NEW q \in Seq(S), q # <<>>
  PROVE  /\ Quiet(q) => Quiet(Tail(q)) /\ q[1].op \notin Round
         /\ \A c : Bears(q, c) =>
              IF q[1].op \in Round THEN c = q[1] /\ Quiet(Tail(q)) ELSE Bears(Tail(q), c)
         /\ \A op : Carries(q, op) /\ q[1].op # op => Carries(Tail(q), op)
<1> DEFINE p == Tail(q)
<1>1. /\ 1 \in DOMAIN q
      /\ \A i \in DOMAIN p : i \in Nat \ {0} /\ i + 1 \in DOMAIN q /\ p[i] = q[i + 1]
      /\ \A i \in DOMAIN q : i \in Nat \ {0} /\ (i # 1 => i - 1 \in DOMAIN p /\ p[i - 1] = q[i])
  BY TailFacts
<1> HIDE DEF p
<1>2. Quiet(q) => Quiet(p) /\ q[1].op \notin Round
  BY <1>1 DEF Quiet
<1>3. ASSUME NEW c, Bears(q, c), q[1].op \in Round PROVE c = q[1] /\ Quiet(p)
  <2>1. c = q[1] /\ \A j \in DOMAIN q : q[j].op \in Round => j = 1
    BY <1>1, <1>3 DEF Bears
  <2>2. ASSUME NEW i \in DOMAIN p, p[i].op \in Round PROVE FALSE
    <3>1. i + 1 = 1 /\ i \in Nat \ {0}
      BY <1>1, <2>1, <2>2
    <3> QED BY <3>1
  <2> QED BY <2>1, <2>2 DEF Quiet
<1>4. ASSUME NEW c, Bears(q, c), q[1].op \notin Round PROVE Bears(p, c)
  <2>1. PICK i \in DOMAIN q : c.op \in Round /\ q[i] = c /\ \A j \in DOMAIN q : q[j].op \in Round => j = i
    BY <1>4 DEF Bears
  <2>2. i # 1 /\ i \in Nat \ {0} /\ i - 1 \in DOMAIN p /\ p[i - 1] = c
    BY <1>1, <1>4, <2>1
  <2>3. ASSUME NEW j \in DOMAIN p, p[j].op \in Round PROVE j = i - 1
    <3>1. j + 1 = i /\ j \in Nat
      BY <1>1, <2>1, <2>3
    <3> QED BY <2>2, <3>1
  <2> QED BY <2>1, <2>2, <2>3 DEF Bears
<1>5. \A op : Carries(q, op) /\ q[1].op # op => Carries(p, op)
  BY <1>1 DEF Carries
<1> QED BY <1>2, <1>3, <1>4, <1>5 DEF p

LEMMA RoundAppend ==
  ASSUME NEW S, NEW q \in Seq(S), NEW d \in S
  PROVE  /\ Quiet(q) /\ d.op \notin Round => Quiet(Append(q, d))
         /\ \A c : Bears(q, c) /\ d.op \notin Round => Bears(Append(q, d), c)
         /\ Quiet(q) /\ d.op \in Round => Bears(Append(q, d), d)
         /\ \A op : Carries(q, op) \/ d.op = op => Carries(Append(q, d), op)
<1> DEFINE p == Append(q, d)
           n == Len(q)
<1>1. /\ n \in Nat /\ DOMAIN p = DOMAIN q \cup {n + 1} /\ p[n + 1] = d
      /\ \A i \in DOMAIN q : i \in Nat \ {0} /\ i <= n /\ p[i] = q[i]
  BY AppendFacts
<1> HIDE DEF p, n
<1>2. Quiet(q) /\ d.op \notin Round => Quiet(p)
  BY <1>1 DEF Quiet
<1>3. ASSUME NEW c, Bears(q, c), d.op \notin Round PROVE Bears(p, c)
  BY <1>1, <1>3 DEF Bears
<1>4. Quiet(q) /\ d.op \in Round => Bears(p, d)
  BY <1>1 DEF Quiet, Bears
<1>5. \A op : Carries(q, op) \/ d.op = op => Carries(p, op)
  BY <1>1 DEF Carries
<1> QED BY <1>2, <1>3, <1>4, <1>5 DEF p

\* The manager does not come back, and a failure is acted on by ending the session.
LEMMA FailureIsKept ==
  ASSUME SubTypeOK, ClosingInv, SubNext
  PROVE  /\ gone => gone'
         /\ Carries(posted, "failed") => gone' \/ Carries(posted', "failed")
<1>0. posted \in Seq(CallType)
  BY DEF SubTypeOK
<1>1. gone => gone'
  BY DEF SubNext, OnOffer, OnTrickle, Signaling, DropTask, SetRemoteDescription, CreateAnswer,
         SetLocalDescription, AddIceCandidate, ExchangeState, PeerChanges, Closer, Dispose, ForceSignaling,
         ResetListener, UpdateAtEnd, Destroy, Events, OnSubscriberAnswer, OnMedia, OnSdpOperationFailed,
         OnStateChange, OnTransportDisconnected, Cleanup, Begin, Disconnect, Server, ServerTrickles,
         ServerOffers, lifeVars
<1>2. \A c : Posts(c) /\ Carries(posted, "failed") => Carries(posted', "failed")
  BY <1>0, RoundAppend DEF Posts
<1>3. CASE OnOffer \/ OnTrickle \/ Server
  <2>1. UNCHANGED posted
    BY <1>3 DEF OnOffer, OnTrickle, Server, ServerTrickles, ServerOffers
  <2> QED BY <1>1, <2>1
<1>4. CASE DropTask \/ SetRemoteDescription \/ CreateAnswer \/ SetLocalDescription \/ AddIceCandidate
  <2>1. UNCHANGED posted \/ \E c : Posts(c)
    BY <1>4, TaskEffects
  <2> QED BY <1>1, <1>2, <2>1
<1>5. ASSUME NEW t \in {"signaling", "closer"}, ExchangeState(t)
      PROVE  Carries(posted, "failed") => Carries(posted', "failed")
  <2>1. reading[t] \in States
    BY <1>5 DEF ExchangeState, SubTypeOK, States
  <2>2. UNCHANGED posted \/ Posts(StateCall(reading[t]))
    BY <1>5, <2>1, Members DEF ExchangeState, Posts
  <2> QED BY <1>2, <2>2
<1>6. CASE Disconnect
  <2>1. Posts([op |-> "disconnected"])
    BY <1>6, Members DEF Disconnect, Posts
  <2> QED BY <1>1, <1>2, <2>1
<1>7. CASE Events
  <2>0. posted # <<>> /\ Head(posted) = posted[1]
    BY <1>7, EventEffects
  <2>1. ASSUME posted[1].op # "failed", posted' = Tail(posted), Carries(posted, "failed")
        PROVE  Carries(posted', "failed")
    BY <1>0, <2>0, <2>1, RoundTail
  <2>2. CASE posted[1].op = "failed"
    <3>1. OnSdpOperationFailed
      BY <1>7, <2>0, <2>2 DEF Events, OnSubscriberAnswer, OnMedia, OnStateChange, OnTransportDisconnected, Deliver
    <3>2. gone' \/ gone
      BY <3>1 DEF OnSdpOperationFailed, Cleanup, Begin, Lives, ClosingInv
    <3> QED BY <1>1, <3>2
  <2>3. CASE posted[1].op # "failed"
    <3>1. posted' = Tail(posted) \/ gone'
      BY <1>7, <2>0, <2>3 DEF Events, OnSubscriberAnswer, OnMedia, OnStateChange, OnTransportDisconnected,
         OnSdpOperationFailed, Cleanup, Begin, Deliver
    <3> QED BY <1>1, <2>1, <2>3, <3>1
  <2> QED BY <2>2, <2>3
<1>8. CASE Signaling \/ Closer
  <2>1. \/ DropTask \/ SetRemoteDescription \/ CreateAnswer \/ SetLocalDescription \/ AddIceCandidate
        \/ ExchangeState("signaling") \/ ExchangeState("closer") \/ UNCHANGED posted
    BY <1>8 DEF Signaling, PeerChanges, Closer, Dispose, ForceSignaling, ResetListener, UpdateAtEnd, Destroy
  <2> QED BY <1>1, <1>4, <1>5, <2>1
<1> QED BY <1>1, <1>3, <1>6, <1>7, <1>8 DEF SubNext

\* A step that moves only calls and tasks of other rounds keeps this one where it is.
Keeps(q, p) == (Quiet(q) => Quiet(p)) /\ \A c : Bears(q, c) => Bears(p, c)

LEMMA KeepsFacts ==
  ASSUME NEW S, NEW q \in Seq(S)
  PROVE  /\ Keeps(q, q)
         /\ q # <<>> /\ q[1].op \notin Round => Keeps(q, Tail(q))
         /\ \A d \in S : d.op \notin Round => Keeps(q, Append(q, d))
         /\ \A d \in S : q # <<>> /\ q[1].op \notin Round /\ d.op \notin Round => Keeps(q, Append(Tail(q), d))
<1>1. q # <<>> /\ q[1].op \notin Round => Keeps(q, Tail(q))
  BY RoundTail DEF Keeps
<1>2. \A r \in Seq(S), d \in S : d.op \notin Round => Keeps(r, Append(r, d))
  BY RoundAppend DEF Keeps
<1>3. q # <<>> => Tail(q) \in Seq(S)
  BY TailFacts
<1>4. ASSUME NEW d \in S, q # <<>>, q[1].op \notin Round, d.op \notin Round PROVE Keeps(q, Append(Tail(q), d))
  <2>1. Keeps(q, Tail(q)) /\ Keeps(Tail(q), Append(Tail(q), d))
    BY <1>1, <1>2, <1>3, <1>4
  <2> QED BY <2>1 DEF Keeps
<1> QED BY <1>1, <1>2, <1>4 DEF Keeps

LEMMA RoundKept ==
  ASSUME RoundInv, Keeps(inbox, inbox'), Keeps(sig, sig'), Keeps(posted, posted'),
         UNCHANGED <<offered, replied, dropped, applied, local>>,
         gone => gone', Carries(posted, "failed") => gone' \/ Carries(posted', "failed")
  PROVE  RoundInv'
<1>1. CountInv'
  BY DEF RoundInv, CountInv
<1>2. CASE Idle
  <2>1. Idle'
    BY <1>2 DEF Idle, Keeps
  <2> QED BY <1>1, <2>1 DEF RoundInv, Somewhere
<1>3. ASSUME NEW c \in TaskType, Comes(c) \/ Worked(c) PROVE RoundInv'
  <2>1. Comes(c)' \/ Worked(c)'
    BY <1>3 DEF Comes, Worked, Keeps
  <2> QED BY <1>1, <2>1 DEF RoundInv, Somewhere
<1>4. ASSUME NEW c \in CallType, Answered(c) PROVE RoundInv'
  <2>1. Answered(c)'
    BY <1>4 DEF Answered, Keeps
  <2> QED BY <1>1, <2>1 DEF RoundInv, Somewhere
<1> QED BY <1>2, <1>3, <1>4 DEF RoundInv, Somewhere

\* What is at the head of a queue is the round's only step.
LEMMA HeadIsTheStep ==
  ASSUME SubTypeOK, RoundInv
  PROVE  /\ inbox # <<>> /\ inbox[1].op \in Round => Comes(inbox[1]) /\ Quiet(Tail(inbox))
         /\ sig # <<>> /\ sig[1].op \in Round => Worked(sig[1]) /\ Quiet(Tail(sig))
         /\ posted # <<>> /\ posted[1].op \in Round => Answered(posted[1]) /\ Quiet(Tail(posted))
<1>0. inbox \in Seq(TaskType) /\ sig \in Seq(TaskType) /\ posted \in Seq(CallType)
  BY DEF SubTypeOK
<1>1. ASSUME inbox # <<>>, inbox[1].op \in Round PROVE Comes(inbox[1]) /\ Quiet(Tail(inbox))
  <2>1. ~Quiet(inbox)
    BY <1>0, <1>1, RoundTail
  <2>2. PICK c \in TaskType : Comes(c)
    BY <2>1 DEF RoundInv, Somewhere, Idle, Worked, Answered
  <2>3. c = inbox[1] /\ Quiet(Tail(inbox))
    <3>1. Bears(inbox, c)
      BY <2>2 DEF Comes
    <3> QED BY <1>0, <1>1, <3>1, RoundTail
  <2> QED BY <2>2, <2>3
<1>2. ASSUME sig # <<>>, sig[1].op \in Round PROVE Worked(sig[1]) /\ Quiet(Tail(sig))
  <2>1. ~Quiet(sig)
    BY <1>0, <1>2, RoundTail
  <2>2. PICK c \in TaskType : Worked(c)
    BY <2>1 DEF RoundInv, Somewhere, Idle, Comes, Answered
  <2>3. c = sig[1] /\ Quiet(Tail(sig))
    <3>1. Bears(sig, c)
      BY <2>2 DEF Worked
    <3> QED BY <1>0, <1>2, <3>1, RoundTail
  <2> QED BY <2>2, <2>3
<1>3. ASSUME posted # <<>>, posted[1].op \in Round PROVE Answered(posted[1]) /\ Quiet(Tail(posted))
  <2>1. ~Quiet(posted)
    BY <1>0, <1>3, RoundTail
  <2>2. PICK c \in CallType : Answered(c)
    BY <2>1 DEF RoundInv, Somewhere, Idle, Comes, Worked
  <2>3. c = posted[1] /\ Quiet(Tail(posted))
    <3>1. Bears(posted, c)
      BY <2>2 DEF Answered
    <3> QED BY <1>0, <1>3, <3>1, RoundTail
  <2> QED BY <2>2, <2>3
<1> QED BY <1>1, <1>2, <1>3

\* The failure of a step of the round ends it.
LEMMA FailRound ==
  ASSUME SubTypeOK, ClosingInv, RoundInv, sig # <<>>, sig[1].op \in Round, Fail,
         UNCHANGED <<inbox, offered, replied, dropped, applied, local, gone>>
  PROVE  RoundInv'
<1>1. Worked(sig[1]) /\ Quiet(Tail(sig)) /\ sig' = Tail(sig) /\ posted \in Seq(CallType)
  BY HeadIsTheStep DEF Fail, SubTypeOK
<1>2. Quiet(posted) /\ Quiet(inbox) /\ dropped = 0
  BY <1>1 DEF Worked
<1>3. Quiet(posted') /\ (gone \/ Carries(posted', "failed"))
  <2> DEFINE d == [op |-> "failed"]
  <2>1. d \in CallType /\ d.op \notin Round /\ d.op = "failed"
    BY Members DEF Round
  <2> HIDE DEF d
  <2>2. Quiet(Append(posted, d)) /\ Carries(Append(posted, d), "failed")
    BY <1>1, <1>2, <2>1, RoundAppend
  <2>3. CASE Open
    BY <2>2, <2>3 DEF Fail, d
  <2>4. CASE ~Open
    BY <1>2, <2>4 DEF Fail, Open, ClosingInv
  <2> QED BY <2>3, <2>4
<1>4. Idle'
  BY <1>1, <1>2, <1>3 DEF Idle
<1>5. CountInv'
  BY DEF RoundInv, CountInv
<1> QED BY <1>4, <1>5 DEF RoundInv, Somewhere

LEMMA TaskRound ==
  ASSUME SubTypeOK, ClosingInv, RoundInv, gone => gone',
         Carries(posted, "failed") => gone' \/ Carries(posted', "failed"),
         DropTask \/ SetRemoteDescription \/ CreateAnswer \/ SetLocalDescription \/ AddIceCandidate
  PROVE  RoundInv'
<1>0. /\ inbox \in Seq(TaskType) /\ sig \in Seq(TaskType) /\ posted \in Seq(CallType)
      /\ sig # <<>> /\ Head(sig) = sig[1] /\ sig[1] \in TaskType /\ Tail(sig) \in Seq(TaskType)
      /\ UNCHANGED <<inbox, offered, replied, gone>> /\ gone \in BOOLEAN
      /\ applied \in Nat /\ local \in Nat /\ offered \in Nat /\ replied \in Nat
  BY TaskEffects DEF SubTypeOK, lifeVars
<1>1. sig[1].op \in Round =>
        Worked(sig[1]) /\ Quiet(Tail(sig)) /\ Quiet(posted) /\ Quiet(inbox) /\ dropped = 0
  BY <1>0, HeadIsTheStep DEF Worked
<1>2. CASE DropTask
  <2>1. gone' /\ sig' = Tail(sig) /\ UNCHANGED <<posted, applied, local, dropped>>
    BY <1>0, <1>2 DEF DropTask, ClosingInv, peerVars, serverVars
  <2>2. CountInv'
    BY <1>0, <2>1 DEF RoundInv, CountInv
  <2>3. CASE sig[1].op \in Round
    <3>1. Idle'
      BY <1>0, <1>1, <2>1, <2>3 DEF Idle
    <3> QED BY <2>2, <3>1 DEF RoundInv, Somewhere
  <2>4. CASE sig[1].op \notin Round
    <3>1. Keeps(inbox, inbox') /\ Keeps(posted, posted') /\ Keeps(sig, sig')
      BY <1>0, <2>1, <2>4, KeepsFacts
    <3> QED BY <1>0, <2>1, <3>1, RoundKept
  <2> QED BY <2>3, <2>4
<1>3. CASE AddIceCandidate
  <2>1. sig[1].op \notin Round /\ sig' = Tail(sig) /\ UNCHANGED <<posted, applied, local, dropped>>
    BY <1>0, <1>3 DEF AddIceCandidate, Runs, Task, Round, serverVars
  <2>2. Keeps(inbox, inbox') /\ Keeps(posted, posted') /\ Keeps(sig, sig')
    BY <1>0, <2>1, KeepsFacts
  <2> QED BY <1>0, <2>1, <2>2, RoundKept
<1>4. CASE SetRemoteDescription
  <2>1. sig[1].op = "offer" /\ sig[1].op \in Round /\ UNCHANGED <<local, dropped>>
    BY <1>0, <1>4 DEF SetRemoteDescription, Runs, Task, Round, serverVars
  <2>2. CASE Fail /\ UNCHANGED applied
    BY <1>0, <2>1, <2>2, FailRound
  <2>3. CASE ~(Fail /\ UNCHANGED applied)
    <3>1. PICK m \in SUBSET Media : m = Head(sig).media
      BY <1>0, <1>4, HeadTask DEF SetRemoteDescription, Runs, Task
    <3>2. /\ applied' = sig[1].n /\ Notify("subscriber", [op |-> "media", media |-> m])
          /\ sig' = Tail(sig) \o (IF Open THEN <<[op |-> "createAnswer"]>> ELSE <<>>)
      BY <1>0, <1>4, <2>3, <3>1 DEF SetRemoteDescription
    <3>3. Quiet(posted')
      <4> DEFINE d == [op |-> "media", media |-> m]
      <4>1. d \in CallType /\ d.op \notin Round
        BY Members DEF Round
      <4>2. posted' = posted \/ posted' = Append(posted, d)
        BY <3>2 DEF Notify
      <4> HIDE DEF d
      <4> QED BY <1>0, <1>1, <2>1, <4>1, <4>2, RoundAppend
    <3>4. applied' = offered' /\ offered' = replied' + 1
      BY <1>0, <1>1, <2>1, <3>2 DEF Worked
    <3>5. CountInv'
      BY <1>0, <2>1, <3>4 DEF RoundInv, CountInv
    <3>6. CASE Open
      <4> DEFINE d == [op |-> "createAnswer"]
      <4>1. d \in TaskType /\ d.op = "createAnswer" /\ d.op \in Round
        BY Members DEF Round
      <4>2. sig' = Append(Tail(sig), d)
        BY <1>0, <3>2, <3>6, ConcatOne
      <4> HIDE DEF d
      <4>3. Bears(sig', d)
        BY <1>0, <1>1, <2>1, <4>1, <4>2, RoundAppend
      <4>4. Worked(d)'
        BY <1>0, <1>1, <2>1, <3>3, <3>4, <4>1, <4>3 DEF Worked
      <4> QED BY <3>5, <4>1, <4>4 DEF RoundInv, Somewhere
    <3>7. CASE ~Open
      <4>1. sig' = Tail(sig) /\ gone'
        BY <1>0, <3>2, <3>7, ConcatOne DEF Open, ClosingInv
      <4>2. Idle'
        BY <1>0, <1>1, <2>1, <3>3, <4>1 DEF Idle
      <4> QED BY <3>5, <4>2 DEF RoundInv, Somewhere
    <3> QED BY <3>6, <3>7
  <2> QED BY <2>2, <2>3
<1>5. CASE CreateAnswer
  <2>1. sig[1].op = "createAnswer" /\ sig[1].op \in Round /\ UNCHANGED <<applied, local, dropped>>
    BY <1>0, <1>5 DEF CreateAnswer, Runs, Task, Round, peerVars, serverVars
  <2>2. CASE Fail
    BY <1>0, <2>1, <2>2, FailRound
  <2>3. CASE ~Fail
    <3>1. /\ posted' = posted
          /\ sig' = Tail(sig) \o (IF Open THEN <<[op |-> "setLocal", n |-> applied]>> ELSE <<>>)
      BY <1>5, <2>3 DEF CreateAnswer
    <3>2. CountInv'
      BY <1>0, <2>1 DEF RoundInv, CountInv
    <3>3. CASE Open
      <4>0. PICK n \in Nat : n = applied
        BY <1>0
      <4> DEFINE d == [op |-> "setLocal", n |-> n]
      <4>1. d \in TaskType /\ d.op = "setLocal" /\ d.n = n /\ d.op \in Round
        BY Members DEF Round
      <4>2. sig' = Append(Tail(sig), d)
        BY <1>0, <3>1, <3>3, <4>0, ConcatOne
      <4> HIDE DEF d
      <4>3. Bears(sig', d)
        BY <1>0, <1>1, <2>1, <4>1, <4>2, RoundAppend
      <4>4. Worked(d)'
        <5>1. applied = offered /\ offered = replied + 1
          BY <1>1, <2>1 DEF Worked
        <5> QED BY <1>0, <1>1, <2>1, <3>1, <4>0, <4>1, <4>3, <5>1 DEF Worked
      <4> QED BY <3>2, <4>1, <4>4 DEF RoundInv, Somewhere
    <3>4. CASE ~Open
      <4>1. sig' = Tail(sig) /\ gone'
        BY <1>0, <3>1, <3>4, ConcatOne DEF Open, ClosingInv
      <4>2. Idle'
        BY <1>0, <1>1, <2>1, <3>1, <4>1 DEF Idle
      <4> QED BY <3>2, <4>2 DEF RoundInv, Somewhere
    <3> QED BY <3>3, <3>4
  <2> QED BY <2>2, <2>3
<1>6. CASE SetLocalDescription
  <2>1. sig[1].op = "setLocal" /\ sig[1].op \in Round /\ UNCHANGED applied
    BY <1>0, <1>6 DEF SetLocalDescription, Runs, Task, Round
  <2>2. CASE Fail /\ UNCHANGED <<local, dropped>>
    BY <1>0, <2>1, <2>2, FailRound
  <2>3. CASE ~(Fail /\ UNCHANGED <<local, dropped>>)
    <3>1. PICK n \in Nat : n = sig[1].n
      BY <1>0, <2>1, HeadTask
    <3>2. /\ local' = n /\ sig' = Tail(sig)
          /\ \/ UNCHANGED dropped /\ posted' = IF Open THEN Append(posted, [op |-> "answer", n |-> n]) ELSE posted
             \/ dropped' = n /\ UNCHANGED posted
      BY <1>0, <1>6, <2>3, <3>1 DEF SetLocalDescription
    <3>3. n = offered /\ applied = offered /\ offered = replied + 1
      BY <1>1, <2>1, <3>1 DEF Worked
    <3>4. CountInv'
      BY <1>0, <2>1, <3>2, <3>3 DEF RoundInv, CountInv
    <3>5. CASE Open /\ UNCHANGED dropped
      <4> DEFINE d == [op |-> "answer", n |-> n]
      <4>1. d \in CallType /\ d.op = "answer" /\ d.n = n /\ d.op \in Round
        BY Members DEF Round
      <4>2. posted' = Append(posted, d)
        <5>1. n # dropped
          BY <1>0, <1>1, <2>1, <3>3
        <5> QED BY <3>2, <3>5, <5>1
      <4> HIDE DEF d
      <4>3. Bears(posted', d)
        BY <1>0, <1>1, <2>1, <4>1, <4>2, RoundAppend
      <4>4. Answered(d)'
        BY <1>0, <1>1, <2>1, <3>2, <3>3, <3>5, <4>1, <4>3 DEF Answered
      <4> QED BY <3>4, <4>1, <4>4 DEF RoundInv, Somewhere
    <3>6. CASE ~Open /\ UNCHANGED dropped
      <4>1. gone' /\ posted' = posted
        BY <1>0, <3>2, <3>6 DEF Open, ClosingInv
      <4>2. Idle'
        BY <1>0, <1>1, <2>1, <3>2, <3>6, <4>1 DEF Idle
      <4> QED BY <3>4, <4>2 DEF RoundInv, Somewhere
    <3>7. CASE dropped' # dropped
      <4>1. dropped' = offered /\ posted' = posted
        BY <3>2, <3>3, <3>7
      <4>2. offered' # replied'
        BY <1>0, <3>3
      <4>3. Idle'
        BY <1>0, <1>1, <2>1, <3>2, <4>1, <4>2 DEF Idle
      <4> QED BY <3>4, <4>3 DEF RoundInv, Somewhere
    <3> QED BY <3>5, <3>6, <3>7
  <2> QED BY <2>2, <2>3
<1> QED BY <1>2, <1>3, <1>4, <1>5, <1>6

LEMMA RoundStep ==
  ASSUME SubTypeOK, ClosingInv, StateInv, RoundInv, SubNext
  PROVE  RoundInv'
<1>0. /\ inbox \in Seq(TaskType) /\ sig \in Seq(TaskType) /\ posted \in Seq(CallType)
      /\ applied \in Nat /\ local \in Nat /\ offered \in Nat /\ replied \in Nat /\ gone \in BOOLEAN
  BY DEF SubTypeOK
<1>a. /\ gone => gone'
      /\ Carries(posted, "failed") => gone' \/ Carries(posted', "failed")
  BY FailureIsKept
<1>b. Keeps(inbox, inbox) /\ Keeps(sig, sig) /\ Keeps(posted, posted)
  BY <1>0, KeepsFacts
<1>1. CASE OnOffer
  <2>1. /\ inbox # <<>> /\ Head(inbox) = inbox[1] /\ inbox[1] \in TaskType /\ inbox[1].op = "offer"
        /\ inbox' = Tail(inbox)
        /\ \/ UNCHANGED dropped /\ sig' = IF ~gone /\ Open THEN Append(sig, inbox[1]) ELSE sig
           \/ dropped' = inbox[1].n /\ UNCHANGED sig
        /\ UNCHANGED <<posted, offered, replied, applied, local, gone>>
    <3>1. inbox # <<>>
      BY <1>1 DEF OnOffer, Receive
    <3>2. Head(inbox) = inbox[1] /\ inbox[1] \in TaskType
      BY <1>0, <3>1, TailFacts
    <3> QED BY <1>1, <3>1, <3>2 DEF OnOffer, Receive, peerVars, lifeVars
  <2>2. inbox[1].op \in Round
    BY <2>1 DEF Round
  <2>3. Comes(inbox[1]) /\ Quiet(Tail(inbox))
    BY <2>1, <2>2, HeadIsTheStep
  <2>4. Quiet(sig) /\ Quiet(posted) /\ offered = replied + 1 /\ dropped = 0 /\ inbox[1].n = offered
    BY <2>3 DEF Comes
  <2>8. offered # replied /\ offered # 0
    BY <1>0, <2>4
  <2>5. CountInv'
    BY <2>1 DEF RoundInv, CountInv
  <2>6. CASE ~gone /\ Open /\ UNCHANGED dropped
    <3>1. Bears(sig', inbox[1])
      BY <1>0, <2>1, <2>2, <2>4, <2>6, <2>8, RoundAppend
    <3>2. PICK c \in TaskType : c = inbox[1]
      BY <2>1
    <3>3. Worked(c)'
      BY <2>1, <2>3, <2>4, <2>6, <3>1, <3>2 DEF Worked
    <3> QED BY <2>5, <3>3 DEF RoundInv, Somewhere
  <2>7. CASE ~(~gone /\ Open) /\ UNCHANGED dropped
    <3>1. gone' /\ sig' = sig
      BY <2>1, <2>7 DEF Open, ClosingInv
    <3>2. Idle'
      BY <2>1, <2>3, <2>4, <2>7, <3>1 DEF Idle
    <3> QED BY <2>5, <3>2 DEF RoundInv, Somewhere
  <2>9. CASE dropped' # dropped
    <3>1. dropped' = offered /\ sig' = sig
      BY <2>1, <2>4, <2>9
    <3>2. Idle'
      BY <2>1, <2>3, <2>4, <2>8, <3>1 DEF Idle
    <3> QED BY <2>5, <3>2 DEF RoundInv, Somewhere
  <2> QED BY <2>6, <2>7, <2>9
<1>2. CASE OnTrickle
  <2>1. /\ inbox # <<>> /\ Head(inbox) = inbox[1] /\ inbox[1] \in TaskType /\ inbox[1].op = "candidate"
        /\ inbox' = Tail(inbox) /\ (sig' = sig \/ sig' = Append(sig, inbox[1]))
        /\ UNCHANGED <<posted, offered, replied, dropped, applied, local>>
    <3>1. inbox # <<>>
      BY <1>2 DEF OnTrickle, Receive
    <3>2. Head(inbox) = inbox[1] /\ inbox[1] \in TaskType
      BY <1>0, <3>1, TailFacts
    <3> QED BY <1>2, <3>1, <3>2 DEF OnTrickle, Receive, serverVars
  <2>2. inbox[1].op \notin Round
    BY <2>1 DEF Round
  <2>3. Keeps(inbox, inbox') /\ Keeps(sig, sig')
    BY <1>0, <1>b, <2>1, <2>2, KeepsFacts
  <2> QED BY <1>a, <1>b, <2>1, <2>3, RoundKept
<1>3. CASE DropTask \/ SetRemoteDescription \/ CreateAnswer \/ SetLocalDescription \/ AddIceCandidate
  BY <1>3, <1>a, TaskRound
<1>4. ASSUME NEW t \in {"signaling", "closer"}, ExchangeState(t) PROVE RoundInv'
  <2>1. reading[t] \in States /\ UNCHANGED <<inbox, sig, offered, replied, dropped, applied, local>>
    BY <1>4 DEF ExchangeState, SubTypeOK, States, serverVars, peerVars
  <2>2. PICK c \in CallType : c = StateCall(reading[t])
    BY <2>1, Members
  <2>3. posted' = posted \/ posted' = Append(posted, c)
    BY <1>4, <2>2 DEF ExchangeState
  <2>4. c.op \notin Round
    BY <2>2 DEF StateCall, Round
  <2>5. Keeps(posted, posted')
    BY <1>0, <1>b, <2>3, <2>4, KeepsFacts
  <2> QED BY <1>a, <1>b, <2>1, <2>5, RoundKept
<1>5. CASE Disconnect
  <2> DEFINE d == [op |-> "disconnected"]
  <2>1. d \in CallType /\ d.op \notin Round
    BY Members DEF Round
  <2>2. posted' = Append(posted, d) /\ UNCHANGED <<inbox, sig, offered, replied, dropped, applied, local>>
    BY <1>5 DEF Disconnect, serverVars, peerVars
  <2> HIDE DEF d
  <2>3. Keeps(posted, posted')
    BY <1>0, <2>1, <2>2, KeepsFacts
  <2> QED BY <1>a, <1>b, <2>2, <2>3, RoundKept
<1>6. ASSUME NEW x \in Targets, NEW s \in Links \ {"New"}, PeerChanges(x, s) PROVE RoundInv'
  <2>1. UNCHANGED <<inbox, sig, posted, offered, replied, dropped, applied, local>>
    BY <1>6 DEF PeerChanges, serverVars, peerVars
  <2> QED BY <1>a, <1>b, <2>1, RoundKept
<1>7. CASE Closer /\ ~ExchangeState("closer")
  <2>1. UNCHANGED <<inbox, sig, posted, offered, replied, dropped, applied, local>>
    BY <1>7 DEF Closer, Dispose, ForceSignaling, ResetListener, UpdateAtEnd, Destroy, serverVars, peerVars
  <2> QED BY <1>a, <1>b, <2>1, RoundKept
<1>8. CASE Events
  <2>1. /\ posted # <<>> /\ Head(posted) = posted[1]
        /\ posted' = Tail(posted) \/ posted' = Append(Tail(posted), [op |-> "disconnected"])
        /\ UNCHANGED <<inbox, sig, offered, applied, local>>
    BY <1>8, EventEffects DEF Makes, MakesAndPosts, peerVars
  <2>2. CASE OnSubscriberAnswer
    <3>1. /\ posted[1].op = "answer" /\ posted' = Tail(posted) /\ UNCHANGED gone
          /\ IF Lives /\ ~gone /\ state # "Closed"
             THEN \/ replied' = posted[1].n /\ UNCHANGED dropped
                  \/ dropped' = posted[1].n /\ UNCHANGED replied
             ELSE UNCHANGED <<replied, dropped>>
      BY <2>1, <2>2 DEF OnSubscriberAnswer, Deliver, lifeVars
    <3>2. Answered(posted[1]) /\ Quiet(posted')
      BY <2>1, <3>1, HeadIsTheStep DEF Round
    <3>3. /\ Quiet(inbox) /\ Quiet(sig) /\ posted[1].n = offered /\ applied = offered
          /\ offered = replied + 1 /\ dropped = 0
      BY <3>2 DEF Answered
    <3>4. gone \/ (Lives /\ state # "Closed")
      BY DEF Lives, ClosingInv, StateInv, Links
    <3>5. \/ replied' = offered /\ dropped' = 0
          \/ replied' = replied /\ dropped' = offered
          \/ gone /\ replied' = replied /\ dropped' = 0
      BY <3>1, <3>3, <3>4
    <3>8. replied # offered
      BY <1>0, <3>3
    <3>6. CountInv'
      BY <1>0, <2>1, <3>3, <3>5 DEF RoundInv, CountInv
    <3>7. Idle'
      BY <2>1, <3>1, <3>2, <3>3, <3>5, <3>8 DEF Idle
    <3> QED BY <3>6, <3>7 DEF RoundInv, Somewhere
  <2>3. CASE ~OnSubscriberAnswer
    <3>1. posted[1].op \notin Round /\ UNCHANGED <<replied, dropped>>
      BY <1>8, <2>1, <2>3 DEF Events, OnMedia, OnSdpOperationFailed, OnStateChange, OnTransportDisconnected,
           Deliver, serverVars, Round
    <3> DEFINE d == [op |-> "disconnected"]
    <3>2. d \in CallType /\ d.op \notin Round
      BY Members DEF Round
    <3>3. posted' = Tail(posted) \/ posted' = Append(Tail(posted), d)
      BY <2>1
    <3> HIDE DEF d
    <3>4. Keeps(posted, posted')
      BY <1>0, <2>1, <3>1, <3>2, <3>3, KeepsFacts
    <3> QED BY <1>a, <1>b, <2>1, <3>1, <3>4, RoundKept
  <2> QED BY <2>2, <2>3
<1>9. CASE ServerTrickles
  <2> DEFINE d == [op |-> "candidate"]
  <2>1. d \in TaskType /\ d.op \notin Round
    BY Members DEF Round
  <2>2. inbox' = Append(inbox, d) /\ UNCHANGED <<sig, posted, offered, replied, dropped, applied, local>>
    BY <1>9 DEF ServerTrickles, serverVars
  <2> HIDE DEF d
  <2>3. Keeps(inbox, inbox')
    BY <1>0, <2>1, <2>2, KeepsFacts
  <2> QED BY <1>a, <1>b, <2>2, <2>3, RoundKept
<1>10. ASSUME NEW media \in SUBSET Media, ServerOffers(media) PROVE RoundInv'
  <2>0. PICK n \in Nat : n = offered + 1
    BY <1>0
  <2> DEFINE d == [op |-> "offer", n |-> n, media |-> media]
  <2>1. replied = offered /\ offered' = offered + 1 /\ inbox' = Append(inbox, d)
        /\ UNCHANGED <<sig, posted, replied, dropped, applied, local>>
    BY <1>10, <2>0 DEF ServerOffers, peerVars
  <2>2. offered # replied + 1
    BY <1>0, <2>1
  <2>3. d \in TaskType /\ d.op = "offer" /\ d.n = n /\ d.op \in Round
    BY Members DEF Round
  <2> HIDE DEF d
  <2>4. Idle
    BY <2>2 DEF RoundInv, Somewhere, Comes, Worked, Answered
  <2>5. Bears(inbox', d)
    BY <1>0, <2>1, <2>3, <2>4, RoundAppend DEF Idle
  <2>6. Comes(d)'
    BY <2>0, <2>1, <2>3, <2>4, <2>5 DEF Comes, Idle
  <2>7. CountInv'
    BY <1>0, <2>1 DEF RoundInv, CountInv
  <2> QED BY <2>3, <2>6, <2>7 DEF RoundInv, Somewhere
<1> QED BY <1>1, <1>2, <1>3, <1>4, <1>5, <1>6, <1>7, <1>8, <1>9, <1>10 DEF SubNext, Signaling, Server

----------------------------------------------------------------------------
(* Before the first offer is applied each candidate is behind an offer,    *)
(* unless that was dropped.                                                *)

Before(q, i) == \E j \in DOMAIN q : j < i /\ q[j].op = "offer"
Behind(q, b) == \A i \in DOMAIN q : q[i].op = "candidate" => b \/ Before(q, i)

CandidateInv ==
  /\ candidate = "failed" => gone \/ dropped # 0 \/ Carries(posted, "failed")
  /\ ~gone /\ applied = 0 /\ dropped = 0 /\ ~Carries(posted, "failed") =>
       Behind(sig, FALSE) /\ Behind(inbox, Carries(sig, "offer"))

LEMMA BehindAppend ==
  ASSUME NEW S, NEW q \in Seq(S), NEW d \in S, NEW b \in BOOLEAN,
         Behind(q, b), d.op = "candidate" => b \/ Carries(q, "offer")
  PROVE  Behind(Append(q, d), b)
<1> DEFINE p == Append(q, d)
           n == Len(q)
<1>1. /\ n \in Nat /\ DOMAIN p = DOMAIN q \cup {n + 1} /\ p[n + 1] = d
      /\ \A i \in DOMAIN q : i \in Nat \ {0} /\ i <= n /\ p[i] = q[i]
  BY AppendFacts
<1> HIDE DEF p, n
<1>2. ASSUME NEW i \in DOMAIN p, p[i].op = "candidate", ~b PROVE Before(p, i)
  <2>1. CASE i \in DOMAIN q
    <3>1. Before(q, i)
      BY <1>1, <1>2, <2>1 DEF Behind
    <3> QED BY <1>1, <3>1 DEF Before
  <2>2. CASE i \notin DOMAIN q
    <3>1. i = n + 1 /\ Carries(q, "offer")
      BY <1>1, <1>2, <2>2
    <3> QED BY <1>1, <3>1 DEF Before, Carries
  <2> QED BY <2>1, <2>2
<1> QED BY <1>2 DEF Behind, p

LEMMA BehindTail ==
  ASSUME NEW S, NEW q \in Seq(S), q # <<>>, NEW b \in BOOLEAN, Behind(q, b)
  PROVE  /\ q[1].op = "candidate" => b
         /\ q[1].op # "offer" => Behind(Tail(q), b)
<1> DEFINE p == Tail(q)
<1>1. /\ 1 \in DOMAIN q
      /\ \A i \in DOMAIN p : i \in Nat \ {0} /\ i + 1 \in DOMAIN q /\ p[i] = q[i + 1]
      /\ \A i \in DOMAIN q : i \in Nat \ {0} /\ (i # 1 => i - 1 \in DOMAIN p /\ p[i - 1] = q[i])
  BY TailFacts
<1> HIDE DEF p
<1>2. ASSUME q[1].op = "candidate" PROVE b
  <2>1. b \/ Before(q, 1)
    BY <1>1, <1>2 DEF Behind
  <2>2. ~Before(q, 1)
    <3>1. \A j \in DOMAIN q : ~(j < 1)
      BY <1>1
    <3> QED BY <3>1 DEF Before
  <2> QED BY <2>1, <2>2
<1>3. ASSUME q[1].op # "offer" PROVE Behind(p, b)
  <2> SUFFICES ASSUME NEW i \in DOMAIN p, p[i].op = "candidate", ~b PROVE Before(p, i)
    BY DEF Behind
  <2>1. PICK j \in DOMAIN q : j < i + 1 /\ q[j].op = "offer"
    BY <1>1 DEF Behind, Before
  <2>2. i \in Nat /\ j \in Nat /\ j # 1 /\ j - 1 \in DOMAIN p /\ p[j - 1] = q[j]
    BY <1>1, <1>3, <2>1
  <2>3. j - 1 < i
    BY <2>1, <2>2
  <2> QED BY <2>1, <2>2, <2>3 DEF Before
<1> QED BY <1>2, <1>3 DEF p

\* The offer that is dropped is not the zeroth, and stays dropped.
LEMMA DropIsKept ==
  ASSUME SubTypeOK, RoundInv, SubNext
  PROVE  /\ dropped # 0 => dropped' # 0
         /\ OnOffer /\ dropped' = 0 => UNCHANGED dropped /\ sig' = IF ~gone /\ Open THEN Append(sig, Head(inbox)) ELSE sig
<1>0. /\ inbox \in Seq(TaskType) /\ sig \in Seq(TaskType) /\ posted \in Seq(CallType)
      /\ offered \in Nat /\ replied \in Nat
  BY DEF SubTypeOK
<1>1. ASSUME OnOffer PROVE Head(inbox).n # 0
  <2>1. inbox # <<>> /\ Head(inbox) = inbox[1] /\ inbox[1].op = "offer"
    BY <1>0, <1>1, TailFacts DEF OnOffer, Receive
  <2>2. Comes(inbox[1])
    BY <2>1, HeadIsTheStep DEF Round
  <2> QED BY <1>0, <2>1, <2>2 DEF Comes
<1>2. ASSUME SetLocalDescription PROVE Head(sig).n # 0
  <2>1. sig # <<>> /\ Head(sig) = sig[1] /\ sig[1].op = "setLocal"
    BY <1>0, <1>2, TailFacts DEF SetLocalDescription, Runs, Task
  <2>2. Worked(sig[1])
    BY <2>1, HeadIsTheStep DEF Round
  <2> QED BY <1>0, <2>1, <2>2 DEF Worked
<1>3. ASSUME OnSubscriberAnswer PROVE Head(posted).n # 0
  <2>1. posted # <<>> /\ Head(posted) = posted[1] /\ posted[1].op = "answer"
    BY <1>0, <1>3, TailFacts DEF OnSubscriberAnswer, Deliver
  <2>2. Answered(posted[1])
    BY <2>1, HeadIsTheStep DEF Round
  <2> QED BY <1>0, <2>1, <2>2 DEF Answered
<1>4. OnOffer \/ SetLocalDescription \/ OnSubscriberAnswer \/ UNCHANGED dropped
  BY DEF SubNext, OnTrickle, Signaling, DropTask, SetRemoteDescription, CreateAnswer,
     AddIceCandidate, ExchangeState, PeerChanges, Closer, Dispose, ForceSignaling,
     ResetListener, UpdateAtEnd, Destroy, Events, OnMedia, OnSdpOperationFailed,
     OnStateChange, OnTransportDisconnected, Disconnect, Server, ServerTrickles, ServerOffers, serverVars
<1> QED BY <1>1, <1>2, <1>3, <1>4 DEF OnOffer, SetLocalDescription, OnSubscriberAnswer

LEMMA CandidateStep ==
  ASSUME SubTypeOK, ClosingInv, RoundInv, CandidateInv, SubNext
  PROVE  CandidateInv'
<1>0. /\ inbox \in Seq(TaskType) /\ sig \in Seq(TaskType) /\ posted \in Seq(CallType)
      /\ applied \in Nat /\ offered \in Nat /\ replied \in Nat /\ gone \in BOOLEAN
  BY DEF SubTypeOK
<1>a. /\ gone => gone'
      /\ Carries(posted, "failed") => gone' \/ Carries(posted', "failed")
      /\ dropped # 0 => dropped' # 0
  BY FailureIsKept, DropIsKept
<1>b. sig # <<>> => sig[1] \in TaskType /\ Head(sig) = sig[1]
  BY <1>0, TailFacts
\* A step of the round is of an offer.
<1>c. sig # <<>> /\ sig[1].op \in Round => Worked(sig[1]) /\ offered # 0
  <2>1. sig # <<>> /\ sig[1].op \in Round => Worked(sig[1])
    BY HeadIsTheStep
  <2> QED BY <1>0, <2>1 DEF Worked
<1>d. Carries(sig, "offer") \in BOOLEAN
  BY DEF Carries
<1>1. candidate' = "failed" => gone' \/ dropped' # 0 \/ Carries(posted', "failed")
  <2>1. CASE candidate' = "failed" /\ candidate # "failed"
    <3>1. AddIceCandidate /\ applied = 0
      BY <2>1 DEF SubNext, OnOffer, OnTrickle, Signaling, DropTask, SetRemoteDescription, CreateAnswer,
         SetLocalDescription, AddIceCandidate, ExchangeState, PeerChanges, Closer, Dispose, ForceSignaling,
         ResetListener, UpdateAtEnd, Destroy, Events, OnSubscriberAnswer, OnMedia, OnSdpOperationFailed,
         OnStateChange, OnTransportDisconnected, Disconnect, Server, ServerTrickles, ServerOffers, peerVars
    <3>2. sig # <<>> /\ sig[1].op = "candidate"
      BY <1>b, <3>1 DEF AddIceCandidate, Runs, Task
    <3>3. ~Behind(sig, FALSE)
      BY <1>0, <3>2, BehindTail
    <3> QED BY <1>a, <3>1, <3>3 DEF CandidateInv
  <2>2. CASE candidate = "failed"
    BY <1>a, <2>2 DEF CandidateInv
  <2> QED BY <2>1, <2>2
<1>2. ASSUME ~gone', applied' = 0, dropped' = 0, ~Carries(posted', "failed")
      PROVE  Behind(sig', FALSE) /\ Behind(inbox', Carries(sig', "offer"))
  <2>1. ~gone /\ dropped = 0 /\ ~Carries(posted, "failed") /\ Open
    BY <1>a, <1>2 DEF Open, ClosingInv
  <2>2. CASE DropTask \/ SetRemoteDescription \/ CreateAnswer \/ SetLocalDescription \/ AddIceCandidate
    <3>0. sig # <<>> /\ UNCHANGED gone
      BY <2>2, TaskEffects DEF lifeVars
    <3>1. Fail => Carries(posted', "failed")
      <4>1. [op |-> "failed"] \in CallType /\ [op |-> "failed"].op = "failed"
        BY Members
      <4>2. Carries(Append(posted, [op |-> "failed"]), "failed")
        BY <1>0, <4>1, RoundAppend
      <4> QED BY <2>1, <4>2 DEF Fail
    <3>2. ~DropTask
      BY <2>1 DEF DropTask, ClosingInv
    <3>3. ~SetRemoteDescription
      <4> SUFFICES ASSUME SetRemoteDescription PROVE FALSE
        OBVIOUS
      <4>1. sig[1].op = "offer" /\ sig[1].op \in Round
        BY <1>b, <3>0 DEF SetRemoteDescription, Runs, Task, Round
      <4>2. sig[1].n = offered /\ offered # 0
        BY <1>c, <3>0, <4>1 DEF Worked
      <4>3. Fail \/ applied' = sig[1].n
        BY <1>b, <3>0 DEF SetRemoteDescription
      <4> QED BY <1>2, <3>1, <4>2, <4>3
    <3>4. ~(CreateAnswer \/ SetLocalDescription)
      <4> SUFFICES ASSUME CreateAnswer \/ SetLocalDescription PROVE FALSE
        OBVIOUS
      <4>1. sig[1].op \in {"createAnswer", "setLocal"} /\ sig[1].op \in Round /\ applied' = applied
        BY <1>b, <3>0 DEF CreateAnswer, SetLocalDescription, Runs, Task, Round, peerVars
      <4> QED BY <1>2, <1>c, <3>0, <4>1 DEF Worked
    <3>5. ~AddIceCandidate
      <4> SUFFICES ASSUME AddIceCandidate PROVE FALSE
        OBVIOUS
      <4>1. sig[1].op = "candidate" /\ applied' = applied
        BY <1>b, <3>0 DEF AddIceCandidate, Runs, Task
      <4>2. Behind(sig, FALSE)
        BY <1>2, <2>1, <4>1 DEF CandidateInv
      <4> QED BY <1>0, <3>0, <4>1, <4>2, BehindTail
    <3> QED BY <2>2, <3>2, <3>3, <3>4, <3>5
  <2>3. CASE ~(DropTask \/ SetRemoteDescription \/ CreateAnswer \/ SetLocalDescription \/ AddIceCandidate)
    <3>0. applied' = applied
      BY <2>3 DEF SubNext, OnOffer, OnTrickle, Signaling, ExchangeState, PeerChanges, Closer, Dispose,
         ForceSignaling, ResetListener, UpdateAtEnd, Destroy, Events, OnSubscriberAnswer, OnMedia,
         OnSdpOperationFailed, OnStateChange, OnTransportDisconnected, Disconnect, Server, ServerTrickles,
         ServerOffers, peerVars
    <3>1. Behind(sig, FALSE) /\ Behind(inbox, Carries(sig, "offer"))
      BY <1>2, <2>1, <3>0 DEF CandidateInv
    <3>2. CASE OnOffer
      <4>1. /\ inbox # <<>> /\ Head(inbox).op = "offer" /\ sig' = Append(sig, Head(inbox))
        BY <1>2, <2>1, <3>2, DropIsKept DEF OnOffer, Receive
      <4>2. PICK d \in TaskType : d = Head(inbox)
        BY <1>0, <4>1, TailFacts
      <4>3. d.op = "offer" /\ sig' = Append(sig, d)
        BY <4>1, <4>2
      <4>4. Behind(sig', FALSE) /\ Carries(sig', "offer")
        BY <1>0, <3>1, <4>3, BehindAppend, RoundAppend
      <4> QED BY <4>4 DEF Behind
    <3>3. CASE OnTrickle
      <4>1. /\ inbox # <<>> /\ Head(inbox).op = "candidate" /\ inbox' = Tail(inbox)
            /\ sig' = Append(sig, Head(inbox)) \/ sig' = sig
        BY <2>1, <3>3 DEF OnTrickle, Receive
      <4>2. PICK d \in TaskType : d = Head(inbox) /\ Head(inbox) = inbox[1]
        BY <1>0, <4>1, TailFacts
      <4>3. Carries(sig, "offer")
        BY <1>0, <1>d, <3>1, <4>1, <4>2, BehindTail
      <4>4. Behind(sig', FALSE) /\ Carries(sig', "offer")
        <5>1. Behind(Append(sig, d), FALSE)
          BY <1>0, <3>1, <4>3, BehindAppend
        <5>2. Carries(Append(sig, d), "offer")
          BY <1>0, <4>3, RoundAppend
        <5> QED BY <3>1, <4>1, <4>2, <4>3, <5>1, <5>2
      <4> QED BY <4>4 DEF Behind
    <3>4. CASE ServerTrickles
      <4> DEFINE d == [op |-> "candidate"]
      <4>1. d \in TaskType
        BY Members
      <4>2. inbox' = Append(inbox, d) /\ sig' = sig /\ offered # 0
        BY <1>0, <3>4 DEF ServerTrickles
      <4> HIDE DEF d
      <4>3. Carries(sig, "offer") \/ Carries(inbox, "offer")
        <5>1. ~Idle
          BY <1>0, <1>2, <2>1, <3>0, <4>2 DEF Idle, RoundInv, CountInv
        <5>2. applied # offered
          BY <1>2, <3>0, <4>2
        <5>3. PICK c \in TaskType : Comes(c) \/ Worked(c)
          BY <5>1, <5>2 DEF RoundInv, Somewhere, Answered
        <5>4. CASE Comes(c)
          BY <5>4 DEF Comes, Bears, Carries
        <5>5. CASE Worked(c)
          <6>1. c.op = "offer"
            <7>1. c.op \in {"candidate", "createAnswer", "setLocal", "offer"} /\ c.op \in Round
              BY <5>5 DEF TaskType, Worked, Bears
            <7> QED BY <5>2, <5>5, <7>1 DEF Worked, Round
          <6> QED BY <5>5, <6>1 DEF Worked, Bears, Carries
        <5> QED BY <5>3, <5>4, <5>5
      <4>4. Behind(Append(inbox, d), Carries(sig, "offer"))
        BY <1>0, <1>d, <3>1, <4>1, <4>3, BehindAppend
      <4> QED BY <3>1, <4>2, <4>4
    <3>5. ASSUME NEW media \in SUBSET Media, ServerOffers(media)
          PROVE  Behind(sig', FALSE) /\ Behind(inbox', Carries(sig', "offer"))
      <4>0. PICK n \in Nat : n = offered + 1
        BY <1>0
      <4> DEFINE d == [op |-> "offer", n |-> n, media |-> media]
      <4>1. d \in TaskType /\ d.op = "offer"
        BY Members
      <4>2. inbox' = Append(inbox, d) /\ sig' = sig
        BY <3>5, <4>0 DEF ServerOffers
      <4> HIDE DEF d
      <4>3. Behind(Append(inbox, d), Carries(sig, "offer"))
        BY <1>0, <1>d, <3>1, <4>1, BehindAppend
      <4> QED BY <3>1, <4>2, <4>3
    <3>6. CASE UNCHANGED <<sig, inbox>>
      BY <3>1, <3>6
    <3>7. OnOffer \/ OnTrickle \/ Server \/ UNCHANGED <<sig, inbox>>
      BY <2>3 DEF SubNext, Signaling, ExchangeState, PeerChanges, Closer, Dispose,
         ForceSignaling, ResetListener, UpdateAtEnd, Destroy, Events, OnSubscriberAnswer, OnMedia,
         OnSdpOperationFailed, OnStateChange, OnTransportDisconnected, Disconnect
    <3> QED BY <3>2, <3>3, <3>4, <3>5, <3>6, <3>7 DEF Server
  <2> QED BY <2>2, <2>3
<1> QED BY <1>1, <1>2 DEF CandidateInv

----------------------------------------------------------------------------
(* The server is answered.                                                 *)

ServerInv == UserInv /\ RoundInv /\ CandidateInv

LEMMA ServerInit ==
  ASSUME SubInit
  PROVE  ServerInv
<1>1. \A i \in DOMAIN inbox \cup DOMAIN sig \cup DOMAIN posted : FALSE
  BY DEF SubInit
<1>2. RoundInv
  <2>1. Idle
    BY <1>1 DEF SubInit, Idle, Quiet
  <2> QED BY <2>1 DEF SubInit, RoundInv, Somewhere, CountInv
<1>3. CandidateInv
  BY <1>1 DEF SubInit, CandidateInv, Behind
<1> QED BY <1>2, <1>3, UserInit DEF ServerInv

LEMMA ServerStutter ==
  ASSUME ServerInv, UNCHANGED subVars
  PROVE  ServerInv'
<1>1. UNCHANGED <<inbox, sig, posted, applied, local, candidate, gone, offered, replied, dropped>>
  BY DEF subVars, peerVars, lifeVars, serverVars
<1>2. RoundInv'
  BY <1>1 DEF ServerInv, RoundInv, Somewhere, CountInv, Idle, Comes, Worked, Answered
<1>3. CandidateInv'
  BY <1>1 DEF ServerInv, CandidateInv
<1> QED BY <1>2, <1>3, UserStutter DEF ServerInv

LEMMA ServerInvariance == SubSpec => []ServerInv
<1>1. ServerInv /\ [SubNext]_subVars => ServerInv'
  <2>1. ASSUME ServerInv, SubNext PROVE ServerInv'
    BY <2>1, TypeStep, ClosingStep, ToldStep, OverStep, RoundStep, CandidateStep DEF ServerInv, UserInv
  <2> QED BY <2>1, ServerStutter
<1> QED BY <1>1, ServerInit, PTL DEF SubSpec

\* No step between the socket and the socket loses an offer: until the server has its answer the
\* offer or the answer is in one of the queues, or a failure is, which ends the session, or it was
\* given up where the code does no more than log. What is answered is the last offer, after one that
\* was given up there is no other, and no candidate comes before the first: for any tracks, any
\* number of offers and any moment at which the manager is closed.
THEOREM OffersAreAnswered == SubSpec => []OfferIsAnswered
<1>1. ServerInv => OfferIsAnswered
  <2> SUFFICES ASSUME ServerInv PROVE OfferIsAnswered
    OBVIOUS
  <2>1. ASSUME offered # replied, ~gone, dropped # offered
        PROVE  \/ Carries(inbox, "offer") \/ Carries(sig, "offer") \/ Carries(sig, "createAnswer")
               \/ Carries(sig, "setLocal") \/ Carries(posted, "answer") \/ Carries(posted, "failed")
    <3>1. CASE Idle
      BY <2>1, <3>1 DEF Idle
    <3>2. ASSUME NEW c \in TaskType, Comes(c) PROVE Carries(inbox, "offer")
      BY <3>2 DEF Comes, Bears, Carries
    <3>3. ASSUME NEW c \in TaskType, Worked(c)
          PROVE  Carries(sig, "offer") \/ Carries(sig, "createAnswer") \/ Carries(sig, "setLocal")
      <4>1. c.op \in {"candidate", "createAnswer", "setLocal", "offer"} /\ c.op \in Round
        BY <3>3 DEF TaskType, Worked, Bears
      <4>2. Carries(sig, c.op)
        BY <3>3 DEF Worked, Bears, Carries
      <4> QED BY <4>1, <4>2 DEF Round
    <3>4. ASSUME NEW c \in CallType, Answered(c) PROVE Carries(posted, "answer")
      <4>1. c.op \in {"failed", "disconnected", "answer", "media", "state"} /\ c.op \in Round
        BY <3>4 DEF CallType, Answered, Bears
      <4>2. Carries(posted, c.op)
        BY <3>4 DEF Answered, Bears, Carries
      <4> QED BY <4>1, <4>2 DEF Round
    <3> QED BY <3>1, <3>2, <3>3, <3>4 DEF ServerInv, RoundInv, Somewhere
  <2>2. replied <= offered /\ local <= applied /\ offered <= replied + 1
    BY DEF ServerInv, UserInv, SubTypeOK, RoundInv, CountInv
  <2>3. candidate = "failed" => gone \/ dropped # 0 \/ Carries(posted, "failed")
    BY DEF ServerInv, CandidateInv
  <2>4. dropped # 0 => dropped = offered /\ replied # offered
    BY DEF ServerInv, RoundInv, Somewhere, Idle, Comes, Worked, Answered
  <2> QED BY <2>1, <2>2, <2>3, <2>4 DEF OfferIsAnswered
<1> QED BY <1>1, ServerInvariance, PTL
=============================================================================
