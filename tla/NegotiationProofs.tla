-------------------------- MODULE NegotiationProofs --------------------------
(***************************************************************************)
(* Proofs about Negotiation for every set of tracks, with or without the   *)
(* debounce delay and whatever may fail: type correctness, that no change  *)
(* of the published tracks is lost, that an armed debounce has a task to   *)
(* fire it, and that no offer leaves before the data channels exist.       *)
(*                                                                         *)
(* The invariants are not inductive alone. Inv adds what the code relies   *)
(* on without saying it: the flag and the closing of a manager follow the  *)
(* exchange of _pcManager, a channel is counted after it is created, and   *)
(* only a thread that saw both channels counted is about to offer.         *)
(***************************************************************************)
EXTENDS Negotiation, TLAPS

(***************************************************************************)
(* Facts about the two operations on queues.                               *)
(***************************************************************************)

\* What the first task of a queue and the rest of it are.
LEMMA TailFacts ==
  ASSUME NEW S, NEW s \in Seq(S), s # <<>>
  PROVE  /\ Tail(s) \in Seq(S)
         /\ Head(s) = s[1]
         /\ Head(s) \in S
         /\ Len(s) \in Nat \ {0}
         /\ Len(Tail(s)) = Len(s) - 1
         /\ \A i \in 1..(Len(s) - 1) : Tail(s)[i] = s[i + 1]
  OBVIOUS

\* What a queue is after a task is posted to it.
LEMMA AppendFacts ==
  ASSUME NEW S, NEW s \in Seq(S), NEW e \in S
  PROVE  /\ Append(s, e) \in Seq(S)
         /\ Len(s) \in Nat
         /\ Len(Append(s, e)) = Len(s) + 1
         /\ \A i \in 1..Len(s) : Append(s, e)[i] = s[i]
         /\ Append(s, e)[Len(s) + 1] = e
  OBVIOUS

Has(s, op) == \E i \in 1..Len(s) : s[i].op = op

\* Running the first task leaves the others in the queue.
LEMMA HasAfterTail ==
  ASSUME NEW S, NEW s \in Seq(S), s # <<>>, NEW op
  PROVE  /\ Has(Tail(s), op) => Has(s, op)
         /\ Has(s, op) /\ Head(s).op # op => Has(Tail(s), op)
<1>1. ASSUME NEW i \in 1..Len(Tail(s)), Tail(s)[i].op = op
      PROVE  Has(s, op)
  <2>1. i + 1 \in 1..Len(s) /\ s[i + 1].op = op
    BY <1>1, TailFacts
  <2>2. QED  BY <2>1 DEF Has
<1>2. ASSUME NEW i \in 1..Len(s), s[i].op = op, Head(s).op # op
      PROVE  Has(Tail(s), op)
  <2>1. i # 1
    BY <1>2, TailFacts
  <2>2. i - 1 \in 1..Len(Tail(s)) /\ Tail(s)[i - 1] = s[i]
    BY <2>1, TailFacts
  <2>3. QED  BY <1>2, <2>2 DEF Has
<1>3. QED  BY <1>1, <1>2 DEF Has

\* Posting a task adds that task and no other.
LEMMA HasAfterAppend ==
  ASSUME NEW S, NEW s \in Seq(S), NEW e \in S, NEW op
  PROVE  Has(Append(s, e), op) <=> Has(s, op) \/ e.op = op
<1>1. ASSUME NEW i \in 1..Len(Append(s, e)), Append(s, e)[i].op = op, e.op # op
      PROVE  Has(s, op)
  <2>1. i \in 1..Len(s) /\ Append(s, e)[i] = s[i]
    BY <1>1, AppendFacts
  <2>2. QED  BY <1>1, <2>1 DEF Has
<1>2. ASSUME NEW i \in 1..Len(s), s[i].op = op
      PROVE  Has(Append(s, e), op)
  <2>1. i \in 1..Len(Append(s, e)) /\ Append(s, e)[i] = s[i]
    BY AppendFacts
  <2>2. QED  BY <1>2, <2>1 DEF Has
<1>3. ASSUME e.op = op
      PROVE  Has(Append(s, e), op)
  <2>1. Len(s) + 1 \in 1..Len(Append(s, e)) /\ Append(s, e)[Len(s) + 1] = e
    BY AppendFacts
  <2>2. QED  BY <1>3, <2>1 DEF Has
<1>4. QED  BY <1>1, <1>2, <1>3 DEF Has

\* Creations of data channels are at the front of a queue, no more of them
\* than there are channels left to create when d exist.
CreationsFirst(s, d) ==
  \A i \in 1..Len(s) : s[i].op = "createDataChannel" => i + d <= 2

\* Posting another task keeps the creations at the front.
LEMMA CreationsAfterAppend ==
  ASSUME NEW S, NEW s \in Seq(S), NEW e \in S, e.op # "createDataChannel", NEW d,
         CreationsFirst(s, d)
  PROVE  CreationsFirst(Append(s, e), d)
<1>1. ASSUME NEW i \in 1..Len(Append(s, e)), Append(s, e)[i].op = "createDataChannel"
      PROVE  i + d <= 2
  <2>1. i \in 1..Len(s) /\ Append(s, e)[i] = s[i]
    BY <1>1, AppendFacts
  <2>2. QED  BY <1>1, <2>1 DEF CreationsFirst
<1>2. QED  BY <1>1, Zenon DEF CreationsFirst

\* Running the first task moves the creations up, which pays for one channel.
LEMMA CreationsAfterTail ==
  ASSUME NEW S, NEW s \in Seq(S), s # <<>>, NEW d \in Nat, NEW e \in {d, d + 1},
         CreationsFirst(s, d)
  PROVE  CreationsFirst(Tail(s), e)
<1>1. ASSUME NEW i \in 1..Len(Tail(s)), Tail(s)[i].op = "createDataChannel"
      PROVE  i + e <= 2
  <2>1. i + 1 \in 1..Len(s) /\ Tail(s)[i] = s[i + 1] /\ i \in Nat
    BY TailFacts
  <2>2. (i + 1) + d <= 2
    BY <1>1, <2>1 DEF CreationsFirst
  <2>3. QED  BY <2>1, <2>2
<1>2. QED  BY <1>1, Zenon DEF CreationsFirst

(***************************************************************************)
(* What a step of a thread, and of the queue of the signaling thread, does.*)
(***************************************************************************)

\* A thread that moves moves alone.
LEMMA GoFacts ==
  ASSUME TypeOK, NEW t \in Threads, NEW step \in Steps, Go(t, step)
  PROVE  /\ at' \in [Threads -> Steps]
         /\ at'[t] = step
         /\ \A u \in Threads : u # t => at'[u] = at[u]
<1>1. at \in [Threads -> Steps]
  BY DEF TypeOK
<1>2. QED  BY <1>1 DEF Go

\* The first task is one of the tasks a queue of tasks may hold.
LEMMA BeginFacts ==
  ASSUME TypeOK, NEW op, Begin(op)
  PROVE  /\ Head(sig) \in Tasks
         /\ Head(sig).op = op
         /\ sig # <<>>
         /\ Tail(sig) \in Seq(Tasks)
         /\ op \in {"addTransceiver", "removeTrack"} => Head(sig).track \in Tracks
         /\ op \in {"setLocal", "setRemote"} => Head(sig).lines \in Nat
<1>1. Head(sig) \in Tasks /\ Tail(sig) \in Seq(Tasks) /\ Head(sig).op = op
  BY TailFacts DEF TypeOK, Begin
<1>2. QED  BY <1>1 DEF Tasks, Begin

(***************************************************************************)
(* The counting of the data channels, on which the type of the counters    *)
(* and the gate both rest.                                                 *)
(***************************************************************************)

\* A channel is counted once it is created, and one at a time.
CountFollowsCreation ==
  /\ dcCount <= data
  /\ at["signaling"] = "dcCreated" => dcCount < data

ChannelInv == TypeOK /\ CreationsFirst(sig, data) /\ CountFollowsCreation

\* The two channels setListener() posts are the only ones: the counters start
\* in range.
LEMMA ChannelInvInit == Init => ChannelInv
<1> SUFFICES ASSUME Init PROVE ChannelInv
  OBVIOUS
<1>1. [op |-> "createDataChannel"] \in Tasks
  BY DEF Tasks
<1>2. sig \in Seq(Tasks) /\ Len(sig) = 2
  BY <1>1 DEF Init
<1>3. data = 0 /\ dcCount = 0
  BY DEF Init
<1>4. at \in [Threads -> Steps] /\ at["signaling"] = "idle"
  BY DEF Init, Steps, Threads
<1>5. track \in [Tracks -> {"new", "published", "unpublished"}]
  BY DEF Init
<1>6. events \in Seq(Calls) /\ unanswered \in Seq(Nat)
  BY DEF Init
<1>7. TypeOK
  <2>1. /\ ~armed /\ shots = 0 /\ ~pending /\ ~closed /\ ~gone /\ ~cut
        /\ senders = {} /\ lines = 0 /\ local = 0 /\ covered = {}
    BY DEF Init
  <2>2. armed \in BOOLEAN /\ pending \in BOOLEAN /\ closed \in BOOLEAN /\ gone \in BOOLEAN
        /\ cut \in BOOLEAN
    BY DEF Init
  <2>3. QED
    BY <1>2, <1>3, <1>4, <1>5, <1>6, <2>1, <2>2, SMT DEF TypeOK, EmbeddedDCMaxCount
<1>8. CreationsFirst(sig, data)
  BY <1>2, <1>3 DEF CreationsFirst
<1>9. CountFollowsCreation
  BY <1>3, <1>4 DEF CountFollowsCreation
<1>10. QED  BY <1>7, <1>8, <1>9 DEF ChannelInv

\* The counting survives a step that leaves the channels alone and moves no
\* thread to where a channel was just created.
LEMMA CountKept ==
  ASSUME ChannelInv, data' = data, dcCount' = dcCount,
         at'["signaling"] = "dcCreated" => at["signaling"] = "dcCreated"
  PROVE  CountFollowsCreation'
BY DEF ChannelInv, CountFollowsCreation

\* Negotiating on any thread keeps the counting right.
LEMMA ChannelInvNegotiate ==
  ASSUME ChannelInv, NEW t \in Threads, NegotiateStep(t)
  PROVE  ChannelInv'
<1>1. TypeOK /\ CreationsFirst(sig, data) /\ sig \in Seq(Tasks)
  BY DEF ChannelInv, TypeOK
<1>2. PICK step \in Steps : Go(t, step) /\ step # "dcCreated"
  BY DEF NegotiateStep, Negotiate, Arm, Check, Gate, Postpone, Offer, Steps
<1>3. at' \in [Threads -> Steps]
      /\ (at'["signaling"] = "dcCreated" => at["signaling"] = "dcCreated")
  BY <1>1, <1>2, GoFacts DEF Threads
<1>4. data' = data /\ dcCount' = dcCount
  BY DEF NegotiateStep, Negotiate, Arm, Check, Postpone, Offer, gateVars, peerVars
<1>5. CountFollowsCreation'
  BY <1>3, <1>4, CountKept
<1>6. sig' \in {sig, Append(sig, [op |-> "createOffer"])}
  BY DEF NegotiateStep, Negotiate, Arm, Check, Postpone, Offer, PostToPublisher, Post
<1>7. [op |-> "createOffer"] \in Tasks /\ [op |-> "createOffer"].op # "createDataChannel"
  BY DEF Tasks
<1>8. sig' \in Seq(Tasks)
  BY <1>1, <1>6, <1>7, AppendFacts
<1>9. CreationsFirst(sig', data)
  BY <1>1, <1>6, <1>7, CreationsAfterAppend
<1>10. TypeOK'
  <2> USE <1>1, <1>3, <1>4, <1>8 DEF TypeOK, lifeVars, peerVars, gateVars, timerVars
  <2>1. CASE Negotiate(t)
    BY <2>1 DEF Negotiate
  <2>2. CASE Arm(t)
    BY <2>2 DEF Arm
  <2>3. CASE Check(t)
    BY <2>3 DEF Check
  <2>4. CASE Postpone(t)
    BY <2>4 DEF Postpone
  <2>5. CASE Offer(t)
    BY <2>5 DEF Offer
  <2>6. QED  BY <2>1, <2>2, <2>3, <2>4, <2>5 DEF NegotiateStep
<1>11. QED  BY <1>4, <1>5, <1>9, <1>10 DEF ChannelInv

\* Closing the manager keeps the counting right.
LEMMA ChannelInvClose ==
  ASSUME ChannelInv, NEW t \in Threads, CloseStep(t)
  PROVE  ChannelInv'
<1>1. TypeOK /\ CreationsFirst(sig, data) /\ CountFollowsCreation
  BY DEF ChannelInv
<1>2. PICK step \in Steps : Go(t, step) /\ step # "dcCreated"
  BY DEF CloseStep, CancelTimer, Dispose, ResetGate, Steps
<1>3. at' \in [Threads -> Steps]
      /\ (at'["signaling"] = "dcCreated" => at["signaling"] = "dcCreated")
  BY <1>1, <1>2, GoFacts DEF Threads
<1>4. sig' = sig /\ data' = data /\ dcCount' \in {0, dcCount}
  BY DEF CloseStep, CancelTimer, Dispose, ResetGate, gateVars, peerVars
<1>5. data \in Nat /\ dcCount \in Nat
  BY <1>1 DEF TypeOK, EmbeddedDCMaxCount
<1>6. CountFollowsCreation'
  BY <1>1, <1>3, <1>4, <1>5 DEF CountFollowsCreation
<1>7. dcCount' \in 0..EmbeddedDCMaxCount
  BY <1>1, <1>4 DEF TypeOK, EmbeddedDCMaxCount
<1>8. TypeOK'
  BY <1>1, <1>3, <1>4, <1>7
  DEF TypeOK, CloseStep, CancelTimer, Dispose, ResetGate, timerVars, gateVars,
      lifeVars, peerVars
<1>9. QED  BY <1>1, <1>4, <1>6, <1>8 DEF ChannelInv

\* The tasks of the signaling thread keep the counting right.
LEMMA ChannelInvSignaling ==
  ASSUME ChannelInv, SignalingTask
  PROVE  ChannelInv'
<1>1. /\ TypeOK /\ CreationsFirst(sig, data) /\ CountFollowsCreation
      /\ sig \in Seq(Tasks) /\ events \in Seq(Calls)
      /\ data \in Nat /\ dcCount \in Nat /\ lines \in Nat /\ shots \in Nat
  BY DEF ChannelInv, TypeOK, EmbeddedDCMaxCount
<1>2. [op |-> "failed"] \in Calls
      /\ \A n \in Nat : [op |-> "offer", lines |-> n] \in Calls
                        /\ [op |-> "setLocal", lines |-> n] \in Tasks
  BY DEF Calls, Tasks
<1> USE DEF timerVars, gateVars, lifeVars, peerVars
<1>3. CASE DropTask
  <2>1. sig' \in Seq(Tasks) /\ CreationsFirst(sig', data)
    BY <1>1, <1>3, TailFacts, CreationsAfterTail DEF DropTask
  <2>2. CountFollowsCreation'
    BY <1>1, <1>3 DEF DropTask, CountFollowsCreation
  <2>3. TypeOK'
    BY <1>1, <1>3, <2>1 DEF DropTask, TypeOK
  <2>4. QED  BY <1>3, <2>1, <2>2, <2>3 DEF DropTask, ChannelInv
<1>4. CASE CreateDataChannel
  <2>1. /\ Tail(sig) \in Seq(Tasks) /\ sig # <<>> /\ sig' = Tail(sig)
        /\ Head(sig).op = "createDataChannel"
    BY <1>1, <1>4, BeginFacts DEF CreateDataChannel
  <2>2. data' \in {data, data + 1} /\ data' \in Nat /\ lines' \in Nat
        /\ dcCount' = dcCount
    BY <1>1, <1>4 DEF CreateDataChannel
  <2>3. CreationsFirst(sig', data')
    BY <1>1, <2>1, <2>2, CreationsAfterTail
  <2>4. data < EmbeddedDCMaxCount
    <3>1. 1 \in 1..Len(sig) /\ sig[1].op = "createDataChannel"
      BY <1>1, <2>1, TailFacts
    <3>2. 1 + data <= 2
      BY <1>1, <3>1 DEF CreationsFirst
    <3>3. QED  BY <1>1, <3>2 DEF EmbeddedDCMaxCount
  <2>5. data' \in 0..EmbeddedDCMaxCount
    BY <1>1, <2>2, <2>4 DEF EmbeddedDCMaxCount
  <2>6. at' \in [Threads -> Steps]
        /\ (at'["signaling"] = "dcCreated" => data' = data + 1)
    <3>1. CASE Go("signaling", "dcCreated") /\ data' = data + 1
      BY <1>1, <3>1, GoFacts DEF Threads, Steps
    <3>2. CASE UNCHANGED at
      BY <1>1, <1>4, <3>2 DEF CreateDataChannel, Begin, TypeOK
    <3>3. QED  BY <1>4, <3>1, <3>2 DEF CreateDataChannel
  <2>7. CountFollowsCreation'
    BY <1>1, <2>2, <2>6 DEF CountFollowsCreation
  <2>8. TypeOK'
    BY <1>1, <1>4, <2>1, <2>2, <2>5, <2>6 DEF CreateDataChannel, TypeOK
  <2>9. QED  BY <2>3, <2>7, <2>8 DEF ChannelInv
<1>5. CASE CountDataChannel
  <2>1. at' \in [Threads -> Steps] /\ at'["signaling"] = "dcCounted"
    BY <1>1, <1>5, GoFacts DEF CountDataChannel, Threads, Steps
  <2>2. dcCount < data /\ dcCount' = dcCount + 1 /\ data' = data /\ sig' = sig
    BY <1>1, <1>5 DEF CountDataChannel, CountFollowsCreation
  <2>3. CountFollowsCreation' /\ dcCount' \in 0..EmbeddedDCMaxCount
    BY <1>1, <2>1, <2>2 DEF CountFollowsCreation, TypeOK, EmbeddedDCMaxCount
  <2>4. TypeOK'
    BY <1>1, <1>5, <2>1, <2>3 DEF CountDataChannel, TypeOK
  <2>5. QED  BY <1>1, <2>2, <2>3, <2>4 DEF ChannelInv
<1>6. CASE TakePostponed
  <2>1. PICK step \in Steps : Go("signaling", step) /\ step # "dcCreated"
    BY <1>6 DEF TakePostponed, Steps
  <2>2. at' \in [Threads -> Steps] /\ at'["signaling"] # "dcCreated"
    BY <1>1, <2>1, GoFacts DEF Threads
  <2>3. sig' = sig /\ data' = data /\ dcCount' = dcCount
    BY <1>6 DEF TakePostponed
  <2>4. CountFollowsCreation'
    BY <2>2, <2>3, CountKept
  <2>5. TypeOK'
    BY <1>1, <1>6, <2>2 DEF TakePostponed, TypeOK
  <2>6. QED  BY <1>1, <2>3, <2>4, <2>5 DEF ChannelInv
<1>7. CASE AddTransceiver \/ RemoveSender
  <2>1. /\ Tail(sig) \in Seq(Tasks) /\ sig # <<>> /\ sig' = Tail(sig)
        /\ Head(sig).track \in Tracks
    BY <1>1, <1>7, BeginFacts DEF AddTransceiver, RemoveSender
  <2>2. data' = data /\ dcCount' = dcCount /\ lines' \in Nat
    BY <1>1, <1>7 DEF AddTransceiver, RemoveSender
  <2>3. senders' \subseteq Tracks
    BY <1>1, <1>7, <2>1 DEF AddTransceiver, RemoveSender, TypeOK
  <2>4. CreationsFirst(sig', data')
    BY <1>1, <2>1, <2>2, CreationsAfterTail
  <2>5. at' \in [Threads -> Steps] /\ at'["signaling"] # "dcCreated"
    <3>1. CASE Go("signaling", "negotiate")
      BY <1>1, <3>1, GoFacts DEF Threads, Steps
    <3>2. CASE UNCHANGED at
      BY <1>1, <1>7, <3>2 DEF AddTransceiver, RemoveSender, Begin, TypeOK
    <3>3. QED  BY <1>7, <3>1, <3>2 DEF AddTransceiver, RemoveSender
  <2>6. CountFollowsCreation'
    BY <2>2, <2>5, CountKept
  <2>7. TypeOK'
    BY <1>1, <1>7, <2>1, <2>2, <2>3, <2>5 DEF AddTransceiver, RemoveSender, TypeOK
  <2>8. QED  BY <2>4, <2>6, <2>7 DEF ChannelInv
<1>8. CASE CreateOffer
  <2>1. Tail(sig) \in Seq(Tasks) /\ sig # <<>>
    BY <1>1, <1>8, BeginFacts DEF CreateOffer
  <2>2. [op |-> "setLocal", lines |-> lines] \in Tasks
    BY <1>1, <1>2
  <2>3. sig' \in {Tail(sig), Append(Tail(sig), [op |-> "setLocal", lines |-> lines])}
    BY <1>8 DEF CreateOffer
  <2>4. CreationsFirst(Tail(sig), data)
    BY <1>1, <2>1, CreationsAfterTail
  <2>5. CreationsFirst(sig', data) /\ sig' \in Seq(Tasks)
    <3>1. CASE sig' = Tail(sig)
      BY <2>1, <2>4, <3>1
    <3>2. CASE sig' = Append(Tail(sig), [op |-> "setLocal", lines |-> lines])
      <4>1. sig' \in Seq(Tasks)
        BY <2>1, <2>2, <3>2, AppendFacts
      <4>2. CreationsFirst(sig', data)
        BY <2>1, <2>2, <2>4, <3>2, CreationsAfterAppend
      <4>3. QED  BY <4>1, <4>2
    <3>3. QED  BY <2>3, <3>1, <3>2
  <2>6. events' \in Seq(Calls)
    BY <1>1, <1>2, <1>8, AppendFacts DEF CreateOffer, Notify
  <2>7. data' = data /\ dcCount' = dcCount /\ at' = at
    BY <1>8 DEF CreateOffer
  <2>8. CountFollowsCreation'
    BY <2>7, CountKept
  <2>9. TypeOK'
    BY <1>1, <1>8, <2>5, <2>6 DEF CreateOffer, TypeOK
  <2>10. QED  BY <2>5, <2>7, <2>8, <2>9 DEF ChannelInv
<1>9. CASE SetLocalOffer \/ SetRemoteAnswer
  <2>1. /\ Tail(sig) \in Seq(Tasks) /\ sig # <<>> /\ sig' = Tail(sig)
        /\ Head(sig).lines \in Nat
    BY <1>1, <1>9, BeginFacts DEF SetLocalOffer, SetRemoteAnswer
  <2>2. CreationsFirst(sig', data)
    BY <1>1, <2>1, CreationsAfterTail
  <2>3. events' \in Seq(Calls) /\ local' \in Nat
    <3>1. local' \in Nat
      BY <1>1, <1>9, <2>1 DEF SetLocalOffer, SetRemoteAnswer, TypeOK
    <3>2. events' \in {events, Append(events, [op |-> "failed"]),
                       Append(events, [op |-> "offer", lines |-> Head(sig).lines])}
      BY <1>9 DEF SetLocalOffer, SetRemoteAnswer, Notify
    <3>3. Append(events, [op |-> "failed"]) \in Seq(Calls)
      BY <1>1, <1>2, AppendFacts
    <3>4. Append(events, [op |-> "offer", lines |-> Head(sig).lines]) \in Seq(Calls)
      BY <1>1, <1>2, <2>1, AppendFacts
    <3>5. QED  BY <1>1, <3>1, <3>2, <3>3, <3>4
  <2>4. data' = data /\ dcCount' = dcCount /\ at' = at
    BY <1>9 DEF SetLocalOffer, SetRemoteAnswer
  <2>5. CountFollowsCreation'
    BY <2>4, CountKept
  <2>6. TypeOK'
    BY <1>1, <1>9, <2>1, <2>3 DEF SetLocalOffer, SetRemoteAnswer, TypeOK
  <2>7. QED  BY <2>2, <2>4, <2>5, <2>6 DEF ChannelInv
<1>10. QED
  BY <1>3, <1>4, <1>5, <1>6, <1>7, <1>8, <1>9 DEF SignalingTask

\* So do the events queue, the server and the user.
LEMMA ChannelInvOthers ==
  ASSUME ChannelInv,
         \/ RunShot \/ LoseConnection \/ EventsCall \/ StartNegotiation
         \/ ServerAnswer \/ UserCall
  PROVE  ChannelInv'
<1>1. /\ TypeOK /\ CreationsFirst(sig, data) /\ CountFollowsCreation
      /\ sig \in Seq(Tasks) /\ events \in Seq(Calls) /\ unanswered \in Seq(Nat)
      /\ shots \in Nat
  BY DEF ChannelInv, TypeOK
<1>2. data' = data /\ dcCount' = dcCount
  BY DEF RunShot, EventsCall, SendOffer, FailSession, LoseConnection, StartNegotiation,
         ServerAnswer, UserCall, Publish, Unpublish, Disconnect, gateVars, peerVars
<1>3. at' \in [Threads -> Steps]
      /\ (at'["signaling"] = "dcCreated" => at["signaling"] = "dcCreated")
  <2>1. \/ UNCHANGED at
        \/ \E t \in Threads, step \in Steps : Go(t, step) /\ step # "dcCreated"
    BY DEF RunShot, EventsCall, SendOffer, FailSession, LoseConnection, StartNegotiation,
           ServerAnswer, UserCall, Publish, Unpublish, Disconnect, Threads, Steps
  <2>2. QED  BY <1>1, <2>1, GoFacts DEF Threads, TypeOK
<1>4. CountFollowsCreation'
  BY <1>2, <1>3, CountKept
<1> USE DEF timerVars, gateVars, lifeVars, peerVars
<1>5. CASE RunShot \/ LoseConnection \/ StartNegotiation \/ \E t \in Threads : Disconnect(t)
  <2>1. sig' = sig
    BY <1>5 DEF RunShot, LoseConnection, StartNegotiation, Disconnect
  <2>2. TypeOK'
    <3>1. CASE RunShot
      <4>1. shots' \in Nat
        BY <1>1, <3>1 DEF RunShot
      <4>2. armed' \in BOOLEAN
        BY <3>1, Zenon DEF RunShot
      <4>3. QED  BY <1>1, <1>3, <3>1, <4>1, <4>2 DEF RunShot, TypeOK
    <3>2. CASE StartNegotiation
      BY <1>1, <1>3, <3>2 DEF StartNegotiation, TypeOK
    <3>3. CASE \E t \in Threads : Disconnect(t)
      BY <1>1, <1>3, <3>3 DEF Disconnect, TypeOK
    <3>4. CASE LoseConnection
      <4>1. armed' \in BOOLEAN /\ cut' \in BOOLEAN
        BY <3>4, Zenon DEF LoseConnection
      <4>2. QED  BY <1>1, <1>3, <3>4, <4>1 DEF LoseConnection, TypeOK
    <3>5. QED  BY <1>5, <3>1, <3>2, <3>3, <3>4
  <2>3. QED  BY <1>1, <1>2, <1>4, <2>1, <2>2 DEF ChannelInv
<1>6. CASE EventsCall
  <2>1. events # <<>> /\ events' = Tail(events) /\ sig' = sig
    BY <1>6 DEF EventsCall, SendOffer, FailSession, Deliver
  <2>2. events' \in Seq(Calls)
    BY <1>1, <2>1, TailFacts
  <2>3. unanswered' \in Seq(Nat)
    <3>1. CASE SendOffer
      <4>1. Head(events) \in Calls /\ Head(events).op = "offer"
        BY <1>1, <2>1, <3>1, TailFacts DEF SendOffer, Deliver
      <4>2. Head(events).lines \in Nat
        BY <4>1 DEF Calls
      <4>3. unanswered' \in {unanswered, Append(unanswered, Head(events).lines)}
        BY <3>1 DEF SendOffer
      <4>4. QED  BY <1>1, <4>2, <4>3, AppendFacts
    <3>2. CASE FailSession
      BY <1>1, <3>2 DEF FailSession
    <3>3. QED  BY <1>6, <3>1, <3>2 DEF EventsCall
  <2>4. TypeOK'
    BY <1>1, <1>3, <1>6, <2>2, <2>3 DEF EventsCall, SendOffer, FailSession, TypeOK
  <2>5. QED  BY <1>1, <1>2, <1>4, <2>1, <2>4 DEF ChannelInv
<1>7. CASE ServerAnswer \/ \E t \in Tracks : Publish(t) \/ Unpublish(t)
  <2>1. \/ sig' = sig
        \/ \E task \in Tasks :
             task.op # "createDataChannel" /\ sig' = Append(sig, task)
    <3>1. CASE ServerAnswer
      <4>1. Head(unanswered) \in Nat
        BY <1>1, <3>1, TailFacts DEF ServerAnswer
      <4>2. [op |-> "setRemote", lines |-> Head(unanswered)] \in Tasks
        BY <4>1 DEF Tasks
      <4>3. QED  BY <3>1, <4>2 DEF ServerAnswer, PostToPublisher, Post
    <3>2. CASE \E t \in Tracks : Publish(t) \/ Unpublish(t)
      <4>1. \A t \in Tracks : [op |-> "addTransceiver", track |-> t] \in Tasks
                           /\ [op |-> "removeTrack", track |-> t] \in Tasks
        BY DEF Tasks
      <4>2. QED  BY <3>2, <4>1 DEF Publish, Unpublish, PostToPublisher, Post
    <3>3. QED  BY <1>7, <3>1, <3>2
  <2>2. sig' \in Seq(Tasks) /\ CreationsFirst(sig', data)
    <3>1. CASE sig' = sig
      BY <1>1, <3>1
    <3>2. CASE sig' # sig
      <4>1. PICK task \in Tasks :
              task.op # "createDataChannel" /\ sig' = Append(sig, task)
        BY <2>1, <3>2
      <4>2. sig' \in Seq(Tasks)
        BY <1>1, <4>1, AppendFacts
      <4>3. CreationsFirst(sig', data)
        BY <1>1, <4>1, CreationsAfterAppend
      <4>4. QED  BY <4>2, <4>3
    <3>3. QED  BY <3>1, <3>2
  <2>3. unanswered' \in Seq(Nat)
    BY <1>1, <1>7, TailFacts DEF ServerAnswer, Publish, Unpublish
  <2>4. track' \in [Tracks -> {"new", "published", "unpublished"}]
    BY <1>1, <1>7 DEF ServerAnswer, Publish, Unpublish, TypeOK
  <2>5. TypeOK'
    BY <1>1, <1>3, <1>7, <2>2, <2>3, <2>4 DEF ServerAnswer, Publish, Unpublish, TypeOK
  <2>6. QED  BY <1>2, <1>4, <2>2, <2>5 DEF ChannelInv
<1>8. QED  BY <1>5, <1>6, <1>7 DEF UserCall

\* A step of the specification, or a stuttering one, keeps the counting right.
LEMMA ChannelInvStep == ChannelInv /\ [Next]_vars => ChannelInv'
<1>1. CASE ChannelInv /\ Next
  BY <1>1, ChannelInvNegotiate, ChannelInvClose, ChannelInvSignaling, ChannelInvOthers
  DEF Next
<1>2. CASE ChannelInv /\ UNCHANGED vars
  BY <1>2 DEF vars, ChannelInv, TypeOK, CreationsFirst, CountFollowsCreation
<1>3. QED  BY <1>1, <1>2

\* Type correctness: every variable keeps its type, so no more channels are
\* ever counted than the two that setListener() has created.
THEOREM TypeCorrect == Spec => []TypeOK
<1>1. ChannelInv => TypeOK
  BY DEF ChannelInv
<1>2. QED  BY <1>1, ChannelInvInit, ChannelInvStep, PTL DEF Spec

(***************************************************************************)
(* An armed debounce has a task to fire it.                                *)
(***************************************************************************)

\* Whatever cancels, re-arms or fires the debounce, an armed one has a task
\* of its timer left to run.
THEOREM ArmedDebounceFires == Spec => []ArmedHasShot
<1>1. Init => ArmedHasShot
  BY DEF Init, ArmedHasShot
<1>2. ASSUME TypeOK, ArmedHasShot, [Next]_vars
      PROVE  ArmedHasShot'
  <2>1. shots \in Nat
    BY <1>2 DEF TypeOK
  <2>2. CASE armed' = FALSE
    BY <2>2 DEF ArmedHasShot
  <2>3. CASE shots' = shots + 1
    BY <2>1, <2>3 DEF ArmedHasShot
  <2>4. CASE armed' = armed /\ shots' = shots
    BY <1>2, <2>4 DEF ArmedHasShot
  <2>5. \/ armed' = FALSE
        \/ shots' = shots + 1
        \/ armed' = armed /\ shots' = shots
    BY <1>2
    DEF Next, vars, timerVars, NegotiateStep, Negotiate, Arm, Check, Postpone, Offer,
        CloseStep, CancelTimer, Dispose, ResetGate, SignalingTask, DropTask,
        CreateDataChannel, CountDataChannel, TakePostponed, AddTransceiver,
        RemoveSender, CreateOffer, SetLocalOffer, SetRemoteAnswer, RunShot,
        EventsCall, SendOffer, FailSession, LoseConnection, StartNegotiation,
        ServerAnswer, UserCall, Publish, Unpublish, Disconnect
  <2>6. QED  BY <2>2, <2>3, <2>4, <2>5
<1>3. QED  BY <1>1, <1>2, TypeCorrect, PTL DEF Spec

(***************************************************************************)
(* No offer leaves before both data channels exist.                        *)
(***************************************************************************)

\* A thread past the gate, and every task of an offer, came through when both
\* channels were counted, hence created; a channel is never destroyed.
OfferInv ==
  /\ \A t \in Threads : at[t] = "offer" => data = EmbeddedDCMaxCount
  /\ Has(sig, "createOffer") \/ Has(sig, "setLocal") => data = EmbeddedDCMaxCount

\* No step destroys a channel.
LEMMA ChannelsStay ==
  ASSUME ChannelInv, [Next]_vars, data = EmbeddedDCMaxCount
  PROVE  data' = EmbeddedDCMaxCount
<1>1. data' \in 0..EmbeddedDCMaxCount
  BY ChannelInvStep DEF ChannelInv, TypeOK
<1>2. data' = data \/ data' = data + 1
  BY DEF Next, vars, peerVars, NegotiateStep, Negotiate, Arm, Check, Postpone, Offer,
         CloseStep, CancelTimer, Dispose, ResetGate, SignalingTask, DropTask,
         CreateDataChannel, CountDataChannel, TakePostponed, AddTransceiver,
         RemoveSender, CreateOffer, SetLocalOffer, SetRemoteAnswer, RunShot,
         EventsCall, SendOffer, FailSession, LoseConnection, StartNegotiation,
         ServerAnswer, UserCall, Publish, Unpublish, Disconnect
<1>3. QED  BY <1>1, <1>2 DEF EmbeddedDCMaxCount

\* A thread comes to the offer only through the gate.
LEMMA OfferThroughGate ==
  ASSUME ChannelInv, [Next]_vars, NEW t \in Threads, at'[t] = "offer"
  PROVE  at[t] = "offer" \/ data = EmbeddedDCMaxCount
<1>1. TypeOK
  BY DEF ChannelInv
<1>2. CASE Check(t)
  <2>1. Go(t, IF closed THEN "idle" ELSE Gate)
    BY <1>2 DEF Check
  <2>2. CASE dcCount = EmbeddedDCMaxCount
    BY <2>2 DEF ChannelInv, CountFollowsCreation, TypeOK, EmbeddedDCMaxCount
  <2>3. CASE dcCount # EmbeddedDCMaxCount
    <3>1. Go(t, "idle") \/ Go(t, "postpone")
      BY <2>1, <2>3 DEF Gate, LocalDataChannelsAreCreated
    <3>2. QED  BY <1>1, <3>1, GoFacts DEF Steps
  <2>4. QED  BY <2>2, <2>3
<1>3. CASE at' = at
  BY <1>3
<1>4. CASE \E u \in Threads, step \in Steps : Go(u, step) /\ (step # "offer" \/ u # t)
  BY <1>1, <1>4, GoFacts
<1>5. Check(t) \/ at' = at
      \/ \E u \in Threads, step \in Steps : Go(u, step) /\ (step # "offer" \/ u # t)
  <2>1. CASE \E u \in Threads : Check(u)
    <3>1. PICK u \in Threads : Check(u)
      BY <2>1
    <3>2. Go(u, "idle") \/ Go(u, "offer") \/ Go(u, "postpone")
      BY <3>1 DEF Check, Gate
    <3>3. QED  BY <3>1, <3>2 DEF Steps
  <2>2. CASE [Next]_vars /\ ~ \E u \in Threads : Check(u)
    BY <2>2
    DEF Next, vars, NegotiateStep, Negotiate, Arm, Postpone, Offer,
        CloseStep, CancelTimer, Dispose, ResetGate, SignalingTask, DropTask,
        CreateDataChannel, CountDataChannel, TakePostponed, AddTransceiver,
        RemoveSender, CreateOffer, SetLocalOffer, SetRemoteAnswer, RunShot,
        EventsCall, SendOffer, FailSession, LoseConnection, StartNegotiation,
        ServerAnswer, UserCall, Publish, Unpublish, Disconnect, Threads, Steps
  <2>3. QED  BY <2>1, <2>2
<1>6. QED  BY <1>2, <1>3, <1>4, <1>5

\* What a step may do to the queue of the signaling thread: an offer enters it
\* from a thread past the gate, a local description from the task of an offer.
LEMMA SigStep ==
  ASSUME ChannelInv, [Next]_vars
  PROVE  \/ sig' = sig
         \/ sig # <<>> /\ sig' = Tail(sig)
         \/ \E task \in Tasks : /\ sig' = Append(sig, task)
                               /\ task.op \in {"addTransceiver", "removeTrack", "setRemote"}
         \/ /\ \E t \in Threads : at[t] = "offer"
            /\ sig' = Append(sig, [op |-> "createOffer"])
         \/ /\ sig # <<>> /\ Head(sig).op = "createOffer"
            /\ \E n \in Nat : sig' = Append(Tail(sig), [op |-> "setLocal", lines |-> n])
<1>1. lines \in Nat /\ unanswered \in Seq(Nat)
  BY DEF ChannelInv, TypeOK
<1>2. CASE UNCHANGED vars
  BY <1>2 DEF vars
<1>3. CASE \E t \in Threads : NegotiateStep(t) \/ CloseStep(t)
  BY <1>3 DEF NegotiateStep, Negotiate, Arm, Check, Postpone, Offer, PostToPublisher,
              Post, CloseStep, CancelTimer, Dispose, ResetGate
<1>4. CASE SignalingTask
  BY <1>1, <1>4 DEF SignalingTask, DropTask, CreateDataChannel, CountDataChannel,
                    TakePostponed, AddTransceiver, RemoveSender, CreateOffer,
                    SetLocalOffer, SetRemoteAnswer, Begin
<1>5. CASE RunShot \/ EventsCall \/ StartNegotiation \/ LoseConnection
  BY <1>5 DEF RunShot, EventsCall, SendOffer, FailSession, StartNegotiation, LoseConnection
<1>6. CASE ServerAnswer
  <2>1. Head(unanswered) \in Nat
    BY <1>1, <1>6, TailFacts DEF ServerAnswer
  <2>2. [op |-> "setRemote", lines |-> Head(unanswered)] \in Tasks
    BY <2>1 DEF Tasks
  <2>3. QED  BY <1>6, <2>2 DEF ServerAnswer, PostToPublisher, Post
<1>7. CASE UserCall
  <2>1. \A t \in Tracks : [op |-> "addTransceiver", track |-> t] \in Tasks
                       /\ [op |-> "removeTrack", track |-> t] \in Tasks
    BY DEF Tasks
  <2>2. QED  BY <1>7, <2>1 DEF UserCall, Publish, Unpublish, Disconnect,
                               PostToPublisher, Post
<1>8. QED  BY <1>2, <1>3, <1>4, <1>5, <1>6, <1>7 DEF Next

\* Each way a step changes the queue keeps what the queue says of the channels.
LEMMA OfferInvStep == ChannelInv /\ OfferInv /\ [Next]_vars => OfferInv'
<1> SUFFICES ASSUME ChannelInv, OfferInv, [Next]_vars PROVE OfferInv'
  OBVIOUS
<1>1. sig \in Seq(Tasks)
  BY DEF ChannelInv, TypeOK
<1>2. CASE data = EmbeddedDCMaxCount
  BY <1>2, ChannelsStay DEF OfferInv
<1>3. CASE data # EmbeddedDCMaxCount
  <2>1. \A t \in Threads : at'[t] # "offer"
    BY <1>3, OfferThroughGate DEF OfferInv
  <2>2. ~Has(sig, "createOffer") /\ ~Has(sig, "setLocal")
    BY <1>3 DEF OfferInv
  <2>3. \/ sig' = sig
        \/ sig # <<>> /\ sig' = Tail(sig)
        \/ \E task \in Tasks : /\ sig' = Append(sig, task)
                              /\ task.op \in {"addTransceiver", "removeTrack", "setRemote"}
    <3>1. ~ \E t \in Threads : at[t] = "offer"
      BY <1>3 DEF OfferInv
    <3>2. ~(sig # <<>> /\ Head(sig).op = "createOffer")
      <4>1. ASSUME sig # <<>>, Head(sig).op = "createOffer" PROVE FALSE
        <5>1. 1 \in 1..Len(sig) /\ sig[1].op = "createOffer"
          BY <1>1, <4>1, TailFacts
        <5>2. QED  BY <2>2, <5>1 DEF Has
      <4>2. QED  BY <4>1
    <3>3. QED  BY <3>1, <3>2, SigStep
  <2>4. ~Has(sig', "createOffer") /\ ~Has(sig', "setLocal")
    <3>1. CASE sig' = sig
      BY <2>2, <3>1
    <3>2. CASE sig # <<>> /\ sig' = Tail(sig)
      BY <1>1, <2>2, <3>2, HasAfterTail
    <3>3. CASE \E task \in Tasks : /\ sig' = Append(sig, task)
                                /\ task.op \in {"addTransceiver", "removeTrack", "setRemote"}
      <4>1. PICK task \in Tasks : /\ sig' = Append(sig, task)
                                /\ task.op \in {"addTransceiver", "removeTrack", "setRemote"}
        BY <3>3
      <4>2. task.op # "createOffer" /\ task.op # "setLocal"
        BY <4>1
      <4>3. QED  BY <1>1, <2>2, <4>1, <4>2, HasAfterAppend
    <3>4. QED  BY <2>3, <3>1, <3>2, <3>3
  <2>5. QED  BY <2>1, <2>4 DEF OfferInv, Has
<1>4. QED  BY <1>2, <1>3

\* No offer is requested before the peer connection has both data channels,
\* although the count is read on other threads than the one that writes it.
THEOREM OffersCarryData == Spec => []OfferNeedsChannels
<1>1. Init => OfferInv
  <2>1. ASSUME Init PROVE OfferInv
    <3>1. \A t \in Threads : at[t] # "offer"
      BY <2>1 DEF Init
    <3>2. Len(sig) = 2 /\ sig[1].op = "createDataChannel" /\ sig[2].op = "createDataChannel"
      BY <2>1 DEF Init
    <3>3. ~Has(sig, "createOffer") /\ ~Has(sig, "setLocal")
      BY <3>2 DEF Has
    <3>4. QED  BY <3>1, <3>3 DEF OfferInv
  <2>2. QED  BY <2>1
<1>2. OfferInv => OfferNeedsChannels
  BY DEF OfferInv, OfferNeedsChannels, SigHas, Has
<1>3. QED  BY <1>1, <1>2, ChannelInvInit, ChannelInvStep, OfferInvStep, PTL DEF Spec

(***************************************************************************)
(* No change of the published tracks is lost.                              *)
(***************************************************************************)

\* A manager is closed by the one thread that took it from the engine.
ClosedIsGone ==
  /\ closed => gone
  /\ \A t \in Threads : at[t] \in {"closing", "dispose", "reset"} => gone

Working == {"negotiate", "arm", "check", "offer", "postpone"}

\* The engine is left without a manager before anything is closed.
LEMMA ClosedIsGoneStep == TypeOK /\ ClosedIsGone /\ [Next]_vars => ClosedIsGone'
<1> SUFFICES ASSUME TypeOK, ClosedIsGone, [Next]_vars PROVE ClosedIsGone'
  OBVIOUS
<1>1. gone => gone'
  BY DEF Next, vars, lifeVars, NegotiateStep, Negotiate, Arm, Check, Postpone, Offer,
         CloseStep, CancelTimer, Dispose, ResetGate, SignalingTask, DropTask,
         CreateDataChannel, CountDataChannel, TakePostponed, AddTransceiver,
         RemoveSender, CreateOffer, SetLocalOffer, SetRemoteAnswer, RunShot,
         EventsCall, SendOffer, FailSession, LoseConnection, StartNegotiation,
         ServerAnswer, UserCall, Publish, Unpublish, Disconnect
<1>2. CASE gone
  BY <1>1, <1>2 DEF ClosedIsGone
<1>3. CASE ~gone /\ gone'
  BY <1>3 DEF ClosedIsGone
<1>4. CASE ~gone /\ ~gone'
  <2>1. ~closed /\ \A t \in Threads : at[t] \notin {"closing", "dispose", "reset"}
    BY <1>4 DEF ClosedIsGone
  <2>2. closed' = closed
    BY <1>4, <2>1
    DEF Next, vars, lifeVars, NegotiateStep, Negotiate, Arm, Check, Postpone, Offer,
        CloseStep, CancelTimer, Dispose, ResetGate, SignalingTask, DropTask,
        CreateDataChannel, CountDataChannel, TakePostponed, AddTransceiver,
        RemoveSender, CreateOffer, SetLocalOffer, SetRemoteAnswer, RunShot,
        EventsCall, SendOffer, FailSession, LoseConnection, StartNegotiation,
        ServerAnswer, UserCall, Publish, Unpublish, Disconnect
  <2>3. at' = at \/ \E t \in Threads, step \in Steps \ {"closing", "dispose", "reset"} :
                       Go(t, step)
    BY <1>4, <2>1
    DEF Next, vars, NegotiateStep, Negotiate, Arm, Check, Gate, Postpone, Offer,
        CloseStep, CancelTimer, Dispose, ResetGate, SignalingTask, DropTask,
        CreateDataChannel, CountDataChannel, TakePostponed, AddTransceiver,
        RemoveSender, CreateOffer, SetLocalOffer, SetRemoteAnswer, RunShot,
        EventsCall, SendOffer, FailSession, LoseConnection, StartNegotiation,
        ServerAnswer, UserCall, Publish, Unpublish, Disconnect, Threads, Steps
  <2>4. \A t \in Threads : at'[t] \notin {"closing", "dispose", "reset"}
    BY <2>1, <2>3, GoFacts
  <2>5. QED  BY <2>1, <2>2, <2>4 DEF ClosedIsGone
<1>5. QED  BY <1>2, <1>3, <1>4

\* A change stays known across a step that takes none of the signs of it.
LEMMA UnderWayKept ==
  ASSUME NegotiationUnderWay \/ cut, cut => cut',
         armed => armed', pending => pending', gone => gone',
         \A t \in Threads : at[t] \in Working => at'[t] \in Working,
         Has(sig, "createOffer") => Has(sig', "createOffer"),
         Has(events, "failed") => Has(events', "failed")
  PROVE  NegotiationUnderWay' \/ cut'
BY DEF NegotiationUnderWay, SigHas, Has, Working

\* The signaling thread between two tasks is not negotiating.
LEMMA IdleNotWorking == "idle" \notin Working /\ "setup" \notin Working
                        /\ "dcCreated" \notin Working /\ "dcCounted" \notin Working
                        /\ "closing" \notin Working /\ "dispose" \notin Working
                        /\ "reset" \notin Working
BY DEF Working

\* On the threads that negotiate, each step hands the change on.
LEMMA NoLostUpdateNegotiate ==
  ASSUME ChannelInv, ClosedIsGone, NoLostUpdate, NEW t \in Threads, NegotiateStep(t)
  PROVE  NoLostUpdate'
<1>1. TypeOK /\ sig \in Seq(Tasks)
  BY DEF ChannelInv, TypeOK
<1>2. CASE Negotiate(t)
  <2>1. Go(t, "arm") \/ Go(t, "check")
    BY <1>2 DEF Negotiate
  <2>2. at'[t] \in Working
    BY <1>1, <2>1, GoFacts DEF Steps, Working
  <2>3. QED  BY <2>2 DEF NoLostUpdate, NegotiationUnderWay, Working
<1>3. CASE Arm(t)
  BY <1>3 DEF Arm, NoLostUpdate, NegotiationUnderWay
<1>4. CASE Check(t)
  <2>1. CASE closed
    BY <1>4, <2>1 DEF Check, ClosedIsGone, lifeVars, NoLostUpdate, NegotiationUnderWay
  <2>2. CASE ~closed
    <3>1. Go(t, "offer") \/ Go(t, "postpone")
      BY <1>4, <2>2 DEF Check, Gate
    <3>2. at'[t] \in Working
      BY <1>1, <3>1, GoFacts DEF Steps, Working
    <3>3. QED  BY <3>2 DEF NoLostUpdate, NegotiationUnderWay, Working
  <2>3. QED  BY <2>1, <2>2
<1>5. CASE Postpone(t)
  BY <1>5 DEF Postpone, NoLostUpdate, NegotiationUnderWay
<1>6. CASE Offer(t)
  <2>1. CASE closed
    BY <1>6, <2>1 DEF Offer, ClosedIsGone, lifeVars, NoLostUpdate, NegotiationUnderWay
  <2>2. CASE ~closed
    <3>1. sig' = Append(sig, [op |-> "createOffer"])
      BY <1>6, <2>2 DEF Offer, PostToPublisher, Post
    <3>2. [op |-> "createOffer"] \in Tasks /\ [op |-> "createOffer"].op = "createOffer"
      BY DEF Tasks
    <3>3. Has(sig', "createOffer")
      BY <1>1, <3>1, <3>2, HasAfterAppend
    <3>4. QED  BY <3>3 DEF NoLostUpdate, NegotiationUnderWay, SigHas, Has
  <2>3. QED  BY <2>1, <2>2
<1>7. QED  BY <1>2, <1>3, <1>4, <1>5, <1>6 DEF NegotiateStep

\* The tasks of the signaling thread start a negotiation for what they change,
\* and an offer describes all the peer connection sends.
LEMMA NoLostUpdateSignaling ==
  ASSUME ChannelInv, ClosedIsGone, NoLostUpdate, SignalingTask
  PROVE  NoLostUpdate'
<1>1. TypeOK /\ sig \in Seq(Tasks) /\ events \in Seq(Calls) /\ lines \in Nat
  BY DEF ChannelInv, TypeOK
<1>2. [op |-> "failed"] \in Calls /\ [op |-> "failed"].op = "failed"
  BY DEF Calls
<1> USE DEF timerVars, gateVars, lifeVars, peerVars
<1>3. CASE DropTask
  BY <1>3 DEF DropTask, ClosedIsGone, NoLostUpdate, NegotiationUnderWay
<1>4. CASE CreateDataChannel \/ CountDataChannel \/ TakePostponed
  <2>1. senders' = senders /\ covered' = covered /\ armed' = armed /\ gone' = gone /\ cut' = cut
        /\ events' = events
    BY <1>4 DEF CreateDataChannel, CountDataChannel, TakePostponed
  <2>2. Has(sig, "createOffer") => Has(sig', "createOffer")
    <3>1. CASE CreateDataChannel
      <4>1. sig # <<>> /\ sig' = Tail(sig) /\ Head(sig).op = "createDataChannel"
        BY <3>1 DEF CreateDataChannel, Begin
      <4>2. Head(sig).op # "createOffer"
        BY <4>1
      <4>3. QED  BY <1>1, <4>1, <4>2, HasAfterTail
    <3>2. CASE CountDataChannel \/ TakePostponed
      BY <3>2 DEF CountDataChannel, TakePostponed
    <3>3. QED  BY <1>4, <3>1, <3>2
  <2>3. PICK step \in Steps : Go("signaling", step) \/ at' = at
    BY <1>4 DEF CreateDataChannel, CountDataChannel, TakePostponed, Steps
  <2>4. at["signaling"] \notin Working
    BY <1>4 DEF CreateDataChannel, CountDataChannel, TakePostponed, Begin, Working
  <2>5. \A t \in Threads : at[t] \in Working => at'[t] \in Working
    BY <1>1, <2>3, <2>4, GoFacts DEF Threads
  <2>6. CASE pending => pending'
    BY <2>1, <2>2, <2>5, <2>6, UnderWayKept DEF NoLostUpdate
  <2>7. CASE Go("signaling", "check")
    <3>1. at'["signaling"] = "check"
      BY <1>1, <2>7, GoFacts DEF Steps, Threads
    <3>2. QED  BY <3>1 DEF NoLostUpdate, NegotiationUnderWay, Threads
  <2>8. (pending => pending') \/ Go("signaling", "check")
    BY <1>4 DEF CreateDataChannel, CountDataChannel, TakePostponed
  <2>9. QED  BY <2>6, <2>7, <2>8
<1>5. CASE AddTransceiver \/ RemoveSender
  <2>1. CASE Go("signaling", "negotiate")
    <3>1. at'["signaling"] = "negotiate"
      BY <1>1, <2>1, GoFacts DEF Steps, Threads
    <3>2. QED  BY <3>1 DEF NoLostUpdate, NegotiationUnderWay, Threads
  <2>2. CASE senders' = senders /\ at' = at
    <3>1. /\ sig # <<>> /\ sig' = Tail(sig) /\ Head(sig).op # "createOffer"
          /\ covered' = covered /\ armed' = armed /\ pending' = pending /\ gone' = gone /\ cut' = cut
          /\ events' = events
      BY <1>5 DEF AddTransceiver, RemoveSender, Begin
    <3>2. Has(sig, "createOffer") => Has(sig', "createOffer")
      BY <1>1, <3>1, HasAfterTail
    <3>3. QED  BY <2>2, <3>1, <3>2, UnderWayKept DEF NoLostUpdate
  <2>3. QED  BY <1>5, <2>1, <2>2 DEF AddTransceiver, RemoveSender
<1>6. CASE CreateOffer
  <2>1. CASE covered' = senders
    BY <1>6, <2>1 DEF CreateOffer, NoLostUpdate
  <2>2. CASE events' = Append(events, [op |-> "failed"])
    <3>1. Has(events', "failed")
      BY <1>1, <1>2, <2>2, HasAfterAppend
    <3>2. QED  BY <3>1 DEF NoLostUpdate, NegotiationUnderWay, Has
  <2>3. QED  BY <1>6, <2>1, <2>2 DEF CreateOffer, Notify
<1>7. CASE SetLocalOffer \/ SetRemoteAnswer
  <2>1. /\ sig # <<>> /\ sig' = Tail(sig) /\ Head(sig).op # "createOffer"
        /\ Head(sig).op \in {"setLocal", "setRemote"}
        /\ senders' = senders /\ covered' = covered /\ at' = at
        /\ armed' = armed /\ pending' = pending /\ gone' = gone /\ cut' = cut
    BY <1>7 DEF SetLocalOffer, SetRemoteAnswer, Begin
  <2>2. Has(sig, "createOffer") => Has(sig', "createOffer")
    BY <1>1, <2>1, HasAfterTail
  <2>3. Head(sig).lines \in Nat
    BY <1>1, <1>7, BeginFacts DEF SetLocalOffer, SetRemoteAnswer
  <2>4. \/ events' = events
        \/ \E call \in Calls : events' = Append(events, call)
    <3>1. [op |-> "offer", lines |-> Head(sig).lines] \in Calls
      BY <2>3 DEF Calls
    <3>2. QED  BY <1>2, <1>7, <3>1 DEF SetLocalOffer, SetRemoteAnswer, Notify
  <2>5. Has(events, "failed") => Has(events', "failed")
    BY <1>1, <2>4, HasAfterAppend
  <2>6. QED  BY <2>1, <2>2, <2>5, UnderWayKept DEF NoLostUpdate
<1>8. QED  BY <1>3, <1>4, <1>5, <1>6, <1>7 DEF SignalingTask

\* The other threads take a sign of a negotiation only to put another in place,
\* or once the engine has no manager.
LEMMA NoLostUpdateOthers ==
  ASSUME ChannelInv, ClosedIsGone, NoLostUpdate,
         \/ RunShot \/ LoseConnection \/ EventsCall \/ StartNegotiation
         \/ ServerAnswer \/ UserCall \/ \E t \in Threads : CloseStep(t)
  PROVE  NoLostUpdate'
<1>1. TypeOK /\ sig \in Seq(Tasks) /\ events \in Seq(Calls) /\ unanswered \in Seq(Nat)
  BY DEF ChannelInv, TypeOK
<1> USE DEF timerVars, gateVars, lifeVars, peerVars
<1>2. CASE gone'
  BY <1>2 DEF NoLostUpdate, NegotiationUnderWay
<1>3. CASE ~gone'
  <2>1. ~gone /\ ~FailSession /\ \A t \in Threads : ~Disconnect(t) /\ ~CloseStep(t)
    BY <1>3 DEF RunShot, LoseConnection, EventsCall, SendOffer, FailSession,
                StartNegotiation, ServerAnswer, UserCall, Publish, Unpublish, Disconnect, CloseStep,
                CancelTimer, Dispose, ResetGate, ClosedIsGone
  <2>2. CASE RunShot /\ armed
    <3>1. at'["events"] = "check"
      BY <1>1, <2>2, GoFacts DEF RunShot, Steps, Threads
    <3>2. QED  BY <3>1 DEF NoLostUpdate, NegotiationUnderWay, Threads
  <2>3. CASE RunShot /\ ~armed
    BY <2>3, UnderWayKept DEF RunShot, NoLostUpdate
  <2>4. CASE SendOffer
    <3>1. events # <<>> /\ events' = Tail(events) /\ Head(events).op # "failed"
      BY <2>4 DEF SendOffer, Deliver
    <3>2. Has(events, "failed") => Has(events', "failed")
      BY <1>1, <3>1, HasAfterTail
    <3>3. QED  BY <2>4, <3>2, UnderWayKept DEF SendOffer, NoLostUpdate
  <2>5. CASE StartNegotiation
    <3>1. at["ws"] = "setup" /\ \E step \in Steps : Go("ws", step)
      BY <2>5 DEF StartNegotiation, Steps
    <3>2. \A t \in Threads : at[t] \in Working => at'[t] \in Working
      BY <1>1, <3>1, GoFacts, IdleNotWorking DEF Threads
    <3>3. QED  BY <2>5, <3>2, UnderWayKept DEF StartNegotiation, NoLostUpdate
  <2>6. CASE ServerAnswer \/ \E t \in Tracks : Publish(t) \/ Unpublish(t)
    <3>1. \/ sig' = sig
          \/ \E task \in Tasks : sig' = Append(sig, task)
      <4>1. CASE ServerAnswer
        <5>1. Head(unanswered) \in Nat
          BY <1>1, <4>1, TailFacts DEF ServerAnswer
        <5>2. [op |-> "setRemote", lines |-> Head(unanswered)] \in Tasks
          BY <5>1 DEF Tasks
        <5>3. QED  BY <4>1, <5>2 DEF ServerAnswer, PostToPublisher, Post
      <4>2. CASE \E t \in Tracks : Publish(t) \/ Unpublish(t)
        <5>1. \A t \in Tracks : [op |-> "addTransceiver", track |-> t] \in Tasks
                             /\ [op |-> "removeTrack", track |-> t] \in Tasks
          BY DEF Tasks
        <5>2. QED  BY <4>2, <5>1 DEF Publish, Unpublish, PostToPublisher, Post
      <4>3. QED  BY <2>6, <4>1, <4>2
    <3>2. Has(sig, "createOffer") => Has(sig', "createOffer")
      BY <1>1, <3>1, HasAfterAppend
    <3>3. /\ senders' = senders /\ covered' = covered /\ at' = at /\ events' = events
          /\ armed' = armed /\ pending' = pending /\ gone' = gone /\ cut' = cut
      BY <2>6 DEF ServerAnswer, Publish, Unpublish
    <3>4. QED  BY <3>2, <3>3, UnderWayKept DEF NoLostUpdate
  <2>7. CASE LoseConnection
    <3>1. cut' = (cut \/ armed)
      BY <2>7 DEF LoseConnection
    <3>2. NegotiationUnderWay => NegotiationUnderWay' \/ cut'
      BY <2>7, <3>1 DEF LoseConnection, NegotiationUnderWay, SigHas
    <3>3. QED  BY <2>7, <3>1, <3>2 DEF LoseConnection, NoLostUpdate
  <2>8. QED  BY <2>1, <2>2, <2>3, <2>4, <2>5, <2>6, <2>7 DEF EventsCall, UserCall
<1>4. QED  BY <1>2, <1>3

\* As long as the peer connection sends other tracks than the last offer
\* describes, a negotiation is under way on some thread, unless a connection
\* lost for a while has cancelled the debounce since: cancelling by another
\* negotiation, re-arming and postponing never lose a change.
THEOREM ChangesAreNotLost == Spec => []NoLostUpdate
<1>1. Init => ClosedIsGone /\ NoLostUpdate
  BY DEF Init, ClosedIsGone, NoLostUpdate
<1>2. ChannelInv /\ ClosedIsGone /\ NoLostUpdate /\ [Next]_vars => NoLostUpdate'
  <2>1. CASE ChannelInv /\ ClosedIsGone /\ NoLostUpdate /\ Next
    BY <2>1, NoLostUpdateNegotiate, NoLostUpdateSignaling, NoLostUpdateOthers DEF Next
  <2>2. CASE NoLostUpdate /\ UNCHANGED vars
    BY <2>2 DEF vars, NoLostUpdate, NegotiationUnderWay, SigHas
  <2>3. QED  BY <2>1, <2>2
<1>3. ChannelInv => TypeOK
  BY DEF ChannelInv
<1>4. QED
  BY <1>1, <1>2, <1>3, ChannelInvInit, ChannelInvStep, ClosedIsGoneStep, PTL DEF Spec
=============================================================================
