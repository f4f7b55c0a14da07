-------------------------- MODULE LocalTracksProofs --------------------------
(***************************************************************************)
(* What TLAPS proves of LocalTracks, for any devices and any number of     *)
(* managers and calls: types, that the manager sends what the local        *)
(* participant has, and that the server knows which devices are muted.     *)
(***************************************************************************)
EXTENDS LocalTracks, FiniteSetTheorems, TLAPS

\* Where a task is in the queue of the signaling thread, if it is of the installed manager.
At(op, d) == {i \in DOMAIN tasks : tasks[i] = [op |-> op, device |-> d, manager |-> manager]}
Does(step, d) == user = [step |-> step, device |-> d]

\* A task knows a manager that was made; without one there are no tracks.
ManagerInv ==
  /\ \A i \in DOMAIN tasks : tasks[i].manager \in 1..made
  /\ manager = 0 => tracks = {}

\* What the user's thread is in the middle of, and whose removal is on its way.
UserInv ==
  /\ IsFiniteSet(devices)
  /\ user.step = "added" => user.device \in devices
  /\ user.step = "removed" => user.device \notin devices \cup fresh
  /\ \A d \in fresh : d \notin tracks /\ At("add", d) = {} /\ At("remove", d) = {}
  /\ \A d \in devices \ rejected : At("remove", d) = {}
  /\ \A i \in DOMAIN replies : replies[i].op = "unpublished" => replies[i].device \in rejected

\* The task to remove a device comes after every task to add it.
WithdrawInv ==
  \A d \in Devices \ devices :
    \/ Does("removed", d)
    \/ /\ d \in named \ stuck => At("remove", d) # {}
       /\ \A i \in At("add", d) : \E j \in At("remove", d) : i < j

\* A device is on its way once at most, unless it was added while a manager was installed.
OnceInv ==
  /\ extra \subseteq crossed
  /\ \A d \in Devices \ crossed :
       /\ \A i, j \in At("add", d) : i = j
       /\ d \in named \/ Does("added", d) \/ ws.step = "install" => At("add", d) = {}
       /\ Does("added", d) \/ ws.step = "install" => d \notin named
       /\ ws.step = "install" => ~Does("added", d)

Inv == LocalTypeOK /\ ManagerInv /\ UserInv /\ WithdrawInv /\ OnceInv /\ DeviceIsPublished

----------------------------------------------------------------------------
(* Sequences.                                                              *)

LEMMA TailFacts ==
  ASSUME NEW S, NEW s \in Seq(S), s # <<>>
  PROVE  /\ 1 \in DOMAIN s /\ Head(s) = s[1] /\ Head(s) \in S
         /\ Tail(s) \in Seq(S)
         /\ \A i \in DOMAIN Tail(s) : i \in Nat /\ i + 1 \in DOMAIN s /\ Tail(s)[i] = s[i + 1]
         /\ \A i \in DOMAIN s : i # 1 => i - 1 \in DOMAIN Tail(s) /\ Tail(s)[i - 1] = s[i]
OBVIOUS

LEMMA AppendFacts ==
  ASSUME NEW S, NEW s \in Seq(S), NEW e \in S
  PROVE  /\ Append(s, e) \in Seq(S)
         /\ DOMAIN Append(s, e) = DOMAIN s \cup {Len(s) + 1}
         /\ \A i \in DOMAIN s : Append(s, e)[i] = s[i]
         /\ Append(s, e)[Len(s) + 1] = e
OBVIOUS

LEMMA ConcatFacts ==
  ASSUME NEW S, NEW s \in Seq(S), NEW t \in Seq(S)
  PROVE  /\ s \o t \in Seq(S)
         /\ Len(s) \in Nat /\ \A i \in DOMAIN s : i \in Nat /\ i <= Len(s)
         /\ DOMAIN (s \o t) = DOMAIN s \cup {Len(s) + i : i \in DOMAIN t}
         /\ \A i \in DOMAIN s : (s \o t)[i] = s[i]
         /\ \A i \in DOMAIN t : i \in Nat \ {0} /\ (s \o t)[Len(s) + i] = t[i]
<1>1. s \o t \in Seq(S) /\ Len(s \o t) = Len(s) + Len(t) /\ Len(s) \in Nat /\ Len(t) \in Nat
  OBVIOUS
<1>2. DOMAIN s = 1..Len(s) /\ DOMAIN t = 1..Len(t) /\ DOMAIN (s \o t) = 1..(Len(s) + Len(t))
  BY <1>1
<1>3. \A i \in DOMAIN s : (s \o t)[i] = s[i]
  BY <1>1, <1>2
<1>4. \A i \in DOMAIN t : (s \o t)[Len(s) + i] = t[i]
  BY <1>1, <1>2
<1>5. DOMAIN (s \o t) = DOMAIN s \cup {Len(s) + i : i \in DOMAIN t}
  <2>1. ASSUME NEW i \in DOMAIN (s \o t), i \notin DOMAIN s
        PROVE  i - Len(s) \in DOMAIN t /\ i = Len(s) + (i - Len(s))
    BY <1>1, <1>2, <2>1
  <2> QED BY <1>1, <1>2, <2>1
<1> QED BY <1>1, <1>2, <1>3, <1>4, <1>5

\* A sequence made of a finite set has every element of it, once.
LEMMA SeqFacts ==
  ASSUME NEW S, IsFiniteSet(S), NEW s \in SetToSeqs(S)
  PROVE  /\ s \in Seq(S)
         /\ \A d \in S : \E i \in DOMAIN s : s[i] = d
         /\ \A i, j \in DOMAIN s : s[i] = s[j] => i = j
<1> DEFINE D == 1..Cardinality(S)
<1>1. s \in [D -> S] /\ \A i, j \in D : i # j => s[i] # s[j]
  BY DEF SetToSeqs
<1>2. Cardinality(S) \in Nat
  BY FS_CardinalityType
<1>3. s \in Injection(D, S)
  BY <1>1 DEF Injection, IsInjective
<1>4. Cardinality(D) = Cardinality(S)
  BY <1>2, FS_Interval
<1>5. s \in Surjection(D, S)
  BY <1>3, <1>4, FS_Injection
<1>6. \A d \in S : \E i \in D : s[i] = d
  BY <1>5 DEF Surjection
<1> QED BY <1>1, <1>2, <1>6

----------------------------------------------------------------------------
(* Types.                                                                  *)

RequestsType == Seq(RequestType)
ReplyType == [op: {"published", "unpublished"}, device: Devices, muted: Mutes]
AddedType == [device: Devices, manager: Nat]

LEMMA Types ==
  ASSUME LocalTypeOK
  PROVE  /\ manager \in Nat /\ made \in Nat /\ manager <= made
         /\ tasks \in Seq(TaskType) /\ added \in Seq(AddedType)
         /\ requests \in Seq(RequestType) /\ replies \in Seq(ReplyType)
         /\ \A d \in Devices : muted[d] \in Mutes
         /\ ws.step \in {"reconcile", "tell"} => ws.device \in Devices /\ ws.told \in Mutes
         /\ user.step \in {"added", "removed", "muted"} => user.device \in Devices
BY LocalTracksAssumption DEF LocalTypeOK, AddedType, ReplyType

\* What posting does to the queue.
LEMMA PostFacts ==
  ASSUME LocalTypeOK, NEW op \in {"add", "remove"}, NEW ds \in Seq(Devices), Post(op, ds)
  PROVE  /\ tasks' \in Seq(TaskType)
         /\ Len(tasks) \in Nat /\ \A i \in DOMAIN tasks : i \in Nat /\ i <= Len(tasks)
         /\ DOMAIN tasks' = DOMAIN tasks \cup {Len(tasks) + i : i \in DOMAIN ds}
         /\ \A i \in DOMAIN tasks : tasks'[i] = tasks[i]
         /\ \A i \in DOMAIN ds : /\ i \in Nat \ {0}
                                 /\ tasks'[Len(tasks) + i] = [op |-> op, device |-> ds[i], manager |-> manager]
<1> DEFINE t == [i \in DOMAIN ds |-> [op |-> op, device |-> ds[i], manager |-> manager]]
<1>1. manager \in Nat /\ tasks \in Seq(TaskType)
  BY Types
<1>2. DOMAIN ds = 1..Len(ds) /\ Len(ds) \in Nat /\ \A i \in DOMAIN ds : ds[i] \in Devices
  OBVIOUS
<1>3. \A i \in DOMAIN ds : [op |-> op, device |-> ds[i], manager |-> manager] \in TaskType
  BY <1>1, <1>2 DEF TaskType
<1>4. t \in Seq(TaskType)
  BY <1>2, <1>3
<1>5. DOMAIN t = DOMAIN ds /\ \A i \in DOMAIN ds : t[i] = [op |-> op, device |-> ds[i], manager |-> manager]
  OBVIOUS
<1>6. tasks' = tasks \o t
  BY DEF Post
<1> HIDE DEF t
<1>7. /\ tasks \o t \in Seq(TaskType)
      /\ Len(tasks) \in Nat /\ \A i \in DOMAIN tasks : i \in Nat /\ i <= Len(tasks)
      /\ DOMAIN (tasks \o t) = DOMAIN tasks \cup {Len(tasks) + i : i \in DOMAIN t}
      /\ \A i \in DOMAIN tasks : (tasks \o t)[i] = tasks[i]
      /\ \A i \in DOMAIN t : i \in Nat \ {0} /\ (tasks \o t)[Len(tasks) + i] = t[i]
  BY <1>1, <1>4, ConcatFacts
<1>8. DOMAIN tasks' = DOMAIN tasks \cup {Len(tasks) + i : i \in DOMAIN ds}
  BY <1>5, <1>6, <1>7
<1> QED BY <1>5, <1>6, <1>7, <1>8

LEMMA InitType == LocalInit => LocalTypeOK
<1> SUFFICES ASSUME LocalInit PROVE LocalTypeOK
  OBVIOUS
<1>1. muted \in [Devices -> Mutes] /\ copy \in [Devices -> Mutes \cup {"none"}]
  BY DEF LocalInit, Mutes
<1>2. tasks \in Seq(TaskType) /\ added \in Seq(AddedType) /\ requests \in Seq(RequestType) /\ replies \in Seq(ReplyType)
  BY DEF LocalInit
<1> QED BY <1>1, <1>2, LocalTracksAssumption DEF LocalInit, LocalTypeOK, Resting, AddedType, ReplyType

\* A request that is sent, or lost.
LEMMA SendType ==
  ASSUME LocalTypeOK, NEW op \in {"add", "mute"}, NEW d \in Devices, NEW mute \in Mutes,
         NEW timely \in BOOLEAN, Send(op, d, mute, timely)
  PROVE  requests' \in Seq(RequestType) /\ misinformed' \subseteq Devices
<1> DEFINE r == [op |-> op, device |-> d, muted |-> mute]
<1>1. r \in RequestType /\ requests \in Seq(RequestType)
  BY Types DEF RequestType
<1>2. requests' = Append(requests, r) \/ requests' = requests
  BY DEF Send
<1> HIDE DEF r
<1>3. requests' \in Seq(RequestType)
  BY <1>1, <1>2, AppendFacts
<1>4. misinformed' \subseteq Devices
  BY DEF Send, LocalTypeOK
<1> QED BY <1>3, <1>4

LEMMA PostIfManagerType ==
  ASSUME LocalTypeOK, NEW op \in {"add", "remove"}, NEW ds \in Seq(Devices), PostIfManager(op, ds)
  PROVE  tasks' \in Seq(TaskType)
BY Types, PostFacts DEF PostIfManager

LEMMA UserTypes ==
  ASSUME LocalTypeOK, User
  PROVE  LocalTypeOK'
<1> USE LocalTracksAssumption
<1>1. ASSUME NEW d \in Devices, AddDevice(d) PROVE LocalTypeOK'
  <2>1. user' \in [step: {"added", "removed", "muted"}, device: Devices]
    BY <1>1 DEF AddDevice
  <2> QED BY <1>1, <2>1 DEF AddDevice, Call, LocalTypeOK, managerVars, senderVars, serverVars
<1>2. ASSUME NEW d \in Devices, RemoveDevice(d) PROVE LocalTypeOK'
  <2>1. user' \in [step: {"added", "removed", "muted"}, device: Devices]
    BY <1>2 DEF RemoveDevice
  <2> QED BY <1>2, <2>1 DEF RemoveDevice, Call, LocalTypeOK, managerVars, senderVars, serverVars
<1>3. ASSUME NEW d \in Devices, Mute(d) PROVE LocalTypeOK'
  <2>1. user' \in [step: {"added", "removed", "muted"}, device: Devices]
    BY <1>3 DEF Mute
  <2>2. muted' \in [Devices -> Mutes]
    BY <1>3 DEF Mute, LocalTypeOK, Flip, Mutes
  <2> QED BY <1>3, <2>1, <2>2 DEF Mute, Call, LocalTypeOK, managerVars, senderVars, serverVars
<1>4. CASE PostAdd
  <2>1. <<user.device>> \in Seq(Devices)
    BY <1>4, Types DEF PostAdd
  <2>2. tasks' \in Seq(TaskType)
    BY <1>4, <2>1, PostIfManagerType DEF PostAdd
  <2> QED BY <1>4, <2>2 DEF PostAdd, Resting, LocalTypeOK, deviceVars, managerVars, senderVars, serverVars
<1>5. CASE PostRemove
  <2>1. <<user.device>> \in Seq(Devices)
    BY <1>5, Types DEF PostRemove
  <2>2. tasks' \in Seq(TaskType)
    BY <1>5, <2>1, PostIfManagerType DEF PostRemove
  <2> QED BY <1>5, <2>2 DEF PostRemove, Resting, LocalTypeOK, deviceVars, managerVars, senderVars, serverVars
<1>6. CASE TellMute
  <2>1. user.device \in Devices /\ muted[user.device] \in Mutes
    BY <1>6, Types DEF TellMute
  <2>2. requests' \in Seq(RequestType) /\ misinformed' \subseteq Devices
    <3>1. CASE Send("mute", user.device, muted[user.device], TRUE)
      BY <2>1, <3>1, SendType
    <3>2. CASE UNCHANGED <<requests, misinformed>>
      BY <3>2 DEF LocalTypeOK
    <3> QED BY <1>6, <3>1, <3>2 DEF TellMute
  <2> QED BY <1>6, <2>2 DEF TellMute, Resting, LocalTypeOK, deviceVars, managerVars, senderVars
<1> QED BY <1>1, <1>2, <1>3, <1>4, <1>5, <1>6 DEF User

LEMMA WebSocketTypes ==
  ASSUME LocalTypeOK, IsFiniteSet(devices), WebSocket
  PROVE  LocalTypeOK'
<1> USE LocalTracksAssumption
<1>1. CASE Install
  <2>1. ws' \in [step: {"idle", "install"}]
    BY <1>1 DEF Install
  <2>2. crossed' \subseteq Devices
    BY <1>1, Types DEF Install, LocalTypeOK
  <2> QED BY <1>1, <2>1, <2>2 DEF Install, LocalTypeOK, senderVars, serverVars
<1>2. CASE AddDevices
  <2>1. PICK ds \in SetToSeqs(devices) : PostIfManager("add", ds)
    BY <1>2 DEF AddDevices
  <2>2. ds \in Seq(Devices)
    BY SeqFacts DEF LocalTypeOK
  <2>3. tasks' \in Seq(TaskType)
    BY <2>1, <2>2, PostIfManagerType
  <2> QED BY <1>2, <2>3 DEF AddDevices, Resting, LocalTypeOK, deviceVars, managerVars, senderVars, serverVars
<1>3. ASSUME NEW op, Message(op)
      PROVE  /\ Head(replies) \in ReplyType /\ Head(replies).device \in Devices /\ Head(replies).muted \in Mutes
             /\ replies' \in Seq(ReplyType)
  <2>1. Head(replies) \in ReplyType /\ replies' \in Seq(ReplyType)
    BY <1>3, Types, TailFacts DEF Message
  <2> QED BY <2>1 DEF ReplyType
<1>4. CASE OnTrackPublished
  <2>1. /\ Head(replies).device \in Devices /\ Head(replies).muted \in Mutes
        /\ replies' \in Seq(ReplyType)
    BY <1>3, <1>4 DEF OnTrackPublished
  <2>2. ws' = ws \/ ws' \in [step: {"reconcile", "tell"}, device: Devices, manager: Nat, told: Mutes]
    BY <1>4, <2>1, Types DEF OnTrackPublished
  <2>3. sids' \subseteq tracks'
    BY <1>4 DEF OnTrackPublished, LocalTypeOK, senderVars
  <2> QED BY <1>4, <2>1, <2>2, <2>3
          DEF OnTrackPublished, LocalTypeOK, deviceVars, managerVars, senderVars, ReplyType
<1>5. CASE ReadMuted
  <2>1. ws.device \in Devices /\ muted[ws.device] \in Mutes /\ ws.manager \in Nat
    BY <1>5, Types DEF ReadMuted, LocalTypeOK
  <2>2. \/ ws' \in [step: {"idle", "install"}]
        \/ ws' \in [step: {"reconcile", "tell"}, device: Devices, manager: Nat, told: Mutes]
    BY <1>5, <2>1 DEF ReadMuted, Resting
  <2> QED BY <1>5, <2>2 DEF ReadMuted, LocalTypeOK, deviceVars, managerVars, senderVars, serverVars
<1>6. CASE SendMuteTrack
  <2>1. ws.device \in Devices /\ ws.told \in Mutes
    BY <1>6, Types DEF SendMuteTrack
  <2>2. requests' \in Seq(RequestType) /\ misinformed' \subseteq Devices
    <3> DEFINE timely == muted[ws.device] = ws.told
    <3>1. CASE Send("mute", ws.device, ws.told, timely)
      <4>1. timely \in BOOLEAN
        OBVIOUS
      <4> HIDE DEF timely
      <4> QED BY <2>1, <3>1, <4>1, SendType
    <3>2. CASE UNCHANGED <<requests, misinformed>>
      BY <3>2 DEF LocalTypeOK
    <3> QED BY <1>6, <3>1, <3>2 DEF SendMuteTrack
  <2> QED BY <1>6, <2>2 DEF SendMuteTrack, Resting, LocalTypeOK, deviceVars, managerVars, senderVars
<1>7. CASE OnTrackUnpublished
  <2>1. Head(replies).device \in Devices /\ replies' \in Seq(ReplyType)
    BY <1>3, <1>7 DEF OnTrackUnpublished
  <2>2. <<Head(replies).device>> \in Seq(Devices)
    BY <2>1
  <2>3. tasks' \in Seq(TaskType)
    BY <1>7, <2>2, PostFacts, Types DEF OnTrackUnpublished
  <2> QED BY <1>7, <2>1, <2>3 DEF OnTrackUnpublished, LocalTypeOK, deviceVars, managerVars, senderVars, ReplyType
<1> QED BY <1>1, <1>2, <1>4, <1>5, <1>6, <1>7 DEF WebSocket

\* The queue without its head.
LEMMA TaskFacts ==
  ASSUME LocalTypeOK, NEW op, Task(op)
  PROVE  /\ tasks # <<>> /\ 1 \in DOMAIN tasks /\ Head(tasks) = tasks[1] /\ Head(tasks).op = op
         /\ Head(tasks) \in TaskType /\ Head(tasks).device \in Devices /\ Head(tasks).manager \in Nat
         /\ tasks' \in Seq(TaskType)
         /\ \A i \in DOMAIN tasks' : i \in Nat \ {0} /\ i + 1 \in DOMAIN tasks /\ tasks'[i] = tasks[i + 1]
         /\ \A i \in DOMAIN tasks : i # 1 => i - 1 \in DOMAIN tasks' /\ tasks'[i - 1] = tasks[i]
         /\ \A i \in DOMAIN tasks : i \in Nat \ {0}
<1>1. tasks \in Seq(TaskType) /\ tasks # <<>> /\ tasks' = Tail(tasks) /\ Head(tasks).op = op
  BY Types DEF Task
<1>2. Head(tasks) \in TaskType
  BY <1>1, TailFacts
<1>3. Head(tasks).device \in Devices /\ Head(tasks).manager \in Nat
  BY <1>2 DEF TaskType
<1>4. \A i \in DOMAIN tasks : i \in Nat \ {0}
  BY <1>1
<1>5. tasks' \in Seq(TaskType)
  BY <1>1, TailFacts
<1>6. \A i \in DOMAIN tasks' : i \in Nat \ {0}
  BY <1>5
<1> QED BY <1>1, <1>2, <1>3, <1>4, <1>6, TailFacts

LEMMA OtherTypes ==
  ASSUME LocalTypeOK, Queues \/ Server \/ Close
  PROVE  LocalTypeOK'
<1>1. CASE RunAdd
  <2>1. tasks' \in Seq(TaskType) /\ Head(tasks).device \in Devices
    BY <1>1, TaskFacts DEF RunAdd
  <2>2. [device |-> Head(tasks).device, manager |-> manager] \in AddedType
    BY <2>1, Types DEF AddedType
  <2>3. added' \in Seq(AddedType)
    <3> DEFINE e == [device |-> Head(tasks).device, manager |-> manager]
    <3>1. added' = added \/ added' = Append(added, e)
      BY <1>1 DEF RunAdd
    <3>2. e \in AddedType /\ added \in Seq(AddedType)
      BY <2>2, Types
    <3> HIDE DEF e
    <3> QED BY <3>1, <3>2, AppendFacts
  <2>4. /\ named' \subseteq tracks' /\ tracks' \subseteq Devices /\ extra' \subseteq Devices
        /\ sids' \subseteq tracks' /\ refused' \subseteq Devices /\ stuck' \subseteq Devices
    BY <1>1, <2>1 DEF RunAdd, LocalTypeOK, senderVars
  <2> QED BY <1>1, <2>1, <2>3, <2>4 DEF RunAdd, LocalTypeOK, deviceVars, managerVars, serverVars, AddedType
<1>2. CASE RunRemove
  <2>1. tasks' \in Seq(TaskType) /\ Head(tasks).device \in Devices
    BY <1>2, TaskFacts DEF RunRemove
  <2>2. /\ named' \subseteq tracks' /\ tracks' \subseteq Devices
        /\ sids' \subseteq tracks' /\ stuck' \subseteq Devices
    BY <1>2, <2>1 DEF RunRemove, LocalTypeOK
  <2> QED BY <1>2, <2>1, <2>2 DEF RunRemove, LocalTypeOK, deviceVars, managerVars, serverVars
<1>3. CASE SendAddTrack
  <2>1. Head(added) \in AddedType /\ added' \in Seq(AddedType)
    BY <1>3, Types, TailFacts DEF SendAddTrack
  <2>2. Head(added).device \in Devices /\ muted[Head(added).device] \in Mutes
    BY <2>1, Types DEF AddedType
  <2>3. requests' \in Seq(RequestType) /\ misinformed' \subseteq Devices
    <3>1. CASE Send("add", Head(added).device, muted[Head(added).device], TRUE)
      BY <2>2, <3>1, SendType
    <3>2. CASE UNCHANGED <<requests, misinformed>>
      BY <3>2 DEF LocalTypeOK
    <3> QED BY <1>3, <3>1, <3>2 DEF SendAddTrack
  <2> QED BY <1>3, <2>1, <2>3 DEF SendAddTrack, LocalTypeOK, deviceVars, managerVars, senderVars, AddedType
<1>4. CASE ServerTakes
  <2> DEFINE r == Head(requests)
  <2>1. r \in RequestType /\ requests' \in Seq(RequestType)
    BY <1>4, Types, TailFacts DEF ServerTakes
  <2>2. copy' = [copy EXCEPT ![r.device] = IF r.op = "add" \/ @ # "none" THEN r.muted ELSE @]
    BY <1>4 DEF ServerTakes
  <2>3. replies' = replies \/ replies' = Append(replies, [op |-> "published", device |-> r.device, muted |-> r.muted])
    BY <1>4 DEF ServerTakes
  <2> HIDE DEF r
  <2>4. copy' \in [Devices -> Mutes \cup {"none"}]
    BY <2>1, <2>2 DEF LocalTypeOK, RequestType
  <2>5. [op |-> "published", device |-> r.device, muted |-> r.muted] \in ReplyType
    BY <2>1 DEF ReplyType, RequestType
  <2>6. replies' \in Seq(ReplyType)
    <3> DEFINE e == [op |-> "published", device |-> r.device, muted |-> r.muted]
    <3>1. replies' = replies \/ replies' = Append(replies, e)
      BY <2>3
    <3>2. e \in ReplyType /\ replies \in Seq(ReplyType)
      BY <2>5, Types
    <3> HIDE DEF e
    <3> QED BY <3>1, <3>2, AppendFacts
  <2> QED BY <1>4, <2>1, <2>4, <2>6 DEF ServerTakes, LocalTypeOK, deviceVars, managerVars, senderVars, ReplyType
<1>5. ASSUME NEW d \in Devices, ServerUnpublishes(d) PROVE LocalTypeOK'
  <2>1. copy' \in [Devices -> Mutes \cup {"none"}]
    BY <1>5 DEF ServerUnpublishes, LocalTypeOK
  <2>2. [op |-> "unpublished", device |-> d, muted |-> "muted"] \in ReplyType
    BY DEF ReplyType, Mutes
  <2>3. replies' \in Seq(ReplyType)
    BY <1>5, <2>2, Types, AppendFacts DEF ServerUnpublishes
  <2> QED BY <1>5, <2>1, <2>3 DEF ServerUnpublishes, LocalTypeOK, deviceVars, managerVars, senderVars, ReplyType
<1>6. CASE Close
  BY <1>6 DEF Close, LocalTypeOK, deviceVars
<1> QED BY <1>1, <1>2, <1>3, <1>4, <1>5, <1>6 DEF Queues, Server

----------------------------------------------------------------------------
(* Where tasks are, after one is posted or taken.                          *)

Ops == {"add", "remove"}

LEMMA AtPost ==
  ASSUME LocalTypeOK, NEW op \in Ops, NEW ds \in Seq(Devices), Post(op, ds), manager' = manager,
         NEW q \in Ops, NEW d \in Devices
  PROVE  /\ At(q, d) \subseteq At(q, d)'
         /\ \A i \in At(q, d) : i \in Nat /\ i <= Len(tasks)
         /\ \A i \in At(q, d)' \ At(q, d) : q = op /\ \E j \in DOMAIN ds : i = Len(tasks) + j /\ ds[j] = d
         /\ \A j \in DOMAIN ds : q = op /\ ds[j] = d => Len(tasks) + j \in At(q, d)' /\ j \in Nat \ {0}
         /\ Len(tasks) \in Nat
<1> USE DEF Ops
<1>1. /\ Len(tasks) \in Nat /\ \A i \in DOMAIN tasks : i \in Nat /\ i <= Len(tasks)
      /\ DOMAIN tasks' = DOMAIN tasks \cup {Len(tasks) + i : i \in DOMAIN ds}
      /\ \A i \in DOMAIN tasks : tasks'[i] = tasks[i]
      /\ \A i \in DOMAIN ds : /\ i \in Nat \ {0}
                              /\ tasks'[Len(tasks) + i] = [op |-> op, device |-> ds[i], manager |-> manager]
  BY PostFacts
<1>2. ASSUME NEW i \in At(q, d)', i \notin At(q, d)
      PROVE  q = op /\ \E j \in DOMAIN ds : i = Len(tasks) + j /\ ds[j] = d
  <2>1. i \notin DOMAIN tasks
    BY <1>1, <1>2 DEF At
  <2>2. PICK j \in DOMAIN ds : i = Len(tasks) + j
    BY <1>1, <1>2, <2>1 DEF At
  <2>3. [op |-> op, device |-> ds[j], manager |-> manager] = [op |-> q, device |-> d, manager |-> manager]
    BY <1>1, <1>2, <2>2 DEF At
  <2> QED BY <2>2, <2>3
<1> QED BY <1>1, <1>2 DEF At

LEMMA AtPostOne ==
  ASSUME LocalTypeOK, NEW op \in Ops, NEW d \in Devices, Post(op, <<d>>), manager' = manager,
         NEW q \in Ops, NEW e \in Devices
  PROVE  /\ At(q, e)' = IF q = op /\ e = d THEN At(q, e) \cup {Len(tasks) + 1} ELSE At(q, e)
         /\ \A i \in At(q, e) : i \in Nat /\ i < Len(tasks) + 1
<1> DEFINE ds == <<d>>
<1>1. ds \in Seq(Devices) /\ DOMAIN ds = {1} /\ ds[1] = d
  OBVIOUS
<1>2. Post(op, ds)
  OBVIOUS
<1> HIDE DEF ds
<1>3. /\ At(q, e) \subseteq At(q, e)'
      /\ \A i \in At(q, e) : i \in Nat /\ i <= Len(tasks)
      /\ \A i \in At(q, e)' \ At(q, e) : q = op /\ \E j \in DOMAIN ds : i = Len(tasks) + j /\ ds[j] = e
      /\ \A j \in DOMAIN ds : q = op /\ ds[j] = e => Len(tasks) + j \in At(q, e)' /\ j \in Nat \ {0}
      /\ Len(tasks) \in Nat
  BY <1>1, <1>2, AtPost
<1>4. \A i \in At(q, e) : i \in Nat /\ i < Len(tasks) + 1
  BY <1>3
<1>5. CASE q = op /\ e = d
  BY <1>1, <1>3, <1>5
<1>6. CASE ~(q = op /\ e = d)
  <2>1. ASSUME NEW i \in At(q, e)', i \notin At(q, e) PROVE FALSE
    <3>1. q = op /\ \E j \in DOMAIN ds : i = Len(tasks) + j /\ ds[j] = e
      BY <1>3, <2>1
    <3> QED BY <1>1, <1>6, <3>1
  <2>2. At(q, e)' = At(q, e)
    BY <1>3, <2>1
  <2> QED BY <1>4, <1>6, <2>2
<1> QED BY <1>4, <1>5, <1>6

LEMMA AtTask ==
  ASSUME LocalTypeOK, NEW op, Task(op), manager' = manager, NEW q, NEW d
  PROVE  /\ \A i \in At(q, d)' : i \in Nat \ {0} /\ i + 1 \in At(q, d)
         /\ \A i \in At(q, d) : i \in Nat \ {0} /\ (i # 1 => i - 1 \in At(q, d)')
         /\ 1 \in At(q, d) <=> q = op /\ d = Head(tasks).device /\ OfManager
<1>1. Head(tasks) = [op |-> op, device |-> Head(tasks).device, manager |-> Head(tasks).manager]
  BY TaskFacts DEF TaskType
<1>2. 1 \in At(q, d) <=> q = op /\ d = Head(tasks).device /\ OfManager
  BY <1>1, TaskFacts DEF At, OfManager
<1> QED BY <1>2, TaskFacts DEF At

LEMMA PostedAt == \A op, d : Posted(op, d) <=> At(op, d) # {}
BY DEF Posted, At

LEMMA AtType ==
  ASSUME LocalTypeOK, NEW op, NEW d, NEW i \in At(op, d)
  PROVE  i \in Nat \ {0}
BY Types DEF At

\* What the invariant says of one device.
Published(d) ==
  manager # 0 /\ ws.step # "install" /\ d \in devices \ (rejected \cup refused) =>
    d \in named \/ At("add", d) # {} \/ Does("added", d)

Withdrawn(d) ==
  d \notin devices =>
    \/ Does("removed", d)
    \/ /\ d \in named \ stuck => At("remove", d) # {}
       /\ \A i \in At("add", d) : \E j \in At("remove", d) : i < j

Once(d) ==
  d \notin crossed =>
    /\ d \notin extra
    /\ \A i, j \in At("add", d) : i = j
    /\ d \in named \/ Does("added", d) \/ ws.step = "install" => At("add", d) = {}
    /\ Does("added", d) \/ ws.step = "install" => d \notin named
    /\ ws.step = "install" => ~Does("added", d)

OfDevice(d) ==
  /\ d \in fresh => d \notin tracks /\ At("add", d) = {} /\ At("remove", d) = {}
  /\ d \in devices \ rejected => At("remove", d) = {}
  /\ Published(d) /\ Withdrawn(d) /\ Once(d)

General ==
  /\ ManagerInv /\ IsFiniteSet(devices)
  /\ user.step = "added" => user.device \in devices
  /\ user.step = "removed" => user.device \notin devices \cup fresh
  /\ \A i \in DOMAIN replies : replies[i].op = "unpublished" => replies[i].device \in rejected

EachDevice == \A d \in Devices : OfDevice(d)

LEMMA InvByDevice ==
  LocalTypeOK => (Inv <=> General /\ EachDevice)
<1> SUFFICES ASSUME LocalTypeOK PROVE Inv <=> General /\ EachDevice
  OBVIOUS
<1>1. devices \subseteq Devices /\ fresh \subseteq Devices /\ extra \subseteq Devices
  BY DEF LocalTypeOK
<1>2. (\A d \in Devices : Published(d)) <=> DeviceIsPublished
  BY <1>1, PostedAt DEF Published, DeviceIsPublished, Does
<1>3. (\A d \in Devices : Withdrawn(d)) <=> WithdrawInv
  BY DEF Withdrawn, WithdrawInv
<1>4. (\A d \in Devices : Once(d)) <=> OnceInv
  BY <1>1 DEF Once, OnceInv
<1>5. General /\ (\A d \in Devices : /\ d \in fresh => d \notin tracks /\ At("add", d) = {} /\ At("remove", d) = {}
                                     /\ d \in devices \ rejected => At("remove", d) = {})
        <=> ManagerInv /\ UserInv
  BY <1>1 DEF General, UserInv
<1> QED BY <1>2, <1>3, <1>4, <1>5 DEF OfDevice, EachDevice, Inv

----------------------------------------------------------------------------
(* The invariant, action by action.                                        *)

LEMMA InitInv == LocalInit => Inv
<1> SUFFICES ASSUME LocalInit PROVE Inv
  OBVIOUS
<1>1. LocalTypeOK
  BY InitType
<1>2. \A op, d : At(op, d) = {}
  BY DEF LocalInit, At
<1>3. General
  BY FS_EmptySet DEF LocalInit, General, ManagerInv, Resting
<1>4. \A d \in Devices : OfDevice(d)
  BY <1>2 DEF LocalInit, OfDevice, Published, Withdrawn, Once, Resting
<1> QED BY <1>1, <1>3, <1>4, InvByDevice DEF EachDevice

LEMMA InvByDeviceNext ==
  ASSUME LocalTypeOK', General', \A d \in Devices : OfDevice(d)'
  PROVE  Inv'
<1>1. EachDevice'
  BY DEF EachDevice
<1> QED BY <1>1, InvByDevice, PTL

LEMMA InvFacts ==
  ASSUME Inv
  PROVE  LocalTypeOK /\ General /\ \A d \in Devices : OfDevice(d)
BY InvByDevice DEF Inv, EachDevice

\* Steps that leave devices, tasks and senders alone.
LEMMA QuietStep ==
  ASSUME Inv, LocalTypeOK',
         UNCHANGED <<fresh, devices, crossed, manager, made, tasks, named, extra, tracks, refused, stuck>>,
         rejected \subseteq rejected',
         \A i \in DOMAIN replies' : replies'[i].op = "unpublished" => replies'[i].device \in rejected',
         user' = user \/ (user.step \notin {"added", "removed"} /\ user'.step \notin {"added", "removed"}),
         ws'.step = "install" <=> ws.step = "install"
  PROVE  Inv'
<1>1. LocalTypeOK /\ General /\ \A d \in Devices : OfDevice(d)
  BY InvFacts
<1>2. \A op, d : At(op, d)' = At(op, d)
  BY DEF At
<1>3. \A d : (Does("added", d)' <=> Does("added", d)) /\ (Does("removed", d)' <=> Does("removed", d))
  BY DEF Does
<1>4. General'
  BY <1>1 DEF General, ManagerInv
<1>5. \A d \in Devices : OfDevice(d)'
  BY <1>1, <1>2, <1>3 DEF OfDevice, Published, Withdrawn, Once
<1> QED BY <1>4, <1>5, InvByDeviceNext

LEMMA QuietSteps ==
  ASSUME Inv, LocalTypeOK',
         \/ \E d \in Devices : Mute(d) \/ ServerUnpublishes(d)
         \/ TellMute \/ OnTrackPublished \/ ReadMuted \/ SendMuteTrack \/ SendAddTrack \/ ServerTakes
  PROVE  Inv'
<1> DEFINE Told == \A i \in DOMAIN replies : replies[i].op = "unpublished" => replies[i].device \in rejected
<1>0. LocalTypeOK /\ Told /\ replies \in Seq(ReplyType)
  BY InvFacts, Types DEF General
<1>1. ASSUME NEW d \in Devices, Mute(d) PROVE Inv'
  <2>1. user.step \notin {"added", "removed"} /\ user'.step \notin {"added", "removed"}
    BY <1>1 DEF Mute, Call, Resting
  <2> QED BY <1>0, <1>1, <2>1, QuietStep DEF Mute, managerVars, senderVars, serverVars
<1>2. CASE TellMute
  <2>1. user.step \notin {"added", "removed"} /\ user'.step \notin {"added", "removed"}
    BY <1>2 DEF TellMute, Resting
  <2> QED BY <1>0, <1>2, <2>1, QuietStep DEF TellMute, deviceVars, managerVars, senderVars
<1>3. CASE OnTrackPublished
  <2>1. replies # <<>> /\ replies' = Tail(replies) /\ ws.step = "idle"
    BY <1>3 DEF OnTrackPublished, Message, Resting
  <2>2. Told'
    BY <1>0, <1>3, <2>1, TailFacts DEF OnTrackPublished
  <2>3. ws'.step # "install"
    BY <1>3, <2>1 DEF OnTrackPublished
  <2>4. UNCHANGED <<fresh, devices, crossed, manager, made, tasks, named, extra, tracks, refused, stuck, rejected, user>>
    BY <1>3 DEF OnTrackPublished, deviceVars, managerVars, senderVars
  <2> QED BY <1>0, <2>1, <2>2, <2>3, <2>4, QuietStep
<1>4. CASE ReadMuted
  <2>1. ws'.step # "install" /\ ws.step # "install"
    BY <1>4 DEF ReadMuted, Resting
  <2> QED BY <1>0, <1>4, <2>1, QuietStep DEF ReadMuted, deviceVars, managerVars, senderVars, serverVars
<1>5. CASE SendMuteTrack
  <2>1. ws'.step # "install" /\ ws.step # "install"
    BY <1>5 DEF SendMuteTrack, Resting
  <2> QED BY <1>0, <1>5, <2>1, QuietStep DEF SendMuteTrack, deviceVars, managerVars, senderVars
<1>6. CASE SendAddTrack
  BY <1>0, <1>6, QuietStep DEF SendAddTrack, deviceVars, managerVars, senderVars
<1>7. CASE ServerTakes
  <2> DEFINE r == [op |-> "published", device |-> Head(requests).device, muted |-> Head(requests).muted]
  <2>1. replies' = replies \/ replies' = Append(replies, r)
    BY <1>7 DEF ServerTakes
  <2>2. r.op = "published" /\ requests # <<>> /\ requests \in Seq(RequestType)
    BY <1>0, <1>7, Types DEF ServerTakes
  <2>3. Head(requests) \in RequestType
    BY <2>2, TailFacts
  <2>4. r \in ReplyType
    BY <2>3 DEF RequestType, ReplyType
  <2> HIDE DEF r
  <2>5. Told'
    BY <1>0, <1>7, <2>1, <2>2, <2>4, AppendFacts DEF ServerTakes
  <2>6. UNCHANGED <<fresh, devices, crossed, manager, made, tasks, named, extra, tracks, refused, stuck, rejected, user, ws>>
    BY <1>7 DEF ServerTakes, deviceVars, managerVars, senderVars
  <2> QED BY <2>5, <2>6, QuietStep
<1>8. ASSUME NEW d \in Devices, ServerUnpublishes(d) PROVE Inv'
  <2> DEFINE r == [op |-> "unpublished", device |-> d, muted |-> "muted"]
  <2>1. replies' = Append(replies, r) /\ rejected' = rejected \cup {d}
    BY <1>8 DEF ServerUnpublishes
  <2>2. r.device = d /\ r \in ReplyType
    BY DEF ReplyType, Mutes
  <2> HIDE DEF r
  <2>3. Told'
    BY <1>0, <2>1, <2>2, AppendFacts
  <2>4. UNCHANGED <<fresh, devices, crossed, manager, made, tasks, named, extra, tracks, refused, stuck, user, ws>>
    BY <1>8 DEF ServerUnpublishes, deviceVars, managerVars, senderVars
  <2> QED BY <2>1, <2>3, <2>4, QuietStep
<1> QED BY <1>1, <1>2, <1>3, <1>4, <1>5, <1>6, <1>7, <1>8

LEMMA AddDeviceStep ==
  ASSUME Inv, LocalTypeOK', NEW d \in Devices, AddDevice(d)
  PROVE  Inv'
<1>0. LocalTypeOK /\ General /\ \A e \in Devices : OfDevice(e)
  BY InvFacts
<1>1. /\ d \in fresh /\ fresh' = fresh \ {d} /\ devices' = devices \cup {d}
      /\ user.step = "idle" /\ user' = [step |-> "added", device |-> d]
      /\ crossed' = IF ws.step = "install" THEN crossed \cup {d} ELSE crossed
      /\ UNCHANGED <<manager, made, ws, tasks, named, extra, tracks, refused, stuck, replies, rejected>>
  BY DEF AddDevice, Call, Resting, managerVars, senderVars, serverVars
<1>2. \A op, e : At(op, e)' = At(op, e)
  BY <1>1 DEF At
<1>3. General'
  <2>1. IsFiniteSet(devices')
    BY <1>0, <1>1, FS_AddElement DEF General
  <2> QED BY <1>0, <1>1, <2>1 DEF General, ManagerInv
<1>4. d \notin devices
  BY <1>0, <1>1 DEF LocalTypeOK
<1>5. ASSUME NEW e \in Devices, e # d PROVE OfDevice(e)'
  BY <1>0, <1>1, <1>2, <1>5 DEF OfDevice, Published, Withdrawn, Once, Does
<1>6. OfDevice(d)'
  <2>1. d \notin named /\ At("add", d) = {}
    BY <1>0, <1>1 DEF OfDevice, LocalTypeOK
  <2>2. At("remove", d) = {}
    BY <1>0, <1>1 DEF OfDevice
  <2> QED BY <1>0, <1>1, <1>2, <2>1, <2>2 DEF OfDevice, Published, Withdrawn, Once, Does
<1> QED BY <1>3, <1>5, <1>6, InvByDeviceNext

LEMMA RemoveDeviceStep ==
  ASSUME Inv, LocalTypeOK', NEW d \in Devices, RemoveDevice(d)
  PROVE  Inv'
<1>0. LocalTypeOK /\ General /\ \A e \in Devices : OfDevice(e)
  BY InvFacts
<1>1. /\ d \in devices /\ devices' = devices \ {d}
      /\ user.step = "idle" /\ user' = [step |-> "removed", device |-> d]
      /\ UNCHANGED <<fresh, crossed, manager, made, ws, tasks, named, extra, tracks, refused, stuck, replies, rejected>>
  BY DEF RemoveDevice, Call, Resting, managerVars, senderVars, serverVars
<1>2. \A op, e : At(op, e)' = At(op, e)
  BY <1>1 DEF At
<1>3. General'
  <2>1. IsFiniteSet(devices') /\ d \notin fresh
    BY <1>0, <1>1, FS_RemoveElement DEF General, LocalTypeOK
  <2> QED BY <1>0, <1>1, <2>1 DEF General, ManagerInv
<1>4. \A e \in Devices : OfDevice(e)'
  BY <1>0, <1>1, <1>2 DEF OfDevice, Published, Withdrawn, Once, Does
<1> QED BY <1>3, <1>4, InvByDeviceNext

\* A task posted by the manager knows it.
LEMMA PostManager ==
  ASSUME Inv, NEW op \in Ops, NEW ds \in Seq(Devices), Post(op, ds), manager # 0, UNCHANGED <<manager, made>>
  PROVE  \A i \in DOMAIN tasks' : tasks'[i].manager \in 1..made
<1>1. LocalTypeOK /\ ManagerInv
  BY DEF Inv
<1>2. manager \in 1..made
  BY <1>1, Types
<1>3. /\ DOMAIN tasks' = DOMAIN tasks \cup {Len(tasks) + i : i \in DOMAIN ds}
      /\ \A i \in DOMAIN tasks : tasks'[i] = tasks[i]
      /\ \A i \in DOMAIN ds : /\ i \in Nat \ {0}
                              /\ tasks'[Len(tasks) + i] = [op |-> op, device |-> ds[i], manager |-> manager]
  <2>1. LocalTypeOK /\ op \in {"add", "remove"}
    BY <1>1 DEF Ops
  <2> QED BY <2>1, PostFacts
<1>4. ASSUME NEW i \in DOMAIN tasks' PROVE tasks'[i].manager \in 1..made
  <2>1. CASE i \in DOMAIN tasks
    BY <1>1, <1>3, <2>1 DEF ManagerInv
  <2>2. CASE i \notin DOMAIN tasks
    <3>1. PICK j \in DOMAIN ds : i = Len(tasks) + j
      BY <1>3, <2>2
    <3>2. tasks'[i] = [op |-> op, device |-> ds[j], manager |-> manager]
      BY <1>3, <3>1
    <3> QED BY <1>2, <3>2
  <2> QED BY <2>1, <2>2
<1> QED BY <1>4

LEMMA PostAddStep ==
  ASSUME Inv, LocalTypeOK', PostAdd
  PROVE  Inv'
<1>0. LocalTypeOK /\ General /\ \A e \in Devices : OfDevice(e)
  BY InvFacts
<1>1. PICK d \in Devices : user = [step |-> "added", device |-> d]
  BY <1>0 DEF PostAdd, LocalTypeOK
<1>2. /\ user' = Resting /\ PostIfManager("add", <<d>>)
      /\ UNCHANGED <<fresh, devices, crossed, manager, made, ws, named, extra, tracks, refused, stuck, replies, rejected>>
  BY <1>1 DEF PostAdd, deviceVars, managerVars, senderVars, serverVars
<1>3. d \in devices /\ d \notin fresh
  BY <1>0, <1>1 DEF General, LocalTypeOK
<1>4. CASE manager = 0
  <2>1. tasks' = tasks /\ \A op, e : At(op, e)' = At(op, e)
    BY <1>2, <1>4 DEF PostIfManager, At
  <2>2. General'
    BY <1>0, <1>1, <1>2, <2>1 DEF General, ManagerInv, Resting
  <2>3. \A e \in Devices : OfDevice(e)'
    BY <1>0, <1>1, <1>2, <1>3, <1>4, <2>1 DEF OfDevice, Published, Withdrawn, Once, Does, Resting
  <2> QED BY <2>2, <2>3, InvByDeviceNext
<1>5. CASE manager # 0
  <2>1. Post("add", <<d>>) /\ <<d>> \in Seq(Devices)
    BY <1>2, <1>5 DEF PostIfManager
  <2>2. General'
    <3>1. \A i \in DOMAIN tasks' : tasks'[i].manager \in 1..made
      BY <1>2, <1>5, <2>1, PostManager DEF Ops
    <3> QED BY <1>0, <1>1, <1>2, <3>1 DEF General, ManagerInv, Resting
  <2>3. \A e \in Devices : At("remove", e)' = At("remove", e)
    BY <1>0, <1>2, <2>1, AtPostOne DEF Ops
  <2>4. \A e \in Devices : e # d => At("add", e)' = At("add", e)
    BY <1>0, <1>2, <2>1, AtPostOne DEF Ops
  <2>5. At("add", d)' = At("add", d) \cup {Len(tasks) + 1}
    BY <1>0, <1>2, <2>1, AtPostOne DEF Ops
  <2>6. \A e \in Devices : e # d => OfDevice(e)'
    BY <1>0, <1>1, <1>2, <2>3, <2>4 DEF OfDevice, Published, Withdrawn, Once, Does, Resting
  <2>7. OfDevice(d)'
    BY <1>0, <1>1, <1>2, <1>3, <2>3, <2>5 DEF OfDevice, Published, Withdrawn, Once, Does, Resting
  <2> QED BY <2>2, <2>6, <2>7, InvByDeviceNext
<1> QED BY <1>4, <1>5

\* Tasks to remove a device change nothing but where the others have theirs.
LEMMA PostRemoveFacts ==
  ASSUME LocalTypeOK, NEW d \in Devices, Post("remove", <<d>>), manager' = manager
  PROVE  /\ \A e \in Devices : At("add", e)' = At("add", e)
         /\ \A e \in Devices : e # d => At("remove", e)' = At("remove", e)
         /\ At("remove", d)' = At("remove", d) \cup {Len(tasks) + 1}
         /\ \A e \in Devices : \A i \in At("add", e) : i < Len(tasks) + 1
BY AtPostOne DEF Ops

LEMMA PostRemoveStep ==
  ASSUME Inv, LocalTypeOK', PostRemove
  PROVE  Inv'
<1>0. LocalTypeOK /\ General /\ \A e \in Devices : OfDevice(e)
  BY InvFacts
<1>1. PICK d \in Devices : user = [step |-> "removed", device |-> d]
  BY <1>0 DEF PostRemove, LocalTypeOK
<1>2. /\ user' = Resting /\ PostIfManager("remove", <<d>>)
      /\ UNCHANGED <<fresh, devices, crossed, manager, made, ws, named, extra, tracks, refused, stuck, replies, rejected>>
  BY <1>1 DEF PostRemove, deviceVars, managerVars, senderVars, serverVars
<1>3. d \notin devices /\ d \notin fresh
  BY <1>0, <1>1 DEF General
<1>4. CASE manager = 0
  <2>1. tasks' = tasks /\ \A op, e : At(op, e)' = At(op, e)
    BY <1>2, <1>4 DEF PostIfManager, At
  <2>2. General'
    BY <1>0, <1>1, <1>2, <2>1 DEF General, ManagerInv, Resting
  <2>3. named = {} /\ \A op, e : At(op, e) = {}
    BY <1>0, <1>4, Types DEF General, ManagerInv, LocalTypeOK, At
  <2>4. \A e \in Devices : OfDevice(e)'
    BY <1>0, <1>1, <1>2, <1>3, <1>4, <2>1, <2>3 DEF OfDevice, Published, Withdrawn, Once, Does, Resting
  <2> QED BY <2>2, <2>4, InvByDeviceNext
<1>5. CASE manager # 0
  <2>1. Post("remove", <<d>>) /\ <<d>> \in Seq(Devices)
    BY <1>2, <1>5 DEF PostIfManager
  <2>2. General'
    <3>1. \A i \in DOMAIN tasks' : tasks'[i].manager \in 1..made
      BY <1>2, <1>5, <2>1, PostManager DEF Ops
    <3> QED BY <1>0, <1>1, <1>2, <3>1 DEF General, ManagerInv, Resting
  <2>3. /\ \A e \in Devices : At("add", e)' = At("add", e)
        /\ \A e \in Devices : e # d => At("remove", e)' = At("remove", e)
        /\ At("remove", d)' = At("remove", d) \cup {Len(tasks) + 1}
        /\ \A e \in Devices : \A i \in At("add", e) : i < Len(tasks) + 1
    BY <1>0, <1>2, <2>1, PostRemoveFacts
  <2>4. \A e \in Devices : e # d => OfDevice(e)'
    BY <1>0, <1>1, <1>2, <2>3 DEF OfDevice, Published, Withdrawn, Once, Does, Resting
  <2>5. OfDevice(d)'
    BY <1>0, <1>1, <1>2, <1>3, <2>3 DEF OfDevice, Published, Withdrawn, Once, Does, Resting
  <2> QED BY <2>2, <2>4, <2>5, InvByDeviceNext
<1> QED BY <1>4, <1>5

LEMMA UnpublishedStep ==
  ASSUME Inv, LocalTypeOK', OnTrackUnpublished
  PROVE  Inv'
<1>0. LocalTypeOK /\ General /\ \A e \in Devices : OfDevice(e)
  BY InvFacts
<1>1. /\ replies # <<>> /\ Head(replies).op = "unpublished" /\ replies' = Tail(replies)
      /\ UNCHANGED <<fresh, devices, crossed, manager, made, ws, user, named, extra, tracks, refused, stuck, rejected>>
  BY DEF OnTrackUnpublished, Message, deviceVars, managerVars, senderVars
<1>2. /\ Head(replies).device \in Devices /\ Head(replies).device \in rejected
      /\ \A i \in DOMAIN replies' : replies'[i].op = "unpublished" => replies'[i].device \in rejected
  <2>1. replies \in Seq(ReplyType)
    BY <1>0, Types
  <2>2. Head(replies) \in ReplyType /\ 1 \in DOMAIN replies /\ Head(replies) = replies[1]
    BY <1>1, <2>1, TailFacts
  <2>3. \A i \in DOMAIN replies' : i + 1 \in DOMAIN replies /\ replies'[i] = replies[i + 1]
    BY <1>1, <2>1, TailFacts
  <2> QED BY <1>0, <1>1, <2>2, <2>3 DEF General, ReplyType
<1>3. PICK d \in Devices : d = Head(replies).device
  BY <1>2
<1>4. CASE d \notin tracks \cap sids
  <2>1. tasks' = tasks /\ \A op, e : At(op, e)' = At(op, e)
    BY <1>1, <1>3, <1>4 DEF OnTrackUnpublished, At
  <2>2. General'
    BY <1>0, <1>1, <1>2, <2>1 DEF General, ManagerInv
  <2>3. \A e \in Devices : OfDevice(e)'
    BY <1>0, <1>1, <2>1 DEF OfDevice, Published, Withdrawn, Once, Does
  <2> QED BY <2>2, <2>3, InvByDeviceNext
<1>5. CASE d \in tracks \cap sids
  <2>1. Post("remove", <<d>>) /\ <<d>> \in Seq(Devices)
    BY <1>3, <1>5 DEF OnTrackUnpublished
  <2>2. manager # 0
    BY <1>0, <1>5 DEF General, ManagerInv
  <2>3. General'
    <3>1. \A i \in DOMAIN tasks' : tasks'[i].manager \in 1..made
      BY <1>1, <2>1, <2>2, PostManager DEF Ops
    <3> QED BY <1>0, <1>1, <1>2, <3>1 DEF General, ManagerInv
  <2>4. /\ \A e \in Devices : At("add", e)' = At("add", e)
        /\ \A e \in Devices : e # d => At("remove", e)' = At("remove", e)
        /\ At("remove", d)' = At("remove", d) \cup {Len(tasks) + 1}
        /\ \A e \in Devices : \A i \in At("add", e) : i < Len(tasks) + 1
    BY <1>0, <1>1, <2>1, PostRemoveFacts
  <2>5. \A e \in Devices : e # d => OfDevice(e)'
    BY <1>0, <1>1, <2>4 DEF OfDevice, Published, Withdrawn, Once, Does
  <2>6. OfDevice(d)'
    BY <1>0, <1>1, <1>2, <1>3, <1>5, <2>4 DEF OfDevice, Published, Withdrawn, Once, Does
  <2> QED BY <2>3, <2>5, <2>6, InvByDeviceNext
<1> QED BY <1>4, <1>5

\* A new manager has no tasks yet; without one the old tasks are of no manager.
LEMMA InstallStep ==
  ASSUME Inv, LocalTypeOK', Install
  PROVE  Inv'
<1>0. LocalTypeOK /\ General /\ \A e \in Devices : OfDevice(e)
  BY InvFacts
<1>1. /\ ws.step = "idle" /\ ws'.step = "install" /\ manager = 0 /\ manager' = made + 1 /\ made' = made + 1
      /\ crossed' = (IF user.step = "added" THEN crossed \cup {user.device} ELSE crossed)
      /\ UNCHANGED <<fresh, devices, user, tasks, named, extra, tracks, refused, stuck, replies, rejected>>
  BY DEF Install, Resting, senderVars, serverVars
<1>2. made \in Nat /\ \A i \in DOMAIN tasks : tasks[i].manager \in Nat /\ tasks[i].manager <= made
  BY <1>0, Types DEF General, ManagerInv
<1>3. \A op, e : At(op, e)' = {}
  BY <1>1, <1>2 DEF At
<1>4. named = {} /\ tracks = {}
  BY <1>0, <1>1 DEF General, ManagerInv, LocalTypeOK
<1>5. General'
  BY <1>0, <1>1, <1>2 DEF General, ManagerInv
<1>6. \A e \in Devices : OfDevice(e)'
  BY <1>0, <1>1, <1>3, <1>4 DEF OfDevice, Published, Withdrawn, Once, Does
<1> QED BY <1>5, <1>6, InvByDeviceNext

LEMMA CloseStep ==
  ASSUME Inv, LocalTypeOK', Close
  PROVE  Inv'
<1>0. LocalTypeOK /\ General /\ \A e \in Devices : OfDevice(e)
  BY InvFacts
<1>1. /\ manager' = 0 /\ made' = made /\ named' = {} /\ extra' = {} /\ tracks' = {}
      /\ replies' = <<>> /\ rejected' = {} /\ refused' = {} /\ stuck' = {}
      /\ UNCHANGED <<fresh, devices, crossed, user, ws, tasks>>
  BY DEF Close, deviceVars
<1>2. \A op, e : At(op, e)' = {}
  BY <1>0, <1>1, Types DEF At, General, ManagerInv
<1>3. General'
  BY <1>0, <1>1 DEF General, ManagerInv
<1>4. \A e \in Devices : OfDevice(e)'
  BY <1>0, <1>1, <1>2 DEF OfDevice, Published, Withdrawn, Once, Does
<1> QED BY <1>3, <1>4, InvByDeviceNext

LEMMA AddDevicesStep ==
  ASSUME Inv, LocalTypeOK', AddDevices
  PROVE  Inv'
<1>0. LocalTypeOK /\ General /\ \A e \in Devices : OfDevice(e)
  BY InvFacts
<1>1. /\ ws.step = "install" /\ ws'.step = "idle"
      /\ UNCHANGED <<fresh, devices, crossed, manager, made, user, named, extra, tracks, refused, stuck, replies, rejected>>
  BY DEF AddDevices, Resting, deviceVars, managerVars, senderVars, serverVars
<1>2. PICK ds \in SetToSeqs(devices) : PostIfManager("add", ds)
  BY DEF AddDevices
<1>3. /\ ds \in Seq(devices) /\ devices \subseteq Devices
      /\ \A d \in devices : \E i \in DOMAIN ds : ds[i] = d
      /\ \A i, j \in DOMAIN ds : ds[i] = ds[j] => i = j
  BY <1>0, SeqFacts DEF General, LocalTypeOK
<1>4. ds \in Seq(Devices) /\ \A i \in DOMAIN ds : ds[i] \in devices
  BY <1>3
<1>5. CASE manager = 0
  <2>1. tasks' = tasks /\ \A op, e : At(op, e)' = At(op, e)
    BY <1>1, <1>2, <1>5 DEF PostIfManager, At
  <2>2. General'
    BY <1>0, <1>1, <2>1 DEF General, ManagerInv
  <2>3. named = {} /\ \A op, e : At(op, e) = {}
    BY <1>0, <1>5, Types DEF General, ManagerInv, LocalTypeOK, At
  <2>4. \A e \in Devices : OfDevice(e)'
    BY <1>0, <1>1, <1>5, <2>1, <2>3 DEF OfDevice, Published, Withdrawn, Once, Does
  <2> QED BY <2>2, <2>4, InvByDeviceNext
<1>6. CASE manager # 0
  <2>1. Post("add", ds)
    BY <1>2, <1>6 DEF PostIfManager
  <2>2. General'
    <3>1. \A i \in DOMAIN tasks' : tasks'[i].manager \in 1..made
      BY <1>1, <1>4, <1>6, <2>1, PostManager DEF Ops
    <3> QED BY <1>0, <1>1, <3>1 DEF General, ManagerInv
  <2>3. ASSUME NEW q \in Ops, NEW e \in Devices
        PROVE  /\ At(q, e) \subseteq At(q, e)'
               /\ \A i \in At(q, e)' \ At(q, e) : q = "add" /\ \E j \in DOMAIN ds : i = Len(tasks) + j /\ ds[j] = e
               /\ \A j \in DOMAIN ds : q = "add" /\ ds[j] = e => Len(tasks) + j \in At(q, e)'
    BY <1>0, <1>1, <1>4, <2>1, AtPost DEF Ops
  <2>4. \A e \in Devices : At("remove", e)' = At("remove", e)
    BY <2>3 DEF Ops
  <2>5. ASSUME NEW e \in Devices, e \notin devices PROVE At("add", e)' = At("add", e)
    <3>1. ASSUME NEW i \in At("add", e)', i \notin At("add", e) PROVE FALSE
      <4>1. \E j \in DOMAIN ds : i = Len(tasks) + j /\ ds[j] = e
        BY <2>3, <3>1 DEF Ops
      <4> QED BY <1>4, <2>5, <4>1
    <3> QED BY <2>3, <3>1 DEF Ops
  <2>6. ASSUME NEW e \in devices
        PROVE  /\ At("add", e)' # {}
               /\ At("add", e) = {} => \A i, j \in At("add", e)' : i = j
    <3>0. e \in Devices /\ "add" \in Ops
      BY <1>3 DEF Ops
    <3>1. At("add", e)' # {}
      BY <1>3, <2>3, <3>0
    <3>2. ASSUME At("add", e) = {}, NEW i \in At("add", e)', NEW j \in At("add", e)' PROVE i = j
      <4>1. /\ \E k \in DOMAIN ds : i = Len(tasks) + k /\ ds[k] = e
            /\ \E k \in DOMAIN ds : j = Len(tasks) + k /\ ds[k] = e
        BY <2>3, <3>0, <3>2
      <4> QED BY <1>3, <4>1
    <3> QED BY <3>1, <3>2
  <2>7. ASSUME NEW e \in Devices PROVE OfDevice(e)'
    <3>1. CASE e \in devices
      <4>1. Published(e)'
        BY <2>6, <3>1 DEF Published
      <4>2. Withdrawn(e)'
        BY <1>1, <3>1 DEF Withdrawn
      <4>3. Once(e)'
        BY <1>0, <1>1, <2>6, <3>1 DEF OfDevice, Once, Does
      <4>4. e \notin fresh
        BY <1>0, <3>1 DEF LocalTypeOK
      <4> QED BY <1>0, <1>1, <2>4, <4>1, <4>2, <4>3, <4>4 DEF OfDevice
    <3>2. CASE e \notin devices
      BY <1>0, <1>1, <2>4, <2>5, <3>2 DEF OfDevice, Published, Withdrawn, Once, Does
    <3> QED BY <3>1, <3>2
  <2> QED BY <2>2, <2>7, InvByDeviceNext
<1> QED BY <1>5, <1>6

LEMMA RunAddStep ==
  ASSUME Inv, LocalTypeOK', RunAdd
  PROVE  Inv'
<1>0. LocalTypeOK /\ General /\ \A e \in Devices : OfDevice(e)
  BY InvFacts
<1>1. /\ Task("add") /\ UNCHANGED <<fresh, devices, crossed, manager, made, user, ws, replies, rejected>>
  BY DEF RunAdd, deviceVars, managerVars, serverVars
<1>2. PICK d \in Devices : d = Head(tasks).device
  BY <1>0, <1>1, TaskFacts
<1>3. ASSUME NEW q, NEW e
      PROVE  /\ \A i \in At(q, e)' : i \in Nat \ {0} /\ i + 1 \in At(q, e)
             /\ \A i \in At(q, e) : i \in Nat \ {0} /\ (i # 1 => i - 1 \in At(q, e)')
             /\ 1 \in At(q, e) <=> q = "add" /\ e = d /\ OfManager
  BY <1>0, <1>1, <1>2, AtTask
<1>4. \A i \in DOMAIN tasks' : tasks'[i].manager \in 1..made
  BY <1>0, <1>1, TaskFacts DEF General, ManagerInv
\* No task but the head leaves its queue: what it asks for is done.
<1>5. ASSUME NEW e \in Devices, e # d \/ ~OfManager,
             e \in named' <=> e \in named, e \in extra' <=> e \in extra, e \in tracks' <=> e \in tracks,
             e \in refused' <=> e \in refused, e \in stuck' <=> e \in stuck
      PROVE  OfDevice(e)'
  <2>1. \A q : (At(q, e)' = {} <=> At(q, e) = {})
    BY <1>3, <1>5
  <2>2. Withdrawn(e)'
    <3>1. ASSUME NEW i \in At("add", e)', \A k \in At("add", e) : \E j \in At("remove", e) : k < j
          PROVE  \E j \in At("remove", e)' : i < j
      <4>1. i \in Nat /\ i + 1 \in At("add", e)
        BY <1>3
      <4>2. PICK j \in At("remove", e) : i + 1 < j
        BY <3>1, <4>1
      <4>3. j \in Nat /\ j # 1 /\ j - 1 \in At("remove", e)'
        BY <1>3, <4>1, <4>2
      <4> QED BY <4>1, <4>2, <4>3
    <3> QED BY <1>0, <1>1, <1>5, <2>1, <3>1 DEF OfDevice, Withdrawn, Does
  <2>3. Once(e)'
    <3>1. ASSUME NEW i \in At("add", e)', NEW j \in At("add", e)', \A k, m \in At("add", e) : k = m
          PROVE  i = j
      BY <1>3, <3>1
    <3> QED BY <1>0, <1>1, <1>5, <2>1, <3>1 DEF OfDevice, Once, Does
  <2> QED BY <1>0, <1>1, <1>5, <2>1, <2>2, <2>3 DEF OfDevice, Published, Does
<1>6. CASE ~OfManager
  <2>1. UNCHANGED <<named, extra, tracks, refused, stuck>>
    BY <1>6 DEF RunAdd, senderVars
  <2>2. General'
    BY <1>0, <1>1, <1>4, <2>1 DEF General, ManagerInv
  <2> QED BY <1>5, <1>6, <2>1, <2>2, InvByDeviceNext
<1>7. CASE OfManager
  <2>1. /\ \/ /\ named' = named \cup {d} /\ tracks' = tracks \cup {d}
              /\ extra' = IF d \in named THEN extra \cup {d} ELSE extra
              /\ refused' = refused \ {d}
           \/ refused' = refused \cup ({d} \ named) /\ UNCHANGED <<named, extra, tracks>>
        /\ stuck' = stuck
    BY <1>2, <1>7 DEF RunAdd
  <2>2. 1 \in At("add", d) /\ manager # 0
    <3>1. 1 \in At("add", d)
      BY <1>3, <1>7
    <3>2. tasks[1].manager = manager /\ tasks[1].manager \in 1..made
      BY <1>0, <3>1 DEF At, General, ManagerInv
    <3> QED BY <3>1, <3>2, Types
  <2>3. General'
    BY <1>0, <1>1, <1>4, <2>1, <2>2 DEF General, ManagerInv
  <2>4. \A e \in Devices : e # d => OfDevice(e)'
    BY <1>5, <2>1
  <2>5. Withdrawn(d)'
    <3>1. ASSUME d \notin devices, ~Does("removed", d)
          PROVE  \A i \in At("add", d) : \E j \in At("remove", d)' : i < j + 1
      <4>1. ASSUME NEW i \in At("add", d) PROVE \E j \in At("remove", d)' : i < j + 1
        <5>1. PICK j \in At("remove", d) : i < j
          BY <1>0, <3>1, <4>1 DEF OfDevice, Withdrawn
        <5>2. j \in Nat /\ j # 1 /\ j - 1 \in At("remove", d)'
          BY <1>3, <5>1
        <5> QED BY <5>1, <5>2
      <4> QED BY <4>1
    <3>2. ASSUME d \notin devices, ~Does("removed", d), NEW i \in At("add", d)'
          PROVE  \E j \in At("remove", d)' : i < j
      <4>1. i \in Nat /\ i + 1 \in At("add", d)
        BY <1>3
      <4>2. PICK j \in At("remove", d)' : i + 1 < j + 1
        BY <3>1, <3>2, <4>1
      <4>3. j \in Nat
        BY <1>3
      <4> QED BY <4>1, <4>2, <4>3
    <3>3. d \notin devices /\ ~Does("removed", d) => At("remove", d)' # {}
      BY <2>2, <3>1
    <3> QED BY <1>1, <3>2, <3>3 DEF Withdrawn, Does
  <2>6. Once(d)'
    <3>1. ASSUME d \notin crossed PROVE d \notin named /\ At("add", d)' = {}
      <4>1. d \notin named /\ \A i \in At("add", d) : i = 1
        BY <1>0, <2>2, <3>1 DEF OfDevice, Once
      <4>2. ASSUME NEW i \in At("add", d)' PROVE FALSE
        <5>1. i \in Nat \ {0} /\ i + 1 \in At("add", d)
          BY <1>3
        <5> QED BY <4>1, <5>1
      <4> QED BY <4>1, <4>2
    <3>2. d \notin crossed => ~Does("added", d) /\ ws.step # "install"
      BY <1>0, <2>2 DEF OfDevice, Once
    <3> QED BY <1>0, <1>1, <2>1, <3>1, <3>2 DEF OfDevice, Once, Does
  <2>7. At("remove", d)' = {} <=> At("remove", d) = {}
    BY <1>3
  <2>9. d \in named' \cup refused'
    BY <2>1
  <2>8. OfDevice(d)'
    BY <1>0, <1>1, <2>1, <2>2, <2>5, <2>6, <2>7, <2>9 DEF OfDevice, Published
  <2> QED BY <2>3, <2>4, <2>8, InvByDeviceNext
<1> QED BY <1>6, <1>7

LEMMA RunRemoveStep ==
  ASSUME Inv, LocalTypeOK', RunRemove
  PROVE  Inv'
<1>0. LocalTypeOK /\ General /\ \A e \in Devices : OfDevice(e)
  BY InvFacts
<1>1. /\ Task("remove")
      /\ UNCHANGED <<fresh, devices, crossed, manager, made, user, ws, replies, rejected, refused, extra>>
  BY DEF RunRemove, deviceVars, managerVars, serverVars
<1>2. PICK d \in Devices : d = Head(tasks).device
  BY <1>0, <1>1, TaskFacts
<1>3. ASSUME NEW q, NEW e
      PROVE  /\ \A i \in At(q, e)' : i \in Nat \ {0} /\ i + 1 \in At(q, e)
             /\ \A i \in At(q, e) : i \in Nat \ {0} /\ (i # 1 => i - 1 \in At(q, e)')
             /\ 1 \in At(q, e) <=> q = "remove" /\ e = d /\ OfManager
  BY <1>0, <1>1, <1>2, AtTask
<1>4. \A i \in DOMAIN tasks' : tasks'[i].manager \in 1..made
  BY <1>0, <1>1, TaskFacts DEF General, ManagerInv
<1>5. /\ named' \subseteq named /\ tracks' \subseteq tracks
      /\ \A e : e # d \/ ~OfManager => (e \in named' <=> e \in named)
      /\ \A e : e # d \/ ~OfManager => (e \in stuck' <=> e \in stuck)
      /\ OfManager => d \notin named' \ stuck'
      /\ OfManager \/ UNCHANGED <<named, stuck>>
  BY <1>2 DEF RunRemove
<1>6. General'
  BY <1>0, <1>1, <1>4, <1>5 DEF General, ManagerInv
<1>7. ASSUME NEW e \in Devices PROVE OfDevice(e)'
  <2>1. At("add", e)' = {} <=> At("add", e) = {}
    BY <1>3
  <2>2. e # d \/ ~OfManager => (At("remove", e)' = {} <=> At("remove", e) = {})
    BY <1>3
  <2>3. ASSUME NEW i \in At("add", e)', \A k \in At("add", e) : \E j \in At("remove", e) : k < j
        PROVE  \E j \in At("remove", e)' : i < j
    <3>1. i \in Nat /\ i + 1 \in At("add", e)
      BY <1>3
    <3>2. PICK j \in At("remove", e) : i + 1 < j
      BY <2>3, <3>1
    <3>3. j \in Nat /\ j # 1 /\ j - 1 \in At("remove", e)'
      BY <1>3, <3>1, <3>2
    <3> QED BY <3>1, <3>2, <3>3
  <2>4. Withdrawn(e)'
    BY <1>0, <1>1, <1>5, <2>2, <2>3 DEF OfDevice, Withdrawn, Does
  <2>5. Once(e)'
    <3>1. ASSUME NEW i \in At("add", e)', NEW j \in At("add", e)', \A k, m \in At("add", e) : k = m
          PROVE  i = j
      BY <1>3, <3>1
    <3> QED BY <1>0, <1>1, <1>5, <2>1, <3>1 DEF OfDevice, Once, Does
  <2>6. e \in devices \ rejected => (e # d \/ ~OfManager)
    BY <1>0, <1>3 DEF OfDevice
  <2>7. Published(e)'
    BY <1>0, <1>1, <1>5, <2>1, <2>6 DEF OfDevice, Published, Does
  <2>8. At("remove", e) = {} => At("remove", e)' = {}
    BY <1>3
  <2> QED BY <1>0, <1>1, <1>5, <2>1, <2>4, <2>5, <2>7, <2>8 DEF OfDevice
<1> QED BY <1>6, <1>7, InvByDeviceNext

----------------------------------------------------------------------------
(* The theorems.                                                           *)

LEMMA Invariance == LocalSpec => []Inv
<1>1. Inv /\ [LocalNext]_localVars => Inv'
  <2> SUFFICES ASSUME Inv, [LocalNext]_localVars PROVE Inv'
    OBVIOUS
  <2>1. CASE UNCHANGED localVars
    <3>1. UNCHANGED <<fresh, calls, devices, manager, made, user, ws, tasks, named, extra, tracks,
                      added, muted, sids, requests, replies, copy, rejected, crossed, refused,
                      stuck, misinformed>>
      BY <2>1 DEF localVars
    <3> QED BY <3>1 DEF Inv, LocalTypeOK, ManagerInv, UserInv, WithdrawInv, OnceInv,
                        DeviceIsPublished, At, Does, Posted
  <2>2. CASE LocalNext
    <3>1. LocalTypeOK'
      BY <2>2, UserTypes, WebSocketTypes, OtherTypes DEF LocalNext, Inv, UserInv
    <3> QED BY <2>2, <3>1, QuietSteps, AddDeviceStep, RemoveDeviceStep, PostAddStep, PostRemoveStep,
               UnpublishedStep, InstallStep, CloseStep, AddDevicesStep, RunAddStep, RunRemoveStep
            DEF LocalNext, User, WebSocket, Queues, Server
  <2> QED BY <2>1, <2>2
<1> QED BY <1>1, InitInv, PTL DEF LocalSpec

\* addTrackDevice and removeTrackDevice against createTransportManager, however they interleave:
\* a device of the local participant has a sender or is on the way to one, unless the server has
\* unpublished it or the peer connection refused the sender, which nobody tries again; one it no
\* longer has loses its sender, unless taking it away failed; none has two unless it was added
\* while a manager was being installed.
THEOREM DevicesAreFollowed == LocalSpec => []ManagerFollowsDevices
<1>1. Inv => ManagerFollowsDevices
  <2> SUFFICES ASSUME Inv PROVE ManagerFollowsDevices
    OBVIOUS
  <2>1. RemovedDeviceIsWithdrawn
    BY PostedAt DEF Inv, WithdrawInv, RemovedDeviceIsWithdrawn, Does
  <2>2. TwiceOnlyIfCrossed
    BY DEF Inv, OnceInv, TwiceOnlyIfCrossed
  <2> QED BY <2>1, <2>2 DEF Inv, ManagerFollowsDevices
<1> QED BY <1>1, Invariance, PTL

----------------------------------------------------------------------------
(* What the server is told of mutes.                                       *)

\* Where a queue has elements of a set, and what the last of them says.
In(q, C) == {i \in DOMAIN q : q[i] \in C}
LastIs(q, C, v) == \A i \in In(q, C) : (\A j \in In(q, C) : j <= i) => q[i].muted = v

\* What the queues are without their heads, and with one element more.
Loses(q, r, C) ==
  /\ \A i \in In(r, C) : i \in Nat \ {0} /\ i + 1 \in In(q, C)
  /\ In(q, C) = {} <=> Head(q) \notin C /\ In(r, C) = {}
  /\ Head(q) \in C => 1 \in In(q, C)
  /\ \A v : LastIs(q, C, v) => LastIs(r, C, v) /\ (Head(q) \in C /\ In(r, C) = {} => Head(q).muted = v)

Gains(q, r, c, C) ==
  /\ Len(q) \in Nat
  /\ In(r, C) = IF c \in C THEN In(q, C) \cup {Len(q) + 1} ELSE In(q, C)
  /\ \A i \in In(q, C) : i \in Nat /\ i < Len(q) + 1
  /\ c \in C => \A v : c.muted = v => LastIs(r, C, v)
  /\ c \notin C => \A v : LastIs(q, C, v) => LastIs(r, C, v)

LEMMA InTail ==
  ASSUME NEW S, NEW q \in Seq(S), q # <<>>, NEW C
  PROVE  Loses(q, Tail(q), C)
<1>1. /\ Len(q) \in Nat \ {0} /\ DOMAIN q = 1..Len(q) /\ DOMAIN Tail(q) = 1..(Len(q) - 1) /\ Head(q) = q[1]
      /\ \A i \in 1..(Len(q) - 1) : Tail(q)[i] = q[i + 1]
  OBVIOUS
<1>2. \A i \in In(Tail(q), C) : i \in Nat \ {0} /\ i + 1 \in In(q, C) /\ Tail(q)[i] = q[i + 1]
  BY <1>1 DEF In
<1>3. \A i \in In(q, C) : i \in Nat /\ (i = 1 \/ i - 1 \in In(Tail(q), C))
  <2> SUFFICES ASSUME NEW i \in In(q, C), i # 1 PROVE i \in Nat /\ i - 1 \in In(Tail(q), C)
    BY <1>1 DEF In
  <2>1. i \in 1..Len(q) /\ i - 1 \in 1..(Len(q) - 1) /\ q[i] \in C
    BY <1>1 DEF In
  <2>2. Tail(q)[i - 1] = q[i]
    BY <1>1, <2>1
  <2>3. QED  BY <1>1, <2>1, <2>2 DEF In
<1>4. 1 \in In(q, C) <=> Head(q) \in C
  BY <1>1 DEF In
<1>5. In(q, C) = {} <=> Head(q) \notin C /\ In(Tail(q), C) = {}
  BY <1>2, <1>3, <1>4
<1>6. ASSUME NEW v, LastIs(q, C, v)
      PROVE  LastIs(Tail(q), C, v) /\ (Head(q) \in C /\ In(Tail(q), C) = {} => Head(q).muted = v)
  <2>1. ASSUME NEW i \in In(Tail(q), C), \A j \in In(Tail(q), C) : j <= i PROVE Tail(q)[i].muted = v
    <3>1. ASSUME NEW j \in In(q, C) PROVE j <= i + 1
      BY <1>2, <1>3, <2>1
    <3>2. QED  BY <1>2, <1>6, <3>1 DEF LastIs
  <2>2. ASSUME Head(q) \in C, In(Tail(q), C) = {} PROVE Head(q).muted = v
    <3>1. \A j \in In(q, C) : j <= 1
      BY <1>3, <2>2
    <3>2. QED  BY <1>1, <1>4, <1>6, <2>2, <3>1 DEF LastIs
  <2>3. QED  BY <2>1, <2>2 DEF LastIs
<1>7. QED  BY <1>2, <1>4, <1>5, <1>6 DEF Loses

LEMMA InAppend ==
  ASSUME NEW S, NEW q \in Seq(S), NEW c \in S, NEW C
  PROVE  Gains(q, Append(q, c), c, C)
<1>1. /\ Len(q) \in Nat /\ DOMAIN q = 1..Len(q) /\ DOMAIN Append(q, c) = 1..(Len(q) + 1)
      /\ \A i \in 1..Len(q) : Append(q, c)[i] = q[i]
      /\ Append(q, c)[Len(q) + 1] = c
  OBVIOUS
<1>2. \A i \in DOMAIN Append(q, c) : i \in DOMAIN q \/ i = Len(q) + 1
  BY <1>1
<1>3. \A i \in DOMAIN q : i \in Nat /\ i < Len(q) + 1 /\ i \in DOMAIN Append(q, c) /\ Append(q, c)[i] = q[i]
  BY <1>1
<1>4. Len(q) + 1 \in DOMAIN Append(q, c)
  BY <1>1
<1>5. In(Append(q, c), C) = IF c \in C THEN In(q, C) \cup {Len(q) + 1} ELSE In(q, C)
  BY <1>1, <1>2, <1>3, <1>4 DEF In
<1>6. \A i \in In(q, C) : i \in Nat /\ i < Len(q) + 1 /\ Append(q, c)[i] = q[i]
  BY <1>3 DEF In
<1>7. ASSUME c \in C, NEW v, c.muted = v PROVE LastIs(Append(q, c), C, v)
  <2> SUFFICES ASSUME NEW i \in In(Append(q, c), C), \A j \in In(Append(q, c), C) : j <= i
               PROVE  Append(q, c)[i].muted = v
    BY DEF LastIs
  <2>1. Len(q) + 1 <= i
    BY <1>5, <1>7
  <2>2. i = Len(q) + 1
    BY <1>1, <1>5, <1>6, <1>7, <2>1
  <2>3. QED  BY <1>1, <1>7, <2>2
<1>8. ASSUME c \notin C, NEW v, LastIs(q, C, v) PROVE LastIs(Append(q, c), C, v)
  BY <1>5, <1>6, <1>8 DEF LastIs
<1>9. QED  BY <1>1, <1>5, <1>6, <1>7, <1>8 DEF Gains

\* What is on its way about a device: the request to publish it and its answer.
InAdded(d) == In(added, {[device |-> d, manager |-> manager]})
OfRequest(d) == {r \in RequestType : r.device = d}
OfAdd(d) == {r \in RequestType : r.op = "add" /\ r.device = d}
OfAnswer(d) == {r \in ReplyType : r.op = "published" /\ r.device = d}
Adds(d) == In(requests, OfAdd(d))
Answers(d) == In(replies, OfAnswer(d))

\* One publication of a device is in one of these places, from addTrackDevice or
\* createTransportManager to the answer of the server.
Places == {"user", "install", "tasks", "added", "requests", "replies"}
Spot(p, d) ==
  CASE p = "user" -> {i \in {0} : Does("added", d)}
    [] p = "install" -> {i \in {0} : ws.step = "install" /\ d \in devices}
    [] p = "tasks" -> At("add", d)
    [] p = "added" -> InAdded(d)
    [] p = "requests" -> Adds(d)
    [] p = "replies" -> Answers(d)
Items(d) == {x \in Places \X Nat : x[2] \in Spot(x[1], d)}

AtMostOne(S) == \A x, y \in S : x = y
AtMostTwo(S) == \A x, y, z \in S : x = y \/ y = z \/ x = z

Reconciles(d) == ws.step \in {"reconcile", "tell"} /\ ws.device = d /\ ws.manager = manager

\* Without a manager nothing is on its way to the server or back.
RoundInv ==
  /\ \A i \in DOMAIN added : added[i].manager \in 1..made
  /\ ws.step \in {"reconcile", "tell"} => ws.manager \in 1..made
  /\ manager = 0 => sids = {} /\ requests = <<>> /\ replies = <<>> /\ copy = [d \in Devices |-> "none"]

\* A device is published twice at most, the second time at most once it has its sid; while it
\* is reconciled there is no second time, or nobody takes the sid away.
ItemsOf(d) ==
  /\ AtMostTwo(Items(d))
  /\ d \in sids \/ (d \in devices /\ At("remove", d) # {}) => AtMostOne(Items(d))
  /\ Reconciles(d) /\ d \in devices => Items(d) = {} \/ (d \in sids /\ At("remove", d) = {})
  /\ d \in fresh => Items(d) = {} /\ ~Reconciles(d)

\* The mute the server will have when it has taken the requests.
Stands(d, v) ==
  /\ LastIs(requests, OfRequest(d), v)
  /\ In(requests, OfRequest(d)) = {} => copy[d] \in {v, "none"}

\* That is the mute with which the device was published last, and which will be reconciled.
Says(d, v) ==
  /\ LastIs(requests, OfAdd(d), v)
  /\ Adds(d) = {} => LastIs(replies, OfAnswer(d), v)
  /\ Adds(d) = {} /\ Answers(d) = {} =>
       d \in sids /\ ws.step = "reconcile" /\ ws.device = d /\ ws.manager = manager /\ ws.told = v
Echo(d) == \E v \in Mutes : Stands(d, v) /\ Says(d, v)

\* The server will have the mute of the device, or somebody is about to tell it.
MuteOf(d) ==
  d \in tracks \ misinformed /\ InAdded(d) = {} =>
    IF d \in sids
    THEN \/ Stands(d, muted[d]) \/ Does("muted", d) \/ Echo(d)
         \/ ws = [step |-> "tell", device |-> d, manager |-> manager, told |-> muted[d]]
    ELSE \/ Adds(d) = {} /\ Answers(d) = {}
         \/ Echo(d)
         \/ d \notin devices /\ Stands(d, muted[d])

TellInv == RoundInv /\ \A d \in Devices : ItemsOf(d) /\ MuteOf(d)

Shrinks(S, T) ==
  /\ AtMostTwo(S) => AtMostTwo(T)
  /\ AtMostOne(S) => AtMostOne(T)
  /\ S = {} => T = {}

\* Publications that stay in their queues, but for heads that left them; that but one stay;
\* and one that moves from the place it had to another.
Positions == SUBSET (Places \X Nat)
Shifts(S, T, h) == \A p \in Places, i \in Nat : <<p, i>> \in T => <<p, i + h[p]>> \in S
Drops(S, T, h, e) == e \in S /\ \A p \in Places, i \in Nat : <<p, i>> \in T => <<p, i + h[p]>> \in S /\ <<p, i + h[p]>> # e
Moves(S, T, h, e, n) ==
  e \in S /\ \A p \in Places, i \in Nat : <<p, i>> \in T /\ <<p, i>> # n => <<p, i + h[p]>> \in S /\ <<p, i + h[p]>> # e

LEMMA Shift ==
  ASSUME NEW S \in Positions, NEW T \in Positions, NEW h \in [Places -> Nat], Shifts(S, T, h)
  PROVE  /\ Shrinks(S, T)
         /\ \A e : Drops(S, T, h, e) => (AtMostTwo(S) => AtMostOne(T)) /\ (AtMostOne(S) => T = {})
<1> USE DEF Positions
<1> DEFINE f == [x \in T |-> <<x[1], x[2] + h[x[1]]>>]
<1>1. ASSUME NEW x \in T
      PROVE  x[1] \in Places /\ x[2] \in Nat /\ x = <<x[1], x[2]>> /\ f[x] = <<x[1], x[2] + h[x[1]]>> /\ f[x] \in S
  <2>1. x[1] \in Places /\ x[2] \in Nat /\ x = <<x[1], x[2]>>
    OBVIOUS
  <2>2. <<x[1], x[2] + h[x[1]]>> \in S
    BY <2>1 DEF Shifts
  <2>3. QED  BY <2>1, <2>2
<1>2. ASSUME NEW x \in T, NEW y \in T, f[x] = f[y] PROVE x = y
  <2>1. x[1] = y[1] /\ x[2] + h[x[1]] = y[2] + h[y[1]]
    BY <1>1, <1>2
  <2>2. x[2] = y[2]
    BY <1>1, <2>1
  <2>3. QED  BY <1>1, <2>1, <2>2
<1> HIDE DEF f
<1>3. Shrinks(S, T)
  BY <1>1, <1>2 DEF Shrinks, AtMostTwo, AtMostOne
<1>4. ASSUME NEW e, Drops(S, T, h, e)
      PROVE  (AtMostTwo(S) => AtMostOne(T)) /\ (AtMostOne(S) => T = {})
  <2>1. e \in S /\ \A x \in T : f[x] # e
    BY <1>1, <1>4 DEF Drops
  <2>2. QED  BY <1>1, <1>2, <1>4, <2>1 DEF AtMostTwo, AtMostOne
<1>5. QED  BY <1>3, <1>4

LEMMA Move ==
  ASSUME NEW S \in Positions, NEW T \in Positions, NEW h \in [Places -> Nat], NEW e, NEW n, Moves(S, T, h, e, n)
  PROVE  Shrinks(S, T)
<1> USE DEF Positions
<1> DEFINE f == [x \in T |-> IF x = n THEN e ELSE <<x[1], x[2] + h[x[1]]>>]
<1>1. ASSUME NEW x \in T
      PROVE  /\ x[1] \in Places /\ x[2] \in Nat /\ x = <<x[1], x[2]>>
             /\ f[x] \in S
             /\ IF x = n THEN f[x] = e ELSE f[x] = <<x[1], x[2] + h[x[1]]>> /\ f[x] # e
  <2>1. x[1] \in Places /\ x[2] \in Nat /\ x = <<x[1], x[2]>>
    OBVIOUS
  <2>2. e \in S /\ (x # n => <<x[1], x[2] + h[x[1]]>> \in S /\ <<x[1], x[2] + h[x[1]]>> # e)
    BY <2>1 DEF Moves
  <2>3. QED  BY <2>1, <2>2
<1>2. ASSUME NEW x \in T, NEW y \in T, f[x] = f[y] PROVE x = y
  <2>1. CASE x = n \/ y = n
    BY <1>1, <1>2, <2>1
  <2>2. CASE x # n /\ y # n
    <3>1. x[1] = y[1] /\ x[2] + h[x[1]] = y[2] + h[y[1]]
      BY <1>1, <1>2, <2>2
    <3>2. h[x[1]] \in Nat /\ h[x[1]] = h[y[1]]
      BY <1>1, <3>1
    <3>3. x[2] = y[2]
      BY <1>1, <3>1, <3>2
    <3>4. QED  BY <1>1, <3>1, <3>3
  <2>3. QED  BY <2>1, <2>2
<1> HIDE DEF f
<1>3. QED  BY <1>1, <1>2 DEF Shrinks, AtMostTwo, AtMostOne

\* Where the publications of a device are, place by place.
Placed(d, S) ==
  /\ S \in SUBSET (Places \X Nat)
  /\ \A i \in Nat : /\ <<"user", i>> \in S <=> i = 0 /\ Does("added", d)
                    /\ <<"install", i>> \in S <=> i = 0 /\ ws.step = "install" /\ d \in devices
                    /\ <<"tasks", i>> \in S <=> i \in At("add", d)
                    /\ <<"added", i>> \in S <=> i \in InAdded(d)
                    /\ <<"requests", i>> \in S <=> i \in Adds(d)
                    /\ <<"replies", i>> \in S <=> i \in Answers(d)

LEMMA PlacedItems == \A d : Placed(d, Items(d))
<1> SUFFICES ASSUME NEW d PROVE Placed(d, Items(d))
  OBVIOUS
<1>1. \A p \in Places, i \in Nat : <<p, i>> \in Items(d) <=> i \in Spot(p, d)
  BY DEF Items
<1>2. Items(d) \in SUBSET (Places \X Nat)
  BY DEF Items
<1>3. /\ Spot("user", d) = {i \in {0} : Does("added", d)}
      /\ Spot("install", d) = {i \in {0} : ws.step = "install" /\ d \in devices}
      /\ Spot("tasks", d) = At("add", d) /\ Spot("added", d) = InAdded(d)
      /\ Spot("requests", d) = Adds(d) /\ Spot("replies", d) = Answers(d)
  BY DEF Spot
<1>4. \A i \in Nat : \A p \in Places : <<p, i>> \in Items(d) <=> i \in Spot(p, d)
  BY <1>1
<1> HIDE DEF Items
<1>5. ASSUME NEW i \in Nat
      PROVE  /\ <<"user", i>> \in Items(d) <=> i = 0 /\ Does("added", d)
             /\ <<"install", i>> \in Items(d) <=> i = 0 /\ ws.step = "install" /\ d \in devices
             /\ <<"tasks", i>> \in Items(d) <=> i \in At("add", d)
             /\ <<"added", i>> \in Items(d) <=> i \in InAdded(d)
             /\ <<"requests", i>> \in Items(d) <=> i \in Adds(d)
             /\ <<"replies", i>> \in Items(d) <=> i \in Answers(d)
  <2>1. {"user", "install", "tasks", "added", "requests", "replies"} \subseteq Places
    BY DEF Places
  <2>2. <<"user", i>> \in Items(d) <=> i = 0 /\ Does("added", d)
    BY <1>3, <1>4, <2>1
  <2>3. <<"install", i>> \in Items(d) <=> i = 0 /\ ws.step = "install" /\ d \in devices
    BY <1>3, <1>4, <2>1
  <2>4. QED  BY <1>3, <1>4, <2>1, <2>2, <2>3
<1>6. QED  BY <1>2, <1>5 DEF Placed

LEMMA PlacedNext == \A d : Placed(d, Items(d))'
<1>1. (\A d : Placed(d, Items(d)))'
  BY PlacedItems, PTL
<1>2. QED  BY <1>1

\* A step after which no publication is anywhere it was not.
LEMMA ItemsStay ==
  ASSUME NEW d,
         Does("added", d)' => Does("added", d),
         ws'.step = "install" /\ d \in devices' => ws.step = "install" /\ d \in devices,
         At("add", d)' \subseteq At("add", d), InAdded(d)' \subseteq InAdded(d),
         Adds(d)' \subseteq Adds(d), Answers(d)' \subseteq Answers(d)
  PROVE  Items(d)' \subseteq Items(d) /\ Shrinks(Items(d), Items(d)')
<1>1. /\ Placed(d, Items(d))
      /\ Items(d)' \in SUBSET (Places \X Nat)
      /\ \A i \in Nat : /\ <<"user", i>> \in Items(d)' <=> i = 0 /\ Does("added", d)'
                        /\ <<"install", i>> \in Items(d)' <=> i = 0 /\ ws'.step = "install" /\ d \in devices'
                        /\ <<"tasks", i>> \in Items(d)' <=> i \in At("add", d)'
                        /\ <<"added", i>> \in Items(d)' <=> i \in InAdded(d)'
                        /\ <<"requests", i>> \in Items(d)' <=> i \in Adds(d)'
                        /\ <<"replies", i>> \in Items(d)' <=> i \in Answers(d)'
  BY PlacedItems, PlacedNext DEF Placed
<1>2. ASSUME NEW p \in Places, NEW i \in Nat, <<p, i>> \in Items(d)' PROVE <<p, i>> \in Items(d)
  <2>1. p = "user" \/ p = "install" \/ p = "tasks" \/ p = "added" \/ p = "requests" \/ p = "replies"
    BY DEF Places
  <2>2. CASE p \in {"user", "install", "tasks"}
    BY <1>1, <1>2, <2>2 DEF Placed
  <2>3. CASE p \in {"added", "requests", "replies"}
    BY <1>1, <1>2, <2>3 DEF Placed
  <2>4. QED  BY <2>1, <2>2, <2>3
<1>3. Items(d)' \subseteq Items(d)
  BY <1>1, <1>2
<1>4. QED  BY <1>3 DEF Shrinks, AtMostTwo, AtMostOne

\* Fewer publications, and nobody who counts on them: what is known of them stays.
LEMMA ItemsKept ==
  ASSUME NEW d \in Devices, ItemsOf(d), Shrinks(Items(d), Items(d)'),
         d \in fresh' => d \in fresh, d \in sids' => d \in sids,
         d \in devices' /\ At("remove", d)' # {} => d \in sids \/ (d \in devices /\ At("remove", d) # {}),
         Reconciles(d)' => Reconciles(d),
         Reconciles(d)' /\ d \in devices' =>
           d \in devices /\ (d \in sids /\ At("remove", d) = {} => d \in sids' /\ At("remove", d)' = {})
  PROVE  ItemsOf(d)'
BY DEF ItemsOf, Shrinks

----------------------------------------------------------------------------
(* What goes with the manager.                                             *)

LEMMA QuietRound ==
  ASSUME RoundInv, UNCHANGED <<manager, made>>,
         added' \in Seq(AddedType) /\ \A i \in DOMAIN added' : \E j \in DOMAIN added : added'[i] = added[j],
         ws'.step \in {"reconcile", "tell"} => ws.step \in {"reconcile", "tell"} /\ ws'.manager = ws.manager,
         manager # 0 \/ (sids' \subseteq sids /\ UNCHANGED <<requests, replies, copy>>)
  PROVE  RoundInv'
BY DEF RoundInv

LEMMA UserRound ==
  ASSUME Inv, RoundInv, User
  PROVE  RoundInv'
<1>1. LocalTypeOK /\ (manager = 0 => tracks = {})
  BY DEF Inv, ManagerInv
<1>2. UNCHANGED <<manager, made, ws, added, sids, replies, copy>>
  BY DEF User, AddDevice, RemoveDevice, Mute, PostAdd, PostRemove, TellMute,
         managerVars, senderVars, serverVars, deviceVars
<1>3. manager = 0 => requests' = requests
  BY <1>1 DEF User, AddDevice, RemoveDevice, Mute, PostAdd, PostRemove, TellMute, Send,
              managerVars, senderVars, serverVars, deviceVars
<1>4. added \in Seq(AddedType)
  BY <1>1, Types
<1>5. QED  BY <1>2, <1>3, <1>4, QuietRound

LEMMA WebSocketRound ==
  ASSUME Inv, RoundInv, WebSocket
  PROVE  RoundInv'
<1>1. LocalTypeOK /\ manager \in {0, made} /\ made \in Nat
  BY Types DEF Inv, LocalTypeOK
<1>2. UNCHANGED <<added, copy>> /\ added \in Seq(AddedType)
  BY <1>1, Types DEF WebSocket, Install, AddDevices, OnTrackPublished, ReadMuted, SendMuteTrack, OnTrackUnpublished,
         managerVars, senderVars, serverVars, deviceVars
<1>3. CASE Install
  <2>1. /\ manager = 0 /\ manager' = made + 1 /\ made' = made + 1 /\ ws' = [step |-> "install"]
        /\ UNCHANGED <<added, sids, requests, replies, copy>>
    BY <1>3 DEF Install, senderVars, serverVars
  <2>2. \A k \in 1..made : k \in 1..made'
    BY <1>1, <2>1
  <2>3. \A i \in DOMAIN added : added[i].manager \in 1..made'
    BY <2>2 DEF RoundInv
  <2>4. manager' # 0
    BY <1>1, <2>1
  <2>5. QED  BY <2>1, <2>3, <2>4 DEF RoundInv
<1>4. CASE AddDevices \/ OnTrackUnpublished
  <2>1. /\ UNCHANGED <<manager, made, sids, requests>>
        /\ ws'.step \in {"reconcile", "tell"} => ws' = ws
        /\ replies' = replies \/ manager # 0
    BY <1>4 DEF AddDevices, OnTrackUnpublished, Message, RoundInv, Resting,
                managerVars, senderVars, serverVars, deviceVars
  <2>2. QED  BY <1>2, <2>1, QuietRound
<1>5. CASE OnTrackPublished
  <2>1. /\ manager # 0 /\ UNCHANGED <<manager, made>>
        /\ ws' = ws \/ ws'.manager = manager
    BY <1>5 DEF OnTrackPublished, Message, RoundInv, managerVars
  <2>2. manager \in 1..made
    BY <1>1, <2>1
  <2>3. QED  BY <1>2, <2>1, <2>2 DEF RoundInv
<1>6. CASE ReadMuted
  <2>1. /\ UNCHANGED <<manager, made, sids, requests, replies>>
        /\ ws.step = "reconcile"
        /\ ws'.step \in {"reconcile", "tell"} => ws'.manager = ws.manager
    BY <1>6 DEF ReadMuted, Resting, managerVars, serverVars
  <2>2. QED  BY <1>2, <2>1, QuietRound
<1>7. CASE SendMuteTrack
  <2>1. /\ UNCHANGED <<manager, made, sids, replies>> /\ ws.step = "tell" /\ ws' = Resting
        /\ ws.manager = manager \/ requests' = requests
    BY <1>7 DEF SendMuteTrack, managerVars, Send
  <2>2. ws.manager = manager => manager # 0
    BY <1>1, <2>1 DEF RoundInv
  <2>3. QED  BY <1>2, <2>1, <2>2, QuietRound DEF Resting
<1>8. QED  BY <1>3, <1>4, <1>5, <1>6, <1>7 DEF WebSocket

LEMMA OtherRound ==
  ASSUME Inv, RoundInv, Queues \/ Server \/ Close
  PROVE  RoundInv'
<1>1. LocalTypeOK /\ manager \in {0, made} /\ made \in Nat /\ added \in Seq(AddedType)
  BY Types DEF Inv, LocalTypeOK
<1>2. CASE RunAdd
  <2>1. /\ UNCHANGED <<manager, made, ws, sids, requests, replies, copy>> /\ Task("add")
        /\ \/ added' = added
           \/ OfManager /\ added' = Append(added, [device |-> Head(tasks).device, manager |-> manager])
    BY <1>2 DEF RunAdd, managerVars, serverVars
  <2>2. CASE added' = added
    BY <1>1, <2>1, <2>2, QuietRound
  <2>3. CASE OfManager /\ added' = Append(added, [device |-> Head(tasks).device, manager |-> manager])
    <3>1. tasks # <<>> /\ Head(tasks) = tasks[1] /\ 1 \in DOMAIN tasks /\ Head(tasks).device \in Devices
      BY <1>1, <2>1, TaskFacts
    <3>2. manager \in 1..made
      BY <2>3, <3>1 DEF Inv, ManagerInv, OfManager
    <3>3. [device |-> Head(tasks).device, manager |-> manager] \in AddedType
      BY <1>1, <3>1 DEF AddedType
    <3>4. \A i \in DOMAIN added' : added'[i].manager \in 1..made
      BY <1>1, <2>3, <3>2, <3>3, AppendFacts DEF RoundInv
    <3>5. QED  BY <2>1, <3>4 DEF RoundInv
  <2>4. QED  BY <2>1, <2>2, <2>3
<1>3. CASE RunRemove
  <2>1. UNCHANGED <<manager, made, ws, added, requests, replies, copy>> /\ sids' \subseteq sids
    BY <1>3 DEF RunRemove, managerVars, serverVars
  <2>2. QED  BY <1>1, <2>1, QuietRound
<1>4. CASE SendAddTrack
  <2>1. /\ UNCHANGED <<manager, made, ws, sids, replies, copy>> /\ added # <<>> /\ added' = Tail(added)
        /\ Head(added).manager = manager \/ requests' = requests
    BY <1>4 DEF SendAddTrack, managerVars, Send
  <2>2. /\ Head(added) = added[1] /\ 1 \in DOMAIN added /\ added' \in Seq(AddedType)
        /\ \A i \in DOMAIN added' : i + 1 \in DOMAIN added /\ added'[i] = added[i + 1]
    BY <1>1, <2>1, TailFacts
  <2>3. Head(added).manager = manager => manager # 0
    BY <1>1, <2>2 DEF RoundInv
  <2>4. \A i \in DOMAIN added' : \E j \in DOMAIN added : added'[i] = added[j]
    BY <2>2
  <2>5. manager # 0 \/ requests' = requests
    BY <2>1, <2>3
  <2>6. QED  BY <2>1, <2>2, <2>4, <2>5, QuietRound
<1>5. CASE Server
  <2>1. UNCHANGED <<manager, made, ws, added, sids>> /\ manager # 0
    BY <1>5 DEF Server, ServerTakes, ServerUnpublishes, RoundInv, managerVars
  <2>2. QED  BY <1>1, <2>1, QuietRound
<1>6. CASE Close
  BY <1>6 DEF Close, RoundInv
<1>7. QED  BY <1>2, <1>3, <1>4, <1>5, <1>6 DEF Queues


----------------------------------------------------------------------------
(* Where the publications of a device go.                                  *)

LEMMA LosesHead ==
  ASSUME LocalTypeOK, NEW C
  PROVE  /\ requests # <<>> => Loses(requests, Tail(requests), C)
         /\ replies # <<>> => Loses(replies, Tail(replies), C)
         /\ added # <<>> => Loses(added, Tail(added), C)
<1>1. requests \in Seq(RequestType) /\ replies \in Seq(ReplyType) /\ added \in Seq(AddedType)
  BY Types
<1>2. ASSUME NEW S, NEW q \in Seq(S), q # <<>> PROVE Loses(q, Tail(q), C)
  BY <1>2, InTail
<1>3. QED  BY <1>1, <1>2

LEMMA GainsOne ==
  ASSUME LocalTypeOK, NEW C
  PROVE  /\ \A c \in RequestType : Gains(requests, Append(requests, c), c, C)
         /\ \A c \in ReplyType : Gains(replies, Append(replies, c), c, C)
         /\ \A c \in AddedType : Gains(added, Append(added, c), c, C)
<1>1. requests \in Seq(RequestType) /\ replies \in Seq(ReplyType) /\ added \in Seq(AddedType)
  BY Types
<1>2. ASSUME NEW S, NEW q \in Seq(S), NEW c \in S PROVE Gains(q, Append(q, c), c, C)
  BY InAppend
<1>3. QED  BY <1>1, <1>2

\* Where they are now, and where after the step.
LEMMA NextItems ==
  ASSUME NEW d
  PROVE  /\ Placed(d, Items(d))
         /\ Items(d)' \in SUBSET (Places \X Nat)
         /\ \A i \in Nat : /\ <<"user", i>> \in Items(d)' <=> i = 0 /\ Does("added", d)'
                           /\ <<"install", i>> \in Items(d)' <=> i = 0 /\ ws'.step = "install" /\ d \in devices'
                           /\ <<"tasks", i>> \in Items(d)' <=> i \in At("add", d)'
                           /\ <<"added", i>> \in Items(d)' <=> i \in InAdded(d)'
                           /\ <<"requests", i>> \in Items(d)' <=> i \in Adds(d)'
                           /\ <<"replies", i>> \in Items(d)' <=> i \in Answers(d)'
BY PlacedItems, PlacedNext DEF Placed

LEMMA PlaceCases ==
  \A p \in Places : p = "user" \/ p = "install" \/ p = "tasks" \/ p = "added" \/ p = "requests" \/ p = "replies"
BY DEF Places

LEMMA AddDeviceItems ==
  ASSUME Inv, NEW d \in Devices, ItemsOf(d), NEW e \in Devices, AddDevice(e)
  PROVE  ItemsOf(d)'
<1>1. /\ user = Resting /\ e \in fresh /\ fresh' = fresh \ {e} /\ devices' = devices \cup {e}
      /\ user' = [step |-> "added", device |-> e]
      /\ UNCHANGED <<manager, ws, tasks, added, tracks, sids, requests, replies>>
  BY DEF AddDevice, Call, managerVars, senderVars, serverVars
<1>2. /\ At("add", d)' = At("add", d) /\ At("remove", d)' = At("remove", d) /\ InAdded(d)' = InAdded(d)
      /\ Adds(d)' = Adds(d) /\ Answers(d)' = Answers(d) /\ (Reconciles(d)' <=> Reconciles(d))
  BY <1>1 DEF At, InAdded, Adds, Answers, Reconciles
<1>3. CASE d # e
  <2>1. ~Does("added", d)' /\ (d \in devices' <=> d \in devices)
    BY <1>1, <1>3 DEF Does
  <2>2. Shrinks(Items(d), Items(d)')
    BY <1>1, <1>2, <2>1, ItemsStay
  <2>3. QED  BY <1>1, <1>2, <2>1, <2>2, ItemsKept
<1>4. CASE d = e
  <2>1. Items(d) = {} /\ ~Reconciles(d) /\ d \notin sids /\ At("remove", d) = {}
    BY <1>1, <1>4, InvFacts DEF ItemsOf, OfDevice, LocalTypeOK
  <2>2. At("add", d) = {} /\ InAdded(d) = {} /\ Adds(d) = {} /\ Answers(d) = {}
    <3>1. \A i \in Nat : i \notin At("add", d) /\ i \notin InAdded(d) /\ i \notin Adds(d) /\ i \notin Answers(d)
      BY <2>1, NextItems DEF Placed
    <3>2. At("add", d) \subseteq Nat /\ InAdded(d) \subseteq Nat /\ Adds(d) \subseteq Nat /\ Answers(d) \subseteq Nat
      BY Types DEF Inv, At, InAdded, Adds, Answers, In
    <3>3. QED  BY <3>1, <3>2
  <2>3. \A p \in Places, i \in Nat : <<p, i>> \in Items(d)' => (p = "user" \/ p = "install") /\ i = 0
    <3>1. ASSUME NEW p \in Places, NEW i \in Nat, <<p, i>> \in Items(d)'
          PROVE  (p = "user" \/ p = "install") /\ i = 0
      BY <1>2, <2>2, <3>1, NextItems, PlaceCases
    <3>2. QED  BY <3>1
  <2>4. AtMostTwo(Items(d)')
    <3>1. \A x \in Items(d)' : x = <<"user", 0>> \/ x = <<"install", 0>>
      BY <2>3, NextItems
    <3>2. QED  BY <3>1 DEF AtMostTwo
  <2>5. QED  BY <1>1, <1>2, <1>4, <2>1, <2>4 DEF ItemsOf
<1>5. QED  BY <1>3, <1>4


\* Mutes, removals and what the server unpublishes leave publications where they are.
LEMMA QuietItems ==
  ASSUME Inv, NEW d \in Devices, ItemsOf(d),
         \/ \E e \in Devices : RemoveDevice(e) \/ Mute(e) \/ ServerUnpublishes(e)
         \/ TellMute \/ ReadMuted \/ SendMuteTrack
  PROVE  ItemsOf(d)'
<1>1. /\ UNCHANGED <<fresh, manager, tasks, added, sids>> /\ devices' \subseteq devices
      /\ user' = user \/ user'.step # "added"
      /\ ws' = ws \/ ws' = Resting \/ (ws.step = "reconcile" /\ ws'.step = "tell" /\ ws'.device = ws.device /\ ws'.manager = ws.manager)
  <2>1. CASE \E e \in Devices : RemoveDevice(e) \/ Mute(e)
    BY <2>1 DEF RemoveDevice, Mute, managerVars, senderVars, serverVars
  <2>2. CASE TellMute \/ \E e \in Devices : ServerUnpublishes(e)
    <3>1. /\ UNCHANGED <<fresh, devices, manager, tasks, added, sids, ws>>
          /\ user' = user \/ user' = [step |-> "idle"]
      BY <2>2 DEF TellMute, ServerUnpublishes, Resting, deviceVars, managerVars
    <3>2. QED  BY <3>1
  <2>3. CASE ReadMuted
    BY <2>3 DEF ReadMuted, deviceVars, managerVars, senderVars
  <2>4. CASE SendMuteTrack
    BY <2>4 DEF SendMuteTrack, deviceVars, managerVars, senderVars
  <2>5. QED  BY <2>1, <2>2, <2>3, <2>4
<1>2. /\ requests' = requests \/ \E c \in RequestType : c.op = "mute" /\ requests' = Append(requests, c)
      /\ replies' = replies \/ \E c \in ReplyType : c.op = "unpublished" /\ replies' = Append(replies, c)
  <2>1. ASSUME NEW e \in Devices, NEW m \in Mutes
        PROVE  [op |-> "mute", device |-> e, muted |-> m] \in RequestType /\ [op |-> "unpublished", device |-> e, muted |-> "muted"] \in ReplyType
    BY DEF RequestType, ReplyType, Mutes
  <2>2. /\ user.step = "muted" => user.device \in Devices /\ muted[user.device] \in Mutes
        /\ ws.step = "tell" => ws.device \in Devices /\ ws.told \in Mutes
    BY Types DEF Inv
  <2>3. CASE \E e \in Devices : ServerUnpublishes(e)
    <3>1. PICK e \in Devices : requests' = requests /\ replies' = Append(replies, [op |-> "unpublished", device |-> e, muted |-> "muted"])
      BY <2>3 DEF ServerUnpublishes
    <3>2. PICK c : c = [op |-> "unpublished", device |-> e, muted |-> "muted"]
      OBVIOUS
    <3>3. c \in ReplyType /\ c.op = "unpublished"
      BY <2>1, <3>2 DEF Mutes
    <3>4. QED  BY <3>1, <3>2, <3>3
  <2>4. CASE TellMute
    <3>1. PICK c : c = [op |-> "mute", device |-> user.device, muted |-> muted[user.device]]
      OBVIOUS
    <3>2. c \in RequestType /\ c.op = "mute"
      BY <2>1, <2>2, <2>4, <3>1 DEF TellMute
    <3>3. UNCHANGED replies /\ (requests' = requests \/ requests' = Append(requests, c))
      BY <2>4, <3>1 DEF TellMute, Send
    <3>4. QED  BY <3>2, <3>3
  <2>5. CASE SendMuteTrack
    <3>1. PICK c : c = [op |-> "mute", device |-> ws.device, muted |-> ws.told]
      OBVIOUS
    <3>2. c \in RequestType /\ c.op = "mute"
      BY <2>1, <2>2, <2>5, <3>1 DEF SendMuteTrack
    <3>3. UNCHANGED replies /\ (requests' = requests \/ requests' = Append(requests, c))
      BY <2>5, <3>1 DEF SendMuteTrack, Send
    <3>4. QED  BY <3>2, <3>3
  <2>6. CASE ReadMuted \/ \E e \in Devices : RemoveDevice(e) \/ Mute(e)
    BY <2>6 DEF ReadMuted, RemoveDevice, Mute, serverVars
  <2>7. QED  BY <2>3, <2>4, <2>5, <2>6
<1>3. Adds(d)' = Adds(d)
  <2>1. \A c \in RequestType : c.op = "mute" => c \notin OfAdd(d)
    BY DEF OfAdd
  <2>2. CASE \E c \in RequestType : c.op = "mute" /\ requests' = Append(requests, c)
    BY <2>1, <2>2, GainsOne DEF Inv, Gains, Adds
  <2>3. QED  BY <1>2, <2>2 DEF Adds
<1>4. Answers(d)' = Answers(d)
  <2>1. \A c \in ReplyType : c.op = "unpublished" => c \notin OfAnswer(d)
    BY DEF OfAnswer
  <2>2. CASE \E c \in ReplyType : c.op = "unpublished" /\ replies' = Append(replies, c)
    BY <2>1, <2>2, GainsOne DEF Inv, Gains, Answers
  <2>3. QED  BY <1>2, <2>2 DEF Answers
<1>5. At("add", d)' = At("add", d) /\ At("remove", d)' = At("remove", d) /\ InAdded(d)' = InAdded(d)
  BY <1>1 DEF At, InAdded
<1>6. (Does("added", d)' => Does("added", d)) /\ (Reconciles(d)' => Reconciles(d)) /\ (ws'.step = "install" => ws.step = "install")
  BY <1>1 DEF Does, Reconciles, Resting
<1>7. Shrinks(Items(d), Items(d)')
  BY <1>1, <1>3, <1>4, <1>5, <1>6, ItemsStay
<1>8. QED  BY <1>1, <1>5, <1>6, <1>7, ItemsKept

LEMMA PostRemoveItems ==
  ASSUME Inv, NEW d \in Devices, ItemsOf(d), PostRemove
  PROVE  ItemsOf(d)'
<1>1. PICK e \in Devices : e = user.device /\ user.step = "removed"
  BY Types DEF Inv, PostRemove
<1>2. /\ user' = Resting /\ PostIfManager("remove", <<e>>) /\ e \notin devices
      /\ UNCHANGED <<fresh, devices, manager, ws, added, sids, requests, replies>>
  BY <1>1 DEF PostRemove, Inv, UserInv, deviceVars, managerVars, senderVars, serverVars
<1>3. At("add", d)' = At("add", d) /\ (d \in devices => At("remove", d)' = At("remove", d))
  <2>1. CASE manager = 0
    BY <1>2, <2>1 DEF PostIfManager, At
  <2>2. CASE manager # 0
    <3>1. Post("remove", <<e>>)
      BY <1>2, <2>2 DEF PostIfManager
    <3>2. QED  BY <1>2, <3>1, PostRemoveFacts DEF Inv
  <2>3. QED  BY <2>1, <2>2
<1>4. InAdded(d)' = InAdded(d) /\ Adds(d)' = Adds(d) /\ Answers(d)' = Answers(d) /\ (Reconciles(d)' <=> Reconciles(d))
  BY <1>2 DEF InAdded, Adds, Answers, Reconciles
<1>5. ~Does("added", d)'
  BY <1>2 DEF Does, Resting
<1>6. Shrinks(Items(d), Items(d)')
  BY <1>2, <1>3, <1>4, <1>5, ItemsStay
<1>7. QED  BY <1>2, <1>3, <1>4, <1>6, ItemsKept

\* Publications that stay where they are, but for the heads that left a queue.
Leaving(q) == [p \in Places |-> IF p = q THEN 1 ELSE 0]

LEMMA ShiftItems ==
  ASSUME NEW d, NEW q \in {"tasks", "added", "requests", "replies"},
         Does("added", d)' => Does("added", d),
         ws'.step = "install" /\ d \in devices' => ws.step = "install" /\ d \in devices,
         \A i \in At("add", d)' : IF q = "tasks" THEN i + 1 \in At("add", d) ELSE i \in At("add", d),
         \A i \in InAdded(d)' : IF q = "added" THEN i + 1 \in InAdded(d) ELSE i \in InAdded(d),
         \A i \in Adds(d)' : IF q = "requests" THEN i + 1 \in Adds(d) ELSE i \in Adds(d),
         \A i \in Answers(d)' : IF q = "replies" THEN i + 1 \in Answers(d) ELSE i \in Answers(d)
  PROVE  /\ \A p \in Places, i \in Nat : <<p, i>> \in Items(d)' => <<p, i + Leaving(q)[p]>> \in Items(d)
         /\ Shrinks(Items(d), Items(d)')
<1>1. Items(d) \in SUBSET (Places \X Nat) /\ Items(d)' \in SUBSET (Places \X Nat)
  BY NextItems DEF Placed
<1>2. Leaving(q) \in [Places -> Nat] /\ \A p \in Places : Leaving(q)[p] = IF p = q THEN 1 ELSE 0
  BY DEF Leaving
<1>3. ASSUME NEW p \in Places, NEW i \in Nat, <<p, i>> \in Items(d)' PROVE <<p, i + Leaving(q)[p]>> \in Items(d)
  <2>1. i + 0 = i /\ i + 1 \in Nat
    OBVIOUS
  <2>2. CASE p = q
    <3>1. <<p, i + 1>> \in Items(d)
      BY <1>3, <2>1, <2>2, NextItems DEF Placed
    <3>2. QED  BY <1>2, <2>2, <3>1
  <2>3. CASE p # q
    <3>1. <<p, i>> \in Items(d)
      <4>1. CASE p = "user" \/ p = "install"
        BY <1>3, <4>1, NextItems DEF Placed
      <4>2. CASE p = "tasks" \/ p = "added"
        BY <1>3, <2>3, <4>2, NextItems DEF Placed
      <4>3. CASE p = "requests" \/ p = "replies"
        BY <1>3, <2>3, <4>3, NextItems DEF Placed
      <4>4. QED  BY <4>1, <4>2, <4>3, PlaceCases
    <3>2. QED  BY <1>2, <2>1, <2>3, <3>1
  <2>4. QED  BY <2>2, <2>3
<1>4. PICK S, T : S = Items(d) /\ T = Items(d)'
  OBVIOUS
<1>5. S \in SUBSET (Places \X Nat) /\ T \in SUBSET (Places \X Nat)
  BY <1>1, <1>4
<1>6. \A p \in Places, i \in Nat : <<p, i>> \in T => <<p, i + Leaving(q)[p]>> \in S
  BY <1>3, <1>4
<1>7. PICK h : h = Leaving(q)
  OBVIOUS
<1>8. h \in [Places -> Nat]
  BY <1>2, <1>7
<1>9. Shifts(S, T, h)
  BY <1>6, <1>7 DEF Shifts
<1>10. Shrinks(S, T)
  BY ONLY <1>5, <1>8, <1>9, Shift DEF Positions
<1>11. QED  BY <1>3, <1>4, <1>10


\* A publication that leaves the head of a queue for another place.
LEMMA MoveItems ==
  ASSUME NEW d, NEW q \in {"tasks", "added", "requests"}, <<q, 1>> \in Items(d), NEW n,
         Does("added", d)' => Does("added", d),
         ws'.step = "install" /\ d \in devices' => ws.step = "install" /\ d \in devices,
         \A i \in At("add", d)' : <<"tasks", i>> = n \/ IF q = "tasks" THEN i # 0 /\ i + 1 \in At("add", d) ELSE i \in At("add", d),
         \A i \in InAdded(d)' : <<"added", i>> = n \/ IF q = "added" THEN i # 0 /\ i + 1 \in InAdded(d) ELSE i \in InAdded(d),
         \A i \in Adds(d)' : <<"requests", i>> = n \/ IF q = "requests" THEN i # 0 /\ i + 1 \in Adds(d) ELSE i \in Adds(d),
         \A i \in Answers(d)' : <<"replies", i>> = n \/ i \in Answers(d)
  PROVE  Shrinks(Items(d), Items(d)')
<1>1. Items(d) \in SUBSET (Places \X Nat) /\ Items(d)' \in SUBSET (Places \X Nat)
  BY NextItems DEF Placed
<1>2. Leaving(q) \in [Places -> Nat] /\ \A p \in Places : Leaving(q)[p] = IF p = q THEN 1 ELSE 0
  BY DEF Leaving
<1>3. ASSUME NEW p \in Places, NEW i \in Nat, <<p, i>> \in Items(d)', <<p, i>> # n
      PROVE  <<p, i + Leaving(q)[p]>> \in Items(d) /\ <<p, i + Leaving(q)[p]>> # <<q, 1>>
  <2>1. i + 0 = i /\ i + 1 \in Nat /\ (i # 0 => i + 1 # 1)
    OBVIOUS
  <2>2. CASE p = q
    <3>1. i # 0 /\ <<p, i + 1>> \in Items(d)
      <4>1. CASE p = "tasks"
        BY <1>3, <2>1, <2>2, <4>1, NextItems DEF Placed
      <4>2. CASE p = "added"
        BY <1>3, <2>1, <2>2, <4>2, NextItems DEF Placed
      <4>3. CASE p = "requests"
        BY <1>3, <2>1, <2>2, <4>3, NextItems DEF Placed
      <4>4. QED  BY <2>2, <4>1, <4>2, <4>3
    <3>2. QED  BY <1>2, <2>1, <2>2, <3>1
  <2>3. CASE p # q
    <3>1. <<p, i>> \in Items(d)
      <4>1. CASE p = "user" \/ p = "install"
        BY <1>3, <4>1, NextItems DEF Placed
      <4>2. CASE p = "tasks" \/ p = "added"
        BY <1>3, <2>3, <4>2, NextItems DEF Placed
      <4>3. CASE p = "requests" \/ p = "replies"
        BY <1>3, <2>3, <4>3, NextItems DEF Placed
      <4>4. QED  BY <4>1, <4>2, <4>3, PlaceCases
    <3>2. QED  BY <1>2, <2>1, <2>3, <3>1
  <2>4. QED  BY <2>2, <2>3
<1>4. PICK S, T, h, e : S = Items(d) /\ T = Items(d)' /\ h = Leaving(q) /\ e = <<q, 1>>
  OBVIOUS
<1>5. S \in SUBSET (Places \X Nat) /\ T \in SUBSET (Places \X Nat) /\ h \in [Places -> Nat] /\ e \in S
  BY <1>1, <1>2, <1>4
<1>6. Moves(S, T, h, e, n)
  BY <1>3, <1>4, <1>5 DEF Moves
<1>7. Shrinks(S, T)
  BY ONLY <1>5, <1>6, Move DEF Positions
<1>8. QED  BY <1>4, <1>7

\* The answer of the server that is handled is a publication less.
LEMMA ConsumeItems ==
  ASSUME NEW d, 1 \in Answers(d),
         Does("added", d)' => Does("added", d),
         ws'.step = "install" /\ d \in devices' => ws.step = "install" /\ d \in devices,
         At("add", d)' \subseteq At("add", d), InAdded(d)' \subseteq InAdded(d), Adds(d)' \subseteq Adds(d),
         \A i \in Answers(d)' : i # 0 /\ i + 1 \in Answers(d)
  PROVE  /\ AtMostTwo(Items(d)) => AtMostOne(Items(d)')
         /\ AtMostOne(Items(d)) => Items(d)' = {}
<1>1. Items(d) \in SUBSET (Places \X Nat) /\ Items(d)' \in SUBSET (Places \X Nat) /\ <<"replies", 1>> \in Items(d)
  BY NextItems DEF Placed
<1>2. Leaving("replies") \in [Places -> Nat] /\ \A p \in Places : Leaving("replies")[p] = IF p = "replies" THEN 1 ELSE 0
  BY DEF Leaving
<1>3. \A p \in Places, i \in Nat : <<p, i>> \in Items(d)' => <<p, i + Leaving("replies")[p]>> \in Items(d)
  BY ShiftItems
<1>4. ASSUME NEW p \in Places, NEW i \in Nat, <<p, i>> \in Items(d)' PROVE <<p, i + Leaving("replies")[p]>> # <<"replies", 1>>
  <2>1. CASE p = "replies"
    <3>1. i # 0
      BY <1>4, <2>1, NextItems
    <3>2. i + 1 # 1
      BY <3>1
    <3>3. QED  BY <1>2, <2>1, <3>2
  <2>2. QED  BY <2>1
<1>5. PICK S, T, h, e : S = Items(d) /\ T = Items(d)' /\ h = Leaving("replies") /\ e = <<"replies", 1>>
  OBVIOUS
<1>6. S \in SUBSET (Places \X Nat) /\ T \in SUBSET (Places \X Nat) /\ h \in [Places -> Nat] /\ e \in S
  BY <1>1, <1>2, <1>5
<1>7. Shifts(S, T, h) /\ Drops(S, T, h, e)
  BY <1>3, <1>4, <1>5, <1>6 DEF Shifts, Drops
<1>8. (AtMostTwo(S) => AtMostOne(T)) /\ (AtMostOne(S) => T = {})
  BY ONLY <1>6, <1>7, Shift DEF Positions
<1>9. QED  BY <1>5, <1>8

LEMMA OnTrackUnpublishedItems ==
  ASSUME Inv, NEW d \in Devices, ItemsOf(d), OnTrackUnpublished
  PROVE  ItemsOf(d)'
<1>1. /\ ws = Resting /\ replies # <<>> /\ replies' = Tail(replies) /\ Head(replies).op = "unpublished"
      /\ UNCHANGED <<fresh, devices, manager, user, ws, added, sids, requests>>
  BY DEF OnTrackUnpublished, Message, deviceVars, managerVars, senderVars
<1>2. Head(replies) \in ReplyType /\ Head(replies).device \in Devices
  <2>1. replies \in Seq(ReplyType)
    BY Types DEF Inv
  <2>2. Head(replies) \in ReplyType
    BY <1>1, <2>1, TailFacts
  <2>3. QED  BY <2>2 DEF ReplyType
<1>3. At("add", d)' = At("add", d) /\ (d \notin sids => At("remove", d)' = At("remove", d))
  <2>1. CASE Head(replies).device \in tracks \cap sids
    <3>1. PICK e \in Devices : e = Head(replies).device
      BY <1>2
    <3>2. Post("remove", <<e>>) /\ e \in sids
      BY <2>1, <3>1 DEF OnTrackUnpublished
    <3>3. QED  BY <1>1, <3>2, PostRemoveFacts DEF Inv
  <2>2. CASE Head(replies).device \notin tracks \cap sids
    BY <1>1, <2>2 DEF OnTrackUnpublished, At
  <2>3. QED  BY <2>1, <2>2
<1>4. Head(replies) \notin OfAnswer(d)
  BY <1>1 DEF OfAnswer
<1>5. Loses(replies, Tail(replies), OfAnswer(d))
  BY <1>1, LosesHead DEF Inv
<1>6. \A i \in Answers(d)' : i + 1 \in Answers(d)
  BY <1>1, <1>5 DEF Loses, Answers
<1>7. InAdded(d)' = InAdded(d) /\ Adds(d)' = Adds(d) /\ (Does("added", d)' <=> Does("added", d)) /\ ~Reconciles(d)'
  BY <1>1 DEF InAdded, Adds, Does, Reconciles, Resting
<1>8. Shrinks(Items(d), Items(d)')
  BY <1>1, <1>3, <1>6, <1>7, ShiftItems
<1>9. QED  BY <1>1, <1>3, <1>7, <1>8, ItemsKept

LEMMA RunRemoveItems ==
  ASSUME Inv, NEW d \in Devices, ItemsOf(d), RunRemove
  PROVE  ItemsOf(d)'
<1>1. /\ Task("remove") /\ LocalTypeOK
      /\ UNCHANGED <<fresh, devices, manager, user, ws, added, requests, replies>>
      /\ sids' \subseteq sids /\ (d \in sids /\ d \notin sids' => OfManager /\ d = Head(tasks).device)
  BY DEF Inv, RunRemove, deviceVars, managerVars, serverVars
<1>2. /\ \A i \in At("add", d)' : i + 1 \in At("add", d)
      /\ At("remove", d)' # {} => At("remove", d) # {}
      /\ OfManager /\ d = Head(tasks).device => At("remove", d) # {}
  BY <1>1, AtTask
<1>3. /\ InAdded(d)' = InAdded(d) /\ Adds(d)' = Adds(d) /\ Answers(d)' = Answers(d)
      /\ (Does("added", d)' <=> Does("added", d)) /\ (Reconciles(d)' <=> Reconciles(d))
  BY <1>1 DEF InAdded, Adds, Answers, Does, Reconciles
<1>4. Shrinks(Items(d), Items(d)')
  BY <1>1, <1>2, <1>3, ShiftItems
<1>5. QED  BY <1>1, <1>2, <1>3, <1>4, ItemsKept


\* A session begins or ends: what is left is what the user adds and what is being installed.
LEMMA SessionItems ==
  ASSUME Inv, RoundInv, NEW d \in Devices, ItemsOf(d), Install \/ Close
  PROVE  ItemsOf(d)'
<1>1. LocalTypeOK /\ manager \in {0, made} /\ made \in Nat /\ ManagerInv /\ UserInv
  BY Types DEF Inv, LocalTypeOK
<1>2. /\ UNCHANGED <<fresh, devices, user, tasks, added>> /\ manager' \notin 1..made
      /\ requests' = <<>> /\ replies' = <<>> /\ sids' = {}
      /\ ws' = ws \/ ws' = [step |-> "install"]
  <2>1. CASE Install
    BY <1>1, <2>1 DEF Install, senderVars, serverVars, RoundInv
  <2>2. CASE Close
    BY <1>1, <2>2 DEF Close, deviceVars
  <2>3. QED  BY <2>1, <2>2
<1>3. At("add", d)' = {} /\ At("remove", d)' = {}
  BY <1>1, <1>2 DEF At, ManagerInv
<1>4. Adds(d)' = {} /\ Answers(d)' = {}
  BY <1>2 DEF Adds, Answers, In
<1>5. InAdded(d)' = {}
  <2>1. \A i \in DOMAIN added : added[i].manager # manager'
    BY <1>2 DEF RoundInv
  <2>2. QED  BY <1>2, <2>1 DEF InAdded, In
<1>6. ~Reconciles(d)'
  BY <1>2 DEF RoundInv, Reconciles
<1>7. \A p \in Places, i \in Nat :
        <<p, i>> \in Items(d)' => i = 0 /\ ((p = "user" /\ d \in devices) \/ (p = "install" /\ d \in devices'))
  <2>1. Does("added", d)' => d \in devices
    BY <1>1, <1>2 DEF Does, UserInv
  <2>2. ASSUME NEW p \in Places, NEW i \in Nat, <<p, i>> \in Items(d)'
        PROVE  i = 0 /\ ((p = "user" /\ d \in devices) \/ (p = "install" /\ d \in devices'))
    <3>1. CASE p = "user" \/ p = "install"
      BY <2>1, <2>2, <3>1, NextItems
    <3>2. CASE p \notin {"user", "install"}
      BY <1>3, <1>4, <1>5, <2>2, <3>2, NextItems, PlaceCases
    <3>3. QED  BY <3>1, <3>2
  <2>3. QED  BY <2>2
<1>8. \A x \in Items(d)' : d \in devices /\ (x = <<"user", 0>> \/ x = <<"install", 0>>)
  BY <1>2, <1>7, NextItems
<1>9. d \in fresh' => Items(d)' = {}
  BY <1>1, <1>2, <1>8 DEF LocalTypeOK
<1>10. AtMostTwo(Items(d)')
  BY <1>8 DEF AtMostTwo
<1>11. QED  BY <1>2, <1>3, <1>6, <1>9, <1>10 DEF ItemsOf

LEMMA PostAddItems ==
  ASSUME Inv, NEW d \in Devices, ItemsOf(d), PostAdd
  PROVE  ItemsOf(d)'
<1>0. LocalTypeOK
  BY DEF Inv
<1>1. PICK e \in Devices : user = [step |-> "added", device |-> e]
  BY DEF PostAdd, Inv, LocalTypeOK
<1>2. /\ user' = Resting /\ PostIfManager("add", <<e>>)
      /\ UNCHANGED <<fresh, devices, manager, ws, added, sids, requests, replies>>
  BY <1>1 DEF PostAdd, deviceVars, managerVars, senderVars, serverVars
<1>3. /\ At("remove", d)' = At("remove", d)
      /\ At("add", d)' = At("add", d) \/ (d = e /\ Len(tasks) + 1 \in Nat /\ At("add", d)' = At("add", d) \cup {Len(tasks) + 1})
  <2>1. CASE manager = 0
    BY <1>2, <2>1 DEF PostIfManager, At
  <2>2. CASE manager # 0
    <3>1. Post("add", <<e>>)
      BY <1>2, <2>2 DEF PostIfManager
    <3>2. Len(tasks) + 1 \in Nat
      BY <1>0, Types
    <3>3. QED  BY <1>0, <1>2, <3>1, <3>2, AtPostOne DEF Ops
  <2>3. QED  BY <2>1, <2>2
<1>4. /\ InAdded(d)' = InAdded(d) /\ Adds(d)' = Adds(d) /\ Answers(d)' = Answers(d) /\ (Reconciles(d)' <=> Reconciles(d))
      /\ ~Does("added", d)'
  BY <1>2 DEF InAdded, Adds, Answers, Reconciles, Does, Resting
<1>5. Shrinks(Items(d), Items(d)')
  <2>1. CASE At("add", d)' = At("add", d)
    BY <1>2, <1>4, <2>1, ItemsStay
  <2>2. CASE d = e /\ At("add", d)' = At("add", d) \cup {Len(tasks) + 1}
    <3>1. Items(d) \in Positions /\ Items(d)' \in Positions /\ <<"user", 0>> \in Items(d)
      BY <1>1, <2>2, NextItems DEF Placed, Positions, Does
    <3>2. ASSUME NEW p \in Places, NEW i \in Nat, <<p, i>> \in Items(d)', <<p, i>> # <<"tasks", Len(tasks) + 1>>
          PROVE  <<p, i>> \in Items(d) /\ p # "user"
      <4>1. p # "user" /\ (p = "tasks" => i # Len(tasks) + 1)
        BY <1>4, <3>2, NextItems
      <4>2. CASE p = "install" \/ p = "tasks"
        BY <1>2, <2>2, <3>2, <4>1, <4>2, NextItems DEF Placed
      <4>3. CASE p = "added" \/ p = "requests" \/ p = "replies"
        BY <1>4, <3>2, <4>3, NextItems DEF Placed
      <4>4. QED  BY <4>1, <4>2, <4>3, PlaceCases
    <3>3. PICK S, T, h, x, n : /\ S = Items(d) /\ T = Items(d)' /\ h = Leaving("nowhere")
                               /\ x = <<"user", 0>> /\ n = <<"tasks", Len(tasks) + 1>>
      OBVIOUS
    <3>4. h \in [Places -> Nat] /\ \A p \in Places, i \in Nat : i + h[p] = i
      BY <3>3 DEF Leaving, Places
    <3>5. Moves(S, T, h, x, n)
      BY <3>1, <3>2, <3>3, <3>4 DEF Moves
    <3>6. Shrinks(S, T)
      BY <3>1, <3>3, <3>4, <3>5, Move
    <3>7. QED  BY <3>3, <3>6
  <2>3. QED  BY <1>3, <2>1, <2>2
<1>6. QED  BY <1>2, <1>3, <1>4, <1>5, ItemsKept

LEMMA AddDevicesItems ==
  ASSUME Inv, NEW d \in Devices, ItemsOf(d), AddDevices
  PROVE  ItemsOf(d)'
<1>0. LocalTypeOK /\ UserInv
  BY DEF Inv
<1>1. /\ ws.step = "install" /\ ws' = Resting
      /\ UNCHANGED <<fresh, devices, manager, user, added, sids, requests, replies>>
  BY DEF AddDevices, deviceVars, managerVars, senderVars, serverVars
<1>2. PICK ds \in SetToSeqs(devices) : PostIfManager("add", ds)
  BY DEF AddDevices
<1>3. /\ ds \in Seq(devices) /\ devices \subseteq Devices
      /\ \A i, j \in DOMAIN ds : ds[i] = ds[j] => i = j
  BY <1>0, <1>2, SeqFacts DEF UserInv, LocalTypeOK
<1>4. ds \in Seq(Devices) /\ \A i \in DOMAIN ds : ds[i] \in devices
  BY <1>3
<1>5. /\ At("remove", d)' = At("remove", d)
      /\ At("add", d)' = At("add", d)
           \/ (d \in devices /\ \E k \in Nat : At("add", d)' \subseteq At("add", d) \cup {k})
  <2>1. CASE manager = 0
    BY <1>1, <1>2, <2>1 DEF PostIfManager, At
  <2>2. CASE manager # 0
    <3>1. Post("add", ds)
      BY <1>2, <2>2 DEF PostIfManager
    <3>2. ASSUME NEW q \in Ops
          PROVE  /\ At(q, d) \subseteq At(q, d)' /\ Len(tasks) \in Nat
                 /\ \A i \in At(q, d)' \ At(q, d) : q = "add" /\ \E j \in DOMAIN ds : i = Len(tasks) + j /\ ds[j] = d
      BY <1>0, <1>1, <1>4, <3>1, AtPost DEF Ops
    <3>3. At("remove", d)' = At("remove", d)
      BY <3>2 DEF Ops
    <3>4. "add" \in Ops
      BY DEF Ops
    <3>5. CASE \E j \in DOMAIN ds : ds[j] = d
      <4>1. PICK j \in DOMAIN ds : ds[j] = d
        BY <3>5
      <4>2. d \in devices /\ Len(tasks) + j \in Nat
        BY <1>4, <3>2, <3>4, <4>1
      <4>3. At("add", d)' \subseteq At("add", d) \cup {Len(tasks) + j}
        BY <1>3, <3>2, <3>4, <4>1
      <4>4. QED  BY <3>3, <4>2, <4>3
    <3>6. CASE \A j \in DOMAIN ds : ds[j] # d
      BY <3>2, <3>3, <3>4, <3>6
    <3>7. QED  BY <3>5, <3>6
  <2>3. QED  BY <2>1, <2>2
<1>6. /\ InAdded(d)' = InAdded(d) /\ Adds(d)' = Adds(d) /\ Answers(d)' = Answers(d) /\ ~Reconciles(d)'
      /\ (Does("added", d)' <=> Does("added", d)) /\ ws'.step # "install"
  BY <1>1 DEF InAdded, Adds, Answers, Reconciles, Does, Resting
<1>7. Shrinks(Items(d), Items(d)')
  <2>1. CASE At("add", d)' = At("add", d)
    BY <1>6, <2>1, ItemsStay
  <2>2. CASE d \in devices /\ \E k \in Nat : At("add", d)' \subseteq At("add", d) \cup {k}
    <3>0. PICK k \in Nat : At("add", d)' \subseteq At("add", d) \cup {k}
      BY <2>2
    <3>1. Items(d) \in Positions /\ Items(d)' \in Positions /\ <<"install", 0>> \in Items(d)
      BY <1>1, <2>2, NextItems DEF Placed, Positions
    <3>2. ASSUME NEW p \in Places, NEW i \in Nat, <<p, i>> \in Items(d)', <<p, i>> # <<"tasks", k>>
          PROVE  <<p, i>> \in Items(d) /\ p # "install"
      <4>1. p # "install" /\ (p = "tasks" => i # k)
        BY <1>6, <3>2, NextItems
      <4>2. CASE p = "user" \/ p = "tasks"
        BY <1>6, <3>0, <3>2, <4>1, <4>2, NextItems DEF Placed
      <4>3. CASE p = "added" \/ p = "requests" \/ p = "replies"
        BY <1>6, <3>2, <4>3, NextItems DEF Placed
      <4>4. QED  BY <4>1, <4>2, <4>3, PlaceCases
    <3>3. PICK S, T, h, x, n : /\ S = Items(d) /\ T = Items(d)' /\ h = Leaving("nowhere")
                               /\ x = <<"install", 0>> /\ n = <<"tasks", k>>
      OBVIOUS
    <3>4. h \in [Places -> Nat] /\ \A p \in Places, i \in Nat : i + h[p] = i
      BY <3>3 DEF Leaving, Places
    <3>5. Moves(S, T, h, x, n)
      BY <3>1, <3>2, <3>3, <3>4 DEF Moves
    <3>6. Shrinks(S, T)
      BY <3>1, <3>3, <3>4, <3>5, Move
    <3>7. QED  BY <3>3, <3>6
  <2>3. QED  BY <1>5, <2>1, <2>2
<1>8. QED  BY <1>1, <1>5, <1>6, <1>7, ItemsKept


LEMMA RunAddItems ==
  ASSUME Inv, NEW d \in Devices, ItemsOf(d), RunAdd
  PROVE  ItemsOf(d)'
<1>0. LocalTypeOK /\ manager \in Nat
  BY Types DEF Inv
<1>1. /\ Task("add") /\ UNCHANGED <<fresh, devices, manager, user, ws, sids, requests, replies>>
      /\ \/ OfManager /\ added' = Append(added, [device |-> Head(tasks).device, manager |-> manager])
         \/ added' = added
  BY DEF RunAdd, deviceVars, managerVars, serverVars
<1>2. /\ \A i \in At("add", d)' : i # 0 /\ i + 1 \in At("add", d)
      /\ At("remove", d)' # {} => At("remove", d) # {}
      /\ OfManager /\ d = Head(tasks).device => 1 \in At("add", d)
      /\ Head(tasks).device \in Devices
  BY <1>0, <1>1, AtTask, TaskFacts
<1>3. /\ Adds(d)' = Adds(d) /\ Answers(d)' = Answers(d)
      /\ (Does("added", d)' <=> Does("added", d)) /\ (Reconciles(d)' <=> Reconciles(d))
  BY <1>1 DEF Adds, Answers, Does, Reconciles
<1>4. \/ InAdded(d)' = InAdded(d)
      \/ (1 \in At("add", d) /\ InAdded(d)' = InAdded(d) \cup {Len(added) + 1})
  <2>1. CASE OfManager /\ added' = Append(added, [device |-> Head(tasks).device, manager |-> manager])
    <3>1. PICK c : c = [device |-> Head(tasks).device, manager |-> manager]
      OBVIOUS
    <3>2. c \in AddedType /\ added' = Append(added, c)
      BY <1>0, <1>1, <1>2, <2>1, <3>1 DEF AddedType
    <3>3. PICK C : C = {[device |-> d, manager |-> manager]}
      OBVIOUS
    <3>4. c \in C <=> d = Head(tasks).device
      BY <3>1, <3>3
    <3>5. Gains(added, added', c, C)
      BY <1>0, <3>2, GainsOne
    <3>6. InAdded(d) = In(added, C) /\ InAdded(d)' = In(added', C)
      BY <1>1, <3>3 DEF InAdded
    <3>7. QED  BY <1>2, <2>1, <3>4, <3>5, <3>6 DEF Gains
  <2>2. CASE added' = added
    BY <1>1, <2>2 DEF InAdded
  <2>3. QED  BY <1>1, <2>1, <2>2
<1>5. Shrinks(Items(d), Items(d)')
  <2>1. CASE InAdded(d)' = InAdded(d)
    BY <1>1, <1>2, <1>3, <2>1, ShiftItems
  <2>2. CASE 1 \in At("add", d) /\ InAdded(d)' = InAdded(d) \cup {Len(added) + 1}
    <3>1. <<"tasks", 1>> \in Items(d)
      BY <2>2, NextItems DEF Placed
    <3>2. PICK n : n = <<"added", Len(added) + 1>>
      OBVIOUS
    <3>3. \A i \in InAdded(d)' : <<"added", i>> = n \/ i \in InAdded(d)
      BY <2>2, <3>2
    <3>4. QED  BY <1>1, <1>2, <1>3, <3>1, <3>3, MoveItems
  <2>3. QED  BY <1>4, <2>1, <2>2
<1>6. QED  BY <1>1, <1>2, <1>3, <1>5, ItemsKept

LEMMA SendAddTrackItems ==
  ASSUME Inv, NEW d \in Devices, ItemsOf(d), SendAddTrack
  PROVE  ItemsOf(d)'
<1>0. LocalTypeOK /\ added \in Seq(AddedType)
  BY Types DEF Inv
<1>1. /\ added # <<>> /\ added' = Tail(added)
      /\ UNCHANGED <<fresh, devices, manager, user, ws, tasks, sids, replies>>
      /\ \/ /\ Head(added).manager = manager
            /\ requests' = Append(requests, [op |-> "add", device |-> Head(added).device, muted |-> muted[Head(added).device]])
         \/ requests' = requests
  BY DEF SendAddTrack, Send, deviceVars, managerVars, senderVars
<1>2. /\ Head(added).device \in Devices
      /\ Head(added) = [device |-> Head(added).device, manager |-> Head(added).manager]
  <2>1. Head(added) \in AddedType
    BY <1>0, <1>1, TailFacts
  <2>2. QED  BY <2>1 DEF AddedType
<1>3. PICK C : C = {[device |-> d, manager |-> manager]}
  OBVIOUS
<1>4. InAdded(d) = In(added, C) /\ InAdded(d)' = In(added', C)
  BY <1>1, <1>3 DEF InAdded
<1>5. Head(added) \in C <=> Head(added).device = d /\ Head(added).manager = manager
  BY <1>2, <1>3
<1>6. Loses(added, added', C)
  BY <1>0, <1>1, LosesHead
<1>7. \A i \in InAdded(d)' : i # 0 /\ i + 1 \in InAdded(d)
  BY <1>4, <1>6 DEF Loses
<1>8. \/ Adds(d)' = Adds(d)
      \/ (1 \in InAdded(d) /\ Adds(d)' = Adds(d) \cup {Len(requests) + 1})
  <2>1. CASE requests' # requests
    <3>0. /\ Head(added).manager = manager
          /\ requests' = Append(requests, [op |-> "add", device |-> Head(added).device, muted |-> muted[Head(added).device]])
      BY <1>1, <2>1
    <3>1. PICK c : c = [op |-> "add", device |-> Head(added).device, muted |-> muted[Head(added).device]]
      OBVIOUS
    <3>2. c \in RequestType
      BY <1>0, <1>2, <3>1, Types DEF RequestType
    <3>3. c \in OfAdd(d) <=> Head(added).device = d
      BY <3>1, <3>2 DEF OfAdd
    <3>4. Gains(requests, requests', c, OfAdd(d))
      BY <1>0, <3>0, <3>1, <3>2, GainsOne
    <3>5. Head(added).device = d => 1 \in InAdded(d)
      BY <1>4, <1>5, <1>6, <3>0 DEF Loses
    <3>6. QED  BY <3>3, <3>4, <3>5 DEF Gains, Adds
  <2>2. CASE requests' = requests
    BY <1>1, <2>2 DEF Adds
  <2>3. QED  BY <2>1, <2>2
<1>9. /\ At("add", d)' = At("add", d) /\ At("remove", d)' = At("remove", d) /\ Answers(d)' = Answers(d)
      /\ (Does("added", d)' <=> Does("added", d)) /\ (Reconciles(d)' <=> Reconciles(d))
  BY <1>1 DEF At, Answers, Does, Reconciles
<1>10. Shrinks(Items(d), Items(d)')
  <2>1. CASE Adds(d)' = Adds(d)
    BY <1>1, <1>7, <1>9, <2>1, ShiftItems
  <2>2. CASE 1 \in InAdded(d) /\ Adds(d)' = Adds(d) \cup {Len(requests) + 1}
    <3>1. <<"added", 1>> \in Items(d)
      BY <2>2, NextItems DEF Placed
    <3>2. PICK n : n = <<"requests", Len(requests) + 1>>
      OBVIOUS
    <3>3. \A i \in Adds(d)' : <<"requests", i>> = n \/ i \in Adds(d)
      BY <2>2, <3>2
    <3>4. QED  BY <1>1, <1>7, <1>9, <3>1, <3>3, MoveItems
  <2>3. QED  BY <1>8, <2>1, <2>2
<1>11. QED  BY <1>1, <1>9, <1>10, ItemsKept

LEMMA ServerTakesItems ==
  ASSUME Inv, NEW d \in Devices, ItemsOf(d), ServerTakes
  PROVE  ItemsOf(d)'
<1>0. LocalTypeOK /\ requests \in Seq(RequestType)
  BY Types DEF Inv
<1>1. /\ requests # <<>> /\ requests' = Tail(requests)
      /\ UNCHANGED <<fresh, devices, manager, user, ws, tasks, added, sids>>
      /\ IF Head(requests).op = "add"
         THEN replies' = Append(replies, [op |-> "published", device |-> Head(requests).device, muted |-> Head(requests).muted])
         ELSE replies' = replies
  BY DEF ServerTakes, deviceVars, managerVars, senderVars
<1>2. Head(requests) \in RequestType
  BY <1>0, <1>1, TailFacts
<1>3. Head(requests) \in OfAdd(d) <=> Head(requests).op = "add" /\ Head(requests).device = d
  BY <1>2 DEF OfAdd
<1>4. Loses(requests, requests', OfAdd(d))
  BY <1>0, <1>1, LosesHead
<1>5. \A i \in Adds(d)' : i # 0 /\ i + 1 \in Adds(d)
  BY <1>4 DEF Loses, Adds
<1>6. \/ Answers(d)' = Answers(d)
      \/ (1 \in Adds(d) /\ Answers(d)' = Answers(d) \cup {Len(replies) + 1})
  <2>1. CASE Head(requests).op = "add"
    <3>1. PICK c : c = [op |-> "published", device |-> Head(requests).device, muted |-> Head(requests).muted]
      OBVIOUS
    <3>2. c \in ReplyType
      BY <1>2, <3>1 DEF RequestType, ReplyType
    <3>3. c \in OfAnswer(d) <=> Head(requests).device = d
      BY <3>1, <3>2 DEF OfAnswer
    <3>4. Gains(replies, replies', c, OfAnswer(d))
      BY <1>0, <1>1, <2>1, <3>1, <3>2, GainsOne
    <3>5. Head(requests).device = d => 1 \in Adds(d)
      BY <1>3, <1>4, <2>1 DEF Loses, Adds
    <3>6. QED  BY <3>3, <3>4, <3>5 DEF Gains, Answers
  <2>2. CASE Head(requests).op # "add"
    BY <1>1, <2>2 DEF Answers
  <2>3. QED  BY <2>1, <2>2
<1>7. /\ At("add", d)' = At("add", d) /\ At("remove", d)' = At("remove", d) /\ InAdded(d)' = InAdded(d)
      /\ (Does("added", d)' <=> Does("added", d)) /\ (Reconciles(d)' <=> Reconciles(d))
  BY <1>1 DEF At, InAdded, Does, Reconciles
<1>8. Shrinks(Items(d), Items(d)')
  <2>1. CASE Answers(d)' = Answers(d)
    BY <1>1, <1>5, <1>7, <2>1, ShiftItems
  <2>2. CASE 1 \in Adds(d) /\ Answers(d)' = Answers(d) \cup {Len(replies) + 1}
    <3>1. <<"requests", 1>> \in Items(d)
      BY <2>2, NextItems DEF Placed
    <3>2. PICK n : n = <<"replies", Len(replies) + 1>>
      OBVIOUS
    <3>3. \A i \in Answers(d)' : <<"replies", i>> = n \/ i \in Answers(d)
      BY <2>2, <3>2
    <3>4. QED  BY <1>1, <1>5, <1>7, <3>1, <3>3, MoveItems
  <2>3. QED  BY <1>6, <2>1, <2>2
<1>9. QED  BY <1>1, <1>7, <1>8, ItemsKept

LEMMA OnTrackPublishedItems ==
  ASSUME Inv, NEW d \in Devices, ItemsOf(d), OnTrackPublished
  PROVE  ItemsOf(d)'
<1>0. LocalTypeOK /\ replies \in Seq(ReplyType)
  BY Types DEF Inv
<1>1. /\ ws = Resting /\ replies # <<>> /\ replies' = Tail(replies) /\ Head(replies).op = "published"
      /\ UNCHANGED <<fresh, devices, manager, user, tasks, added, requests>>
      /\ IF Head(replies).device \in tracks
         THEN /\ sids' = sids \cup {Head(replies).device}
              /\ ws' = [step |-> "reconcile", device |-> Head(replies).device, manager |-> manager, told |-> Head(replies).muted]
         ELSE sids' = sids /\ ws' = ws
  BY DEF OnTrackPublished, Message, deviceVars, managerVars
<1>2. Head(replies) \in ReplyType
  BY <1>0, <1>1, TailFacts
<1>3. Head(replies) \in OfAnswer(d) <=> Head(replies).device = d
  BY <1>1, <1>2 DEF OfAnswer
<1>4. Loses(replies, replies', OfAnswer(d))
  BY <1>0, <1>1, LosesHead
<1>5. \A i \in Answers(d)' : i # 0 /\ i + 1 \in Answers(d)
  BY <1>4 DEF Loses, Answers
<1>6. /\ At("add", d)' = At("add", d) /\ At("remove", d)' = At("remove", d) /\ InAdded(d)' = InAdded(d)
      /\ (Does("added", d)' <=> Does("added", d)) /\ Adds(d)' = Adds(d) /\ ws'.step # "install"
  BY <1>1 DEF At, InAdded, Does, Adds, Resting
<1>7. Shrinks(Items(d), Items(d)')
  BY <1>5, <1>6, ShiftItems
<1>8. CASE Head(replies).device # d
  <2>1. (d \in sids' <=> d \in sids) /\ ~Reconciles(d)'
    BY <1>1, <1>8 DEF Reconciles, Resting
  <2>2. QED  BY <1>1, <1>6, <1>7, <2>1, ItemsKept
<1>9. CASE Head(replies).device = d
  <2>1. 1 \in Answers(d)
    BY <1>3, <1>4, <1>9 DEF Loses, Answers
  <2>2. (AtMostTwo(Items(d)) => AtMostOne(Items(d)')) /\ (AtMostOne(Items(d)) => Items(d)' = {})
    BY <1>5, <1>6, <2>1, ConsumeItems
  <2>3. Items(d) # {} /\ d \notin fresh
    BY <2>1, NextItems DEF Placed, ItemsOf
  <2>4. AtMostOne(Items(d)') /\ (d \in devices /\ At("remove", d) # {} => Items(d)' = {})
    BY <2>2 DEF ItemsOf
  <2>5. AtMostTwo(Items(d)')
    BY <2>4 DEF AtMostOne, AtMostTwo
  <2>6. Reconciles(d)' => d \in sids'
    BY <1>1 DEF Reconciles, Resting
  <2>7. QED  BY <1>1, <1>6, <2>3, <2>4, <2>5, <2>6 DEF ItemsOf
<1>10. QED  BY <1>8, <1>9


LEMMA ItemsNext ==
  ASSUME Inv, RoundInv, NEW d \in Devices, ItemsOf(d), LocalNext
  PROVE  ItemsOf(d)'
<1>1. CASE User
  BY <1>1, AddDeviceItems, QuietItems, PostAddItems, PostRemoveItems DEF User
<1>2. CASE WebSocket
  BY <1>2, SessionItems, AddDevicesItems, OnTrackPublishedItems, QuietItems, OnTrackUnpublishedItems DEF WebSocket
<1>3. CASE Queues
  BY <1>3, RunAddItems, RunRemoveItems, SendAddTrackItems DEF Queues
<1>4. CASE Server
  BY <1>4, ServerTakesItems, QuietItems DEF Server
<1>5. CASE Close
  BY <1>5, SessionItems
<1>6. QED  BY <1>1, <1>2, <1>3, <1>4, <1>5 DEF LocalNext

----------------------------------------------------------------------------
(* What the server is told.                                                *)

Tells(d) == ws = [step |-> "tell", device |-> d, manager |-> manager, told |-> muted[d]]

\* A step after which the server will still have what the device was published with.
LEMMA EchoKept ==
  ASSUME NEW d \in Devices,
         \A v \in Mutes : Stands(d, v) => Stands(d, v)',
         \A v \in Mutes : LastIs(requests, OfAdd(d), v) => LastIs(requests', OfAdd(d), v),
         \A v \in Mutes : LastIs(replies, OfAnswer(d), v) => LastIs(replies', OfAnswer(d), v),
         Adds(d)' = {} => Adds(d) = {}, Answers(d)' = {} => Answers(d) = {},
         Adds(d) = {} /\ Answers(d) = {} /\ d \in sids /\ ws.step = "reconcile" /\ ws.device = d /\ ws.manager = manager =>
           d \in sids' /\ ws' = ws /\ manager' = manager
  PROVE  Echo(d) => Echo(d)'
<1>1. ASSUME NEW v \in Mutes, Says(d, v) PROVE Says(d, v)'
  BY <1>1 DEF Says
<1>2. QED  BY <1>1 DEF Echo

\* A step that tells the server nothing new about a device.
LEMMA MuteKept ==
  ASSUME NEW d \in Devices, MuteOf(d),
         d \in tracks' \ misinformed' /\ InAdded(d)' = {} => d \in tracks \ misinformed /\ InAdded(d) = {},
         d \in sids' <=> d \in sids, muted'[d] = muted[d],
         d \in devices' => d \in devices \/ (Adds(d)' = {} /\ Answers(d)' = {}) \/ Echo(d)',
         \A v \in Mutes : Stands(d, v) => Stands(d, v)',
         muted[d] \in Mutes,
         Does("muted", d) => Does("muted", d)', Tells(d) => Tells(d)',
         Echo(d) => Echo(d)',
         Adds(d) = {} /\ Answers(d) = {} => Adds(d)' = {} /\ Answers(d)' = {}
  PROVE  MuteOf(d)'
<1>1. Stands(d, muted[d]) => Stands(d, muted[d])'
  BY DEF Stands
<1>2. QED  BY <1>1 DEF MuteOf, Tells


LEMMA QuietMute ==
  ASSUME Inv, NEW d \in Devices, MuteOf(d),
         \/ \E e \in Devices : AddDevice(e) \/ RemoveDevice(e)
         \/ PostAdd \/ PostRemove \/ AddDevices
  PROVE  MuteOf(d)'
<1>1. /\ UNCHANGED <<manager, tracks, added, muted, sids, requests, replies, copy, misinformed>>
      /\ ws' = ws \/ ws.step = "install"
      /\ user' = user \/ user = Resting \/ user.step \in {"added", "removed"}
      /\ d \in devices' => d \in devices \/ d \in fresh
  BY DEF AddDevice, RemoveDevice, PostAdd, PostRemove, AddDevices, Call, deviceVars, managerVars, senderVars, serverVars
<1>2. muted[d] \in Mutes /\ (d \in fresh => d \notin tracks)
  BY Types, InvFacts DEF OfDevice
<1>3. InAdded(d)' = InAdded(d) /\ Adds(d)' = Adds(d) /\ Answers(d)' = Answers(d)
  BY <1>1 DEF InAdded, Adds, Answers
<1>4. \A v \in Mutes : Stands(d, v) => Stands(d, v)'
  BY <1>1 DEF Stands
<1>5. Echo(d) => Echo(d)'
  BY <1>1, <1>3, <1>4, EchoKept
<1>6. ~Does("muted", d) \/ Does("muted", d)'
  BY <1>1 DEF Does, Resting
<1>7. Tells(d) => Tells(d)'
  BY <1>1 DEF Tells
<1>8. CASE d \in fresh
  BY <1>1, <1>2, <1>8 DEF MuteOf
<1>9. CASE d \notin fresh
  BY <1>1, <1>2, <1>3, <1>4, <1>5, <1>6, <1>7, <1>9, MuteKept
<1>10. QED  BY <1>8, <1>9

LEMMA SessionMute ==
  ASSUME Inv, NEW d \in Devices, MuteOf(d), Install \/ Close
  PROVE  MuteOf(d)'
<1>1. tracks' = {}
  BY DEF Inv, ManagerInv, Install, Close, senderVars
<1>2. QED  BY <1>1 DEF MuteOf

LEMMA MuteMute ==
  ASSUME Inv, NEW d \in Devices, MuteOf(d), NEW e \in Devices, Mute(e)
  PROVE  MuteOf(d)'
<1>1. /\ UNCHANGED <<devices, manager, tracks, added, ws, sids, requests, replies, copy, misinformed>>
      /\ user = Resting /\ e \in devices /\ muted' = [muted EXCEPT ![e] = Flip(@)]
      /\ user' = [step |-> "muted", device |-> e] /\ muted \in [Devices -> Mutes]
  BY DEF Mute, Call, managerVars, senderVars, serverVars, Inv, LocalTypeOK
<1>2. InAdded(d)' = InAdded(d) /\ Adds(d)' = Adds(d) /\ Answers(d)' = Answers(d)
  BY <1>1 DEF InAdded, Adds, Answers
<1>3. \A v \in Mutes : Stands(d, v) => Stands(d, v)'
  BY <1>1 DEF Stands
<1>4. Echo(d) => Echo(d)'
  BY <1>1, <1>2, <1>3, EchoKept
<1>5. ~Does("muted", d)
  BY <1>1 DEF Does, Resting
<1>6. CASE d = e
  <2>1. Does("muted", d)'
    BY <1>1, <1>6 DEF Does
  <2>2. QED  BY <1>1, <1>2, <1>4, <1>6, <2>1 DEF MuteOf
<1>7. CASE d # e
  <2>1. muted'[d] = muted[d] /\ muted[d] \in Mutes
    BY <1>1, <1>7
  <2>2. Tells(d) => Tells(d)'
    BY <1>1, <2>1 DEF Tells
  <2>3. QED  BY <1>1, <1>2, <1>3, <1>4, <1>5, <2>1, <2>2, MuteKept
<1>8. QED  BY <1>6, <1>7

\* What a mute on its way to the server, about the device or about another, changes.
LEMMA AskedMute ==
  ASSUME LocalTypeOK, NEW d \in Devices, NEW e \in Devices, NEW m \in Mutes, UNCHANGED copy,
         requests' = Append(requests, [op |-> "mute", device |-> e, muted |-> m])
  PROVE  /\ Adds(d)' = Adds(d)
         /\ \A v \in Mutes : LastIs(requests, OfAdd(d), v) => LastIs(requests', OfAdd(d), v)
         /\ d # e => \A v \in Mutes : Stands(d, v) => Stands(d, v)'
         /\ d = e => Stands(d, m)'
<1>1. PICK c : c = [op |-> "mute", device |-> e, muted |-> m]
  OBVIOUS
<1>2. c \in RequestType /\ c \notin OfAdd(d) /\ (c \in OfRequest(d) <=> d = e) /\ c.muted = m
  BY <1>1 DEF RequestType, OfAdd, OfRequest
<1>3. Gains(requests, requests', c, OfAdd(d)) /\ Gains(requests, requests', c, OfRequest(d))
  BY <1>1, <1>2, GainsOne
<1>4. Adds(d)' = Adds(d) /\ \A v \in Mutes : LastIs(requests, OfAdd(d), v) => LastIs(requests', OfAdd(d), v)
  BY <1>2, <1>3 DEF Gains, Adds
<1>5. d # e => In(requests', OfRequest(d)) = In(requests, OfRequest(d))
  BY <1>2, <1>3 DEF Gains
<1>6. ASSUME d # e, NEW v \in Mutes, Stands(d, v) PROVE Stands(d, v)'
  <2>1. LastIs(requests', OfRequest(d), v)
    BY <1>2, <1>3, <1>6 DEF Gains, Stands
  <2>2. QED  BY <1>5, <1>6, <2>1 DEF Stands
<1>7. ASSUME d = e PROVE Stands(d, m)'
  <2>1. LastIs(requests', OfRequest(d), m) /\ In(requests', OfRequest(d)) # {}
    BY <1>2, <1>3, <1>7 DEF Gains
  <2>2. QED  BY <2>1 DEF Stands
<1>8. QED  BY <1>4, <1>6, <1>7

LEMMA TellMuteMute ==
  ASSUME Inv, NEW d \in Devices, MuteOf(d), TellMute
  PROVE  MuteOf(d)'
<1>0. LocalTypeOK /\ \A e \in Devices : muted[e] \in Mutes
  BY Types DEF Inv
<1>1. PICK e \in Devices : e = user.device
  BY Types DEF Inv, TellMute
<1>2. /\ UNCHANGED <<devices, manager, tracks, added, muted, ws, sids, replies, copy>>
      /\ user.step = "muted" /\ user' = Resting
      /\ \A x \in Devices : x # e => (x \in misinformed' <=> x \in misinformed)
  BY <1>1 DEF TellMute, Send, deviceVars, managerVars, senderVars
<1>2a. /\ e \notin tracks \cap sids => UNCHANGED <<requests, misinformed>>
       /\ e \in tracks \cap sids =>
            \/ requests' = Append(requests, [op |-> "mute", device |-> e, muted |-> muted[e]])
            \/ requests' = requests /\ e \in misinformed'
  BY <1>1 DEF TellMute, Send
<1>3. InAdded(d)' = InAdded(d) /\ Answers(d)' = Answers(d) /\ (Tells(d) => Tells(d)')
  BY <1>2 DEF InAdded, Answers, Tells
<1>4. /\ Adds(d)' = Adds(d)
      /\ \A v \in Mutes : LastIs(requests, OfAdd(d), v) => LastIs(requests', OfAdd(d), v)
      /\ d # e \/ e \notin tracks \cap sids => \A v \in Mutes : Stands(d, v) => Stands(d, v)'
      /\ d = e /\ e \in tracks \cap sids => Stands(d, muted[d])' \/ d \in misinformed'
  <2>1. CASE requests' = Append(requests, [op |-> "mute", device |-> e, muted |-> muted[e]]) /\ e \in tracks \cap sids
    <3>1. PICK m \in Mutes : m = muted[e]
      BY <1>0
    <3>2. /\ Adds(d)' = Adds(d)
          /\ \A v \in Mutes : LastIs(requests, OfAdd(d), v) => LastIs(requests', OfAdd(d), v)
          /\ d # e => \A v \in Mutes : Stands(d, v) => Stands(d, v)'
          /\ d = e => Stands(d, m)'
      BY <1>0, <1>2, <2>1, <3>1, AskedMute
    <3>3. d = e => Stands(d, muted[d])'
      BY <1>2, <3>1, <3>2 DEF Stands
    <3>4. QED  BY <2>1, <3>2, <3>3
  <2>2. CASE requests' = requests /\ (e \in tracks \cap sids => e \in misinformed')
    BY <1>2, <2>2 DEF Adds, Stands
  <2>3. QED  BY <1>2a, <2>1, <2>2
<1>5. CASE d = e /\ e \in tracks \cap sids
  BY <1>2, <1>4, <1>5 DEF MuteOf
<1>6. CASE d = e /\ d \notin tracks
  BY <1>2, <1>6 DEF MuteOf
<1>7. CASE d = e /\ d \in tracks /\ d \notin sids
  <2>1. \A v \in Mutes : Stands(d, v) => Stands(d, v)'
    BY <1>4, <1>7
  <2>2. Echo(d) => Echo(d)'
    BY <1>2, <1>3, <1>4, <2>1, EchoKept
  <2>3. Stands(d, muted[d]) => Stands(d, muted[d])'
    BY <1>0, <1>2, <2>1 DEF Stands
  <2>4. QED  BY <1>2, <1>2a, <1>3, <1>4, <1>7, <2>2, <2>3 DEF MuteOf
<1>8. CASE d # e
  <2>1. \A v \in Mutes : Stands(d, v) => Stands(d, v)'
    BY <1>4, <1>8
  <2>2. Echo(d) => Echo(d)'
    BY <1>2, <1>3, <1>4, <2>1, EchoKept
  <2>3. ~Does("muted", d)
    BY <1>1, <1>8 DEF Does
  <2>4. d \in tracks' \ misinformed' => d \in tracks \ misinformed
    BY <1>2, <1>8
  <2>5. QED  BY <1>0, <1>2, <1>3, <1>4, <2>1, <2>2, <2>3, <2>4, MuteKept
<1>9. QED  BY <1>5, <1>6, <1>7, <1>8


LEMMA RunAddMute ==
  ASSUME Inv, NEW d \in Devices, MuteOf(d), RunAdd
  PROVE  MuteOf(d)'
<1>0. LocalTypeOK /\ manager \in Nat /\ muted[d] \in Mutes
  BY Types DEF Inv
<1>1. /\ Task("add") /\ UNCHANGED <<devices, manager, user, ws, muted, sids, requests, replies, copy, misinformed>>
      /\ \/ /\ OfManager /\ added' = Append(added, [device |-> Head(tasks).device, manager |-> manager])
            /\ tracks' = tracks \cup {Head(tasks).device}
         \/ UNCHANGED <<added, tracks>>
  BY DEF RunAdd, deviceVars, managerVars, senderVars, serverVars
<1>2. Head(tasks).device \in Devices
  BY <1>0, <1>1, TaskFacts
<1>3. d \in tracks' /\ InAdded(d)' = {} => d \in tracks /\ InAdded(d) = {}
  <2>1. CASE /\ OfManager /\ added' = Append(added, [device |-> Head(tasks).device, manager |-> manager])
             /\ tracks' = tracks \cup {Head(tasks).device}
    <3>1. PICK c, C : c = [device |-> Head(tasks).device, manager |-> manager] /\ C = {[device |-> d, manager |-> manager]}
      OBVIOUS
    <3>2. c \in AddedType /\ added' = Append(added, c)
      BY <1>0, <1>1, <1>2, <2>1, <3>1 DEF AddedType
    <3>3. c \in C <=> d = Head(tasks).device
      BY <3>1
    <3>4. Gains(added, added', c, C)
      BY <1>0, <3>2, GainsOne
    <3>5. InAdded(d) = In(added, C) /\ InAdded(d)' = In(added', C)
      BY <1>1, <3>1 DEF InAdded
    <3>6. QED  BY <1>1, <2>1, <3>3, <3>4, <3>5 DEF Gains
  <2>2. CASE UNCHANGED <<added, tracks>>
    BY <1>1, <2>2 DEF InAdded
  <2>3. QED  BY <1>1, <2>1, <2>2
<1>4. Adds(d)' = Adds(d) /\ Answers(d)' = Answers(d) /\ (Tells(d) => Tells(d)') /\ (Does("muted", d) => Does("muted", d)')
  BY <1>1 DEF Adds, Answers, Tells, Does
<1>5. \A v \in Mutes : Stands(d, v) => Stands(d, v)'
  BY <1>1 DEF Stands
<1>6. Echo(d) => Echo(d)'
  BY <1>1, <1>4, <1>5, EchoKept
<1>7. QED  BY <1>0, <1>1, <1>3, <1>4, <1>5, <1>6, MuteKept

LEMMA RunRemoveMute ==
  ASSUME Inv, NEW d \in Devices, MuteOf(d), RunRemove
  PROVE  MuteOf(d)'
<1>0. muted[d] \in Mutes
  BY Types DEF Inv
<1>1. /\ UNCHANGED <<devices, manager, user, ws, added, muted, requests, replies, copy, misinformed>>
      /\ tracks' \subseteq tracks
      /\ d \in tracks' => (d \in sids' <=> d \in sids)
  BY DEF RunRemove, deviceVars, managerVars, serverVars
<1>2. CASE d \notin tracks'
  BY <1>2 DEF MuteOf
<1>3. CASE d \in tracks'
  <2>1. /\ InAdded(d)' = InAdded(d) /\ Adds(d)' = Adds(d) /\ Answers(d)' = Answers(d)
        /\ (Tells(d) => Tells(d)') /\ (Does("muted", d) => Does("muted", d)')
    BY <1>1 DEF InAdded, Adds, Answers, Tells, Does
  <2>2. \A v \in Mutes : Stands(d, v) => Stands(d, v)'
    BY <1>1 DEF Stands
  <2>3. Echo(d) => Echo(d)'
    BY <1>1, <1>3, <2>1, <2>2, EchoKept
  <2>4. QED  BY <1>0, <1>1, <1>3, <2>1, <2>2, <2>3, MuteKept
<1>4. QED  BY <1>2, <1>3

LEMMA SendAddTrackMute ==
  ASSUME Inv, NEW d \in Devices, MuteOf(d), SendAddTrack
  PROVE  MuteOf(d)'
<1>0. LocalTypeOK /\ added \in Seq(AddedType) /\ \A e \in Devices : muted[e] \in Mutes
  BY Types DEF Inv
<1>1. /\ added # <<>> /\ added' = Tail(added)
      /\ UNCHANGED <<devices, manager, user, ws, tracks, muted, sids, replies, copy>>
      /\ IF Head(added).manager = manager
         THEN \/ requests' = Append(requests, [op |-> "add", device |-> Head(added).device, muted |-> muted[Head(added).device]])
              \/ requests' = requests /\ Head(added).device \in misinformed'
         ELSE UNCHANGED <<requests, misinformed>>
      /\ \A x : x # Head(added).device => (x \in misinformed' <=> x \in misinformed)
  BY DEF SendAddTrack, Send, deviceVars, managerVars, senderVars, serverVars
<1>2. /\ Head(added).device \in Devices
      /\ Head(added) = [device |-> Head(added).device, manager |-> Head(added).manager]
  <2>1. Head(added) \in AddedType
    BY <1>0, <1>1, TailFacts
  <2>2. QED  BY <2>1 DEF AddedType
<1>3. PICK C : C = {[device |-> d, manager |-> manager]}
  OBVIOUS
<1>4. InAdded(d) = In(added, C) /\ InAdded(d)' = In(added', C)
  BY <1>1, <1>3 DEF InAdded
<1>5. Head(added) \in C <=> Head(added).device = d /\ Head(added).manager = manager
  BY <1>2, <1>3
<1>6. Loses(added, added', C)
  BY <1>0, <1>1, LosesHead
<1>7. Answers(d)' = Answers(d) /\ (Tells(d) => Tells(d)') /\ (Does("muted", d) => Does("muted", d)')
  BY <1>1 DEF Answers, Tells, Does
<1>8. PICK c, e : e = Head(added).device /\ c = [op |-> "add", device |-> e, muted |-> muted[e]]
  OBVIOUS
<1>9. c \in RequestType /\ (c \in OfAdd(d) <=> e = d) /\ (c \in OfRequest(d) <=> e = d) /\ c.muted = muted[e]
  BY <1>0, <1>2, <1>8 DEF RequestType, OfAdd, OfRequest
<1>10. requests' # requests => /\ Gains(requests, requests', c, OfAdd(d)) /\ Gains(requests, requests', c, OfRequest(d))
  BY <1>0, <1>1, <1>8, <1>9, GainsOne
<1>10a. CASE d \in misinformed'
  BY <1>10a DEF MuteOf
<1>11. CASE e = d /\ Head(added).manager = manager /\ d \notin misinformed'
  <2>1. Gains(requests, requests', c, OfAdd(d)) /\ Gains(requests, requests', c, OfRequest(d))
    BY <1>0, <1>1, <1>8, <1>9, <1>11, GainsOne
  <2>2. PICK v \in Mutes : v = muted[d]
    BY <1>0
  <2>3. LastIs(requests', OfAdd(d), v) /\ LastIs(requests', OfRequest(d), v)
    BY <1>9, <1>11, <2>1, <2>2 DEF Gains
  <2>4. Adds(d)' # {} /\ In(requests', OfRequest(d)) # {}
    BY <1>9, <1>11, <2>1 DEF Gains, Adds
  <2>5. Stands(d, v)' /\ Says(d, v)'
    BY <2>3, <2>4 DEF Stands, Says
  <2>6. Echo(d)'
    BY <2>5 DEF Echo
  <2>7. QED  BY <2>6 DEF MuteOf
<1>12. CASE ~(e = d /\ Head(added).manager = manager)
  <2>1. InAdded(d)' = {} => InAdded(d) = {}
    BY <1>4, <1>5, <1>6, <1>8, <1>12 DEF Loses
  <2>2. /\ Adds(d)' = Adds(d) /\ In(requests', OfRequest(d)) = In(requests, OfRequest(d))
        /\ \A v \in Mutes : LastIs(requests, OfAdd(d), v) => LastIs(requests', OfAdd(d), v)
        /\ \A v \in Mutes : LastIs(requests, OfRequest(d), v) => LastIs(requests', OfRequest(d), v)
    <3>1. CASE requests' = requests
      BY <3>1 DEF Adds
    <3>2. CASE requests' # requests
      <4>1. c \notin OfAdd(d) /\ c \notin OfRequest(d)
        BY <1>1, <1>9, <1>12, <3>2
      <4>2. QED  BY <1>10, <3>2, <4>1 DEF Gains, Adds
    <3>3. QED  BY <3>1, <3>2
  <2>3. \A v \in Mutes : Stands(d, v) => Stands(d, v)'
    BY <1>1, <2>2 DEF Stands
  <2>4. Echo(d) => Echo(d)'
    BY <1>1, <1>7, <2>2, <2>3, EchoKept
  <2>5. d \in misinformed' <=> d \in misinformed
    BY <1>1, <1>8, <1>12
  <2>6. QED  BY <1>0, <1>1, <1>7, <2>1, <2>2, <2>3, <2>4, <2>5, MuteKept
<1>13. QED  BY <1>11, <1>12, <1>10a

LEMMA ServerUnpublishesMute ==
  ASSUME Inv, NEW d \in Devices, MuteOf(d), NEW e \in Devices, ServerUnpublishes(e)
  PROVE  MuteOf(d)'
<1>0. LocalTypeOK /\ muted[d] \in Mutes /\ copy \in [Devices -> Mutes \cup {"none"}]
  BY Types DEF Inv, LocalTypeOK
<1>1. /\ UNCHANGED <<devices, manager, user, ws, tracks, added, muted, sids, requests, misinformed>>
      /\ copy' = [copy EXCEPT ![e] = "none"]
      /\ replies' = Append(replies, [op |-> "unpublished", device |-> e, muted |-> "muted"])
  BY DEF ServerUnpublishes, deviceVars, managerVars, senderVars
<1>2. InAdded(d)' = InAdded(d) /\ Adds(d)' = Adds(d) /\ (Tells(d) => Tells(d)') /\ (Does("muted", d) => Does("muted", d)')
  BY <1>1 DEF InAdded, Adds, Tells, Does
<1>3. Answers(d)' = Answers(d) /\ \A v \in Mutes : LastIs(replies, OfAnswer(d), v) => LastIs(replies', OfAnswer(d), v)
  <2>1. PICK c : c = [op |-> "unpublished", device |-> e, muted |-> "muted"]
    OBVIOUS
  <2>2. c \in ReplyType /\ c \notin OfAnswer(d)
    BY <2>1 DEF ReplyType, OfAnswer, Mutes
  <2>3. Gains(replies, replies', c, OfAnswer(d))
    BY <1>0, <1>1, <2>1, <2>2, GainsOne
  <2>4. QED  BY <2>2, <2>3 DEF Gains, Answers
<1>4. \A v \in Mutes : Stands(d, v) => Stands(d, v)'
  <2>1. copy'[d] \in {copy[d], "none"}
    BY <1>0, <1>1
  <2>2. QED  BY <1>1, <2>1 DEF Stands
<1>5. Echo(d) => Echo(d)'
  BY <1>1, <1>2, <1>3, <1>4, EchoKept
<1>6. QED  BY <1>0, <1>1, <1>2, <1>3, <1>4, <1>5, MuteKept

LEMMA OnTrackUnpublishedMute ==
  ASSUME Inv, NEW d \in Devices, MuteOf(d), OnTrackUnpublished
  PROVE  MuteOf(d)'
<1>0. LocalTypeOK /\ muted[d] \in Mutes
  BY Types DEF Inv
<1>1. /\ ws = Resting /\ replies # <<>> /\ replies' = Tail(replies) /\ Head(replies).op = "unpublished"
      /\ UNCHANGED <<devices, manager, user, ws, tracks, added, muted, sids, requests, copy, misinformed>>
  BY DEF OnTrackUnpublished, Message, deviceVars, managerVars, senderVars
<1>2. /\ InAdded(d)' = InAdded(d) /\ Adds(d)' = Adds(d)
      /\ (Tells(d) => Tells(d)') /\ (Does("muted", d) => Does("muted", d)')
  BY <1>1 DEF InAdded, Adds, Tells, Does
<1>3. Head(replies) \notin OfAnswer(d)
  BY <1>1 DEF OfAnswer
<1>4. Loses(replies, replies', OfAnswer(d))
  BY <1>0, <1>1, LosesHead
<1>5. /\ Answers(d)' = {} <=> Answers(d) = {}
      /\ \A v \in Mutes : LastIs(replies, OfAnswer(d), v) => LastIs(replies', OfAnswer(d), v)
  BY <1>3, <1>4 DEF Loses, Answers
<1>6. \A v \in Mutes : Stands(d, v) => Stands(d, v)'
  BY <1>1 DEF Stands
<1>7. Echo(d) => Echo(d)'
  BY <1>1, <1>2, <1>5, <1>6, EchoKept
<1>8. QED  BY <1>0, <1>1, <1>2, <1>5, <1>6, <1>7, MuteKept


LEMMA ServerTakesMute ==
  ASSUME Inv, NEW d \in Devices, MuteOf(d), ServerTakes
  PROVE  MuteOf(d)'
<1>0. /\ LocalTypeOK /\ requests \in Seq(RequestType) /\ muted[d] \in Mutes
      /\ copy \in [Devices -> Mutes \cup {"none"}]
  BY Types DEF Inv, LocalTypeOK
<1>1. PICK r : r = Head(requests)
  OBVIOUS
<1>2. /\ requests # <<>> /\ requests' = Tail(requests)
      /\ UNCHANGED <<devices, manager, user, ws, tracks, added, muted, sids, misinformed>>
      /\ copy' = [copy EXCEPT ![r.device] = IF r.op = "add" \/ @ # "none" THEN r.muted ELSE @]
      /\ IF r.op = "add" THEN replies' = Append(replies, [op |-> "published", device |-> r.device, muted |-> r.muted])
                         ELSE replies' = replies
  BY <1>1 DEF ServerTakes, deviceVars, managerVars, senderVars
<1>3. r \in RequestType
  BY <1>0, <1>1, <1>2, TailFacts
<1>4. (r \in OfAdd(d) <=> r.op = "add" /\ r.device = d) /\ (r \in OfRequest(d) <=> r.device = d)
  BY <1>3 DEF OfAdd, OfRequest
<1>5. Loses(requests, requests', OfAdd(d)) /\ Loses(requests, requests', OfRequest(d))
  BY <1>0, <1>2, LosesHead
<1>6. /\ InAdded(d)' = InAdded(d) /\ (Tells(d) => Tells(d)') /\ (Does("muted", d) => Does("muted", d)')
  BY <1>2 DEF InAdded, Tells, Does
<1>7. \A v \in Mutes : Stands(d, v) => Stands(d, v)'
  <2>1. SUFFICES ASSUME NEW v \in Mutes, Stands(d, v) PROVE Stands(d, v)'
    OBVIOUS
  <2>2. LastIs(requests', OfRequest(d), v)
    BY <1>5, <2>1 DEF Loses, Stands
  <2>3. ASSUME In(requests', OfRequest(d)) = {} PROVE copy'[d] \in {v, "none"}
    <3>1. CASE r.device = d
      <4>1. r.muted = v
        BY <1>1, <1>4, <1>5, <2>1, <2>3, <3>1 DEF Loses, Stands
      <4>2. copy'[d] = IF r.op = "add" \/ copy[d] # "none" THEN r.muted ELSE copy[d]
        BY <1>0, <1>2, <3>1
      <4>3. QED  BY <4>1, <4>2
    <3>2. CASE r.device # d
      <4>1. In(requests, OfRequest(d)) = {}
        BY <1>1, <1>4, <1>5, <2>3, <3>2 DEF Loses
      <4>2. copy'[d] = copy[d]
        BY <1>0, <1>2, <3>2
      <4>3. QED  BY <2>1, <4>1, <4>2 DEF Stands
    <3>3. QED  BY <3>1, <3>2
  <2>4. QED  BY <2>2, <2>3 DEF Stands
<1>8. CASE r.op = "add" /\ r.device = d
  <2>1. PICK c : c = [op |-> "published", device |-> r.device, muted |-> r.muted]
    OBVIOUS
  <2>2. c \in ReplyType /\ c \in OfAnswer(d) /\ c.muted = r.muted
    BY <1>3, <1>8, <2>1 DEF RequestType, ReplyType, OfAnswer
  <2>3. Gains(replies, replies', c, OfAnswer(d))
    BY <1>0, <1>2, <1>8, <2>1, <2>2, GainsOne
  <2>4. Answers(d)' # {} /\ Adds(d) # {}
    BY <1>1, <1>4, <1>5, <1>8, <2>2, <2>3 DEF Gains, Loses, Answers, Adds
  <2>5. ASSUME NEW v \in Mutes, Says(d, v) PROVE Says(d, v)'
    <3>1. LastIs(requests', OfAdd(d), v)
      BY <1>5, <2>5 DEF Loses, Says
    <3>2. ASSUME Adds(d)' = {} PROVE LastIs(replies', OfAnswer(d), v)
      <4>1. r.muted = v
        BY <1>1, <1>4, <1>5, <1>8, <2>5, <3>2 DEF Loses, Says, Adds
      <4>2. QED  BY <2>2, <2>3, <4>1 DEF Gains
    <3>3. QED  BY <2>4, <3>1, <3>2 DEF Says
  <2>6. Echo(d) => Echo(d)'
    BY <1>7, <2>5 DEF Echo
  <2>7. Stands(d, muted[d]) => Stands(d, muted[d])'
    BY <1>0, <1>2, <1>7 DEF Stands
  <2>8. QED  BY <1>2, <1>6, <2>4, <2>6, <2>7 DEF MuteOf, Tells
<1>9. CASE ~(r.op = "add" /\ r.device = d)
  <2>1. Adds(d)' = {} <=> Adds(d) = {}
    BY <1>1, <1>4, <1>5, <1>9 DEF Loses, Adds
  <2>2. Answers(d)' = Answers(d) /\ \A v \in Mutes : LastIs(replies, OfAnswer(d), v) => LastIs(replies', OfAnswer(d), v)
    <3>1. CASE r.op = "add"
      <4>1. PICK c : c = [op |-> "published", device |-> r.device, muted |-> r.muted]
        OBVIOUS
      <4>2. c \in ReplyType /\ c \notin OfAnswer(d)
        BY <1>3, <1>9, <3>1, <4>1 DEF RequestType, ReplyType, OfAnswer
      <4>3. Gains(replies, replies', c, OfAnswer(d))
        BY <1>0, <1>2, <3>1, <4>1, <4>2, GainsOne
      <4>4. QED  BY <4>2, <4>3 DEF Gains, Answers
    <3>2. CASE r.op # "add"
      BY <1>2, <3>2 DEF Answers
    <3>3. QED  BY <3>1, <3>2
  <2>3. \A v \in Mutes : LastIs(requests, OfAdd(d), v) => LastIs(requests', OfAdd(d), v)
    BY <1>5 DEF Loses
  <2>4. Echo(d) => Echo(d)'
    BY <1>2, <1>7, <2>1, <2>2, <2>3, EchoKept
  <2>5. QED  BY <1>0, <1>2, <1>6, <1>7, <2>1, <2>2, <2>4, MuteKept
<1>10. QED  BY <1>8, <1>9

LEMMA OnTrackPublishedMute ==
  ASSUME Inv, NEW d \in Devices, MuteOf(d), OnTrackPublished
  PROVE  MuteOf(d)'
<1>0. LocalTypeOK /\ replies \in Seq(ReplyType) /\ muted[d] \in Mutes
  BY Types DEF Inv
<1>1. PICK r : r = Head(replies)
  OBVIOUS
<1>2. /\ ws = Resting /\ replies # <<>> /\ replies' = Tail(replies) /\ r.op = "published"
      /\ UNCHANGED <<devices, manager, user, tracks, added, muted, requests, copy, misinformed>>
      /\ IF r.device \in tracks
         THEN /\ sids' = sids \cup {r.device}
              /\ ws' = [step |-> "reconcile", device |-> r.device, manager |-> manager, told |-> r.muted]
         ELSE sids' = sids /\ ws' = ws
  BY <1>1 DEF OnTrackPublished, Message, deviceVars, managerVars, senderVars
<1>3. r \in ReplyType
  BY <1>0, <1>1, <1>2, TailFacts
<1>4. r \in OfAnswer(d) <=> r.device = d
  BY <1>2, <1>3 DEF OfAnswer
<1>5. Loses(replies, replies', OfAnswer(d))
  BY <1>0, <1>2, LosesHead
<1>6. InAdded(d)' = InAdded(d) /\ Adds(d)' = Adds(d) /\ ~Tells(d) /\ (Does("muted", d) => Does("muted", d)')
  BY <1>2 DEF InAdded, Adds, Does, Tells, Resting
<1>7. \A v \in Mutes : Stands(d, v) => Stands(d, v)'
  BY <1>2 DEF Stands
<1>8. CASE d \notin tracks
  BY <1>2, <1>8 DEF MuteOf
<1>9. CASE d \in tracks /\ r.device # d
  <2>1. Answers(d)' = {} <=> Answers(d) = {}
    BY <1>1, <1>4, <1>5, <1>9 DEF Loses, Answers
  <2>2. \A v \in Mutes : LastIs(replies, OfAnswer(d), v) => LastIs(replies', OfAnswer(d), v)
    BY <1>5 DEF Loses
  <2>3. ws.step # "reconcile"
    BY <1>2 DEF Resting
  <2>4. Echo(d) => Echo(d)'
    BY <1>2, <1>6, <1>7, <2>1, <2>2, <2>3, EchoKept
  <2>5. d \in sids' <=> d \in sids
    BY <1>2, <1>9
  <2>6. QED  BY <1>0, <1>2, <1>6, <1>7, <2>1, <2>4, <2>5, MuteKept
<1>10. CASE d \in tracks /\ r.device = d
  <2>1. /\ d \in sids' /\ ws'.step = "reconcile" /\ ws'.device = d /\ ws'.manager = manager'
        /\ ws'.told = r.muted
    BY <1>2, <1>10
  <2>2. Answers(d) # {}
    BY <1>1, <1>4, <1>5, <1>10 DEF Loses, Answers
  <2>3. ASSUME NEW v \in Mutes, Says(d, v) PROVE Says(d, v)'
    <3>1. Adds(d)' = {} => LastIs(replies', OfAnswer(d), v)
      BY <1>5, <1>6, <2>3 DEF Loses, Says
    <3>2. Adds(d)' = {} /\ Answers(d)' = {} => r.muted = v
      BY <1>1, <1>4, <1>5, <1>6, <1>10, <2>3 DEF Loses, Says, Answers
    <3>3. LastIs(requests', OfAdd(d), v)
      BY <1>2, <2>3 DEF Says
    <3>4. QED  BY <2>1, <3>1, <3>2, <3>3 DEF Says
  <2>4. Echo(d) => Echo(d)'
    BY <1>7, <2>3 DEF Echo
  <2>5. Stands(d, muted[d]) => Stands(d, muted[d])'
    BY <1>0, <1>2, <1>7 DEF Stands
  <2>6. QED  BY <1>2, <1>6, <2>1, <2>2, <2>4, <2>5 DEF MuteOf, Tells
<1>11. QED  BY <1>8, <1>9, <1>10

LEMMA ReadMutedMute ==
  ASSUME Inv, NEW d \in Devices, MuteOf(d), ReadMuted
  PROVE  MuteOf(d)'
<1>0. muted[d] \in Mutes
  BY Types DEF Inv
<1>1. /\ UNCHANGED <<devices, manager, user, tracks, added, muted, sids, requests, replies, copy, misinformed>>
      /\ ws.step = "reconcile"
      /\ ws' = IF muted[ws.device] = ws.told THEN Resting
               ELSE [step |-> "tell", device |-> ws.device, manager |-> ws.manager, told |-> muted[ws.device]]
  BY DEF ReadMuted, deviceVars, managerVars, senderVars, serverVars
<1>2. /\ InAdded(d)' = InAdded(d) /\ Adds(d)' = Adds(d) /\ Answers(d)' = Answers(d)
      /\ ~Tells(d) /\ (Does("muted", d) => Does("muted", d)')
  BY <1>1 DEF InAdded, Adds, Answers, Does, Tells
<1>3. \A v \in Mutes : Stands(d, v) => Stands(d, v)'
  BY <1>1 DEF Stands
<1>4. Stands(d, muted[d]) => Stands(d, muted[d])'
  BY <1>0, <1>1, <1>3 DEF Stands
\* Either the server is told again, or what it was told last is read now.
<1>5. ASSUME NEW v \in Mutes, Stands(d, v), Says(d, v)
      PROVE  Echo(d)' \/ (d \in sids /\ (Stands(d, muted[d])' \/ Tells(d)'))
  <2>1. CASE Adds(d) = {} /\ Answers(d) = {}
    <3>1. d \in sids /\ ws.device = d /\ ws.manager = manager /\ ws.told = v
      BY <1>5, <2>1 DEF Says
    <3>2. CASE muted[d] = v
      BY <1>4, <1>5, <3>1, <3>2
    <3>3. CASE muted[d] # v
      BY <1>1, <3>1, <3>3 DEF Tells
    <3>4. QED  BY <3>2, <3>3
  <2>2. CASE ~(Adds(d) = {} /\ Answers(d) = {})
    <3>1. Stands(d, v)' /\ Says(d, v)'
      BY <1>1, <1>2, <1>3, <1>5, <2>2 DEF Says
    <3>2. QED  BY <3>1 DEF Echo
  <2>3. QED  BY <2>1, <2>2
<1>6. Echo(d) => Echo(d)' \/ (d \in sids /\ (Stands(d, muted[d])' \/ Tells(d)'))
  BY <1>5 DEF Echo
<1>7. QED  BY <1>1, <1>2, <1>4, <1>6 DEF MuteOf, Tells

LEMMA SendMuteTrackMute ==
  ASSUME Inv, NEW d \in Devices, MuteOf(d), ItemsOf(d), SendMuteTrack
  PROVE  MuteOf(d)'
<1>0. LocalTypeOK /\ muted[d] \in Mutes
  BY Types DEF Inv
<1>1. PICK e \in Devices, m \in Mutes : e = ws.device /\ m = ws.told
  BY Types DEF Inv, SendMuteTrack
<1>2. /\ UNCHANGED <<devices, manager, user, tracks, added, muted, sids, replies, copy>>
      /\ ws.step = "tell" /\ ws' = Resting
      /\ IF ws.manager = manager
         THEN \/ /\ requests' = Append(requests, [op |-> "mute", device |-> e, muted |-> m])
                 /\ misinformed' = IF muted[e] = m THEN misinformed \ {e} ELSE misinformed \cup {e}
              \/ misinformed' = misinformed \cup {e} /\ UNCHANGED requests
         ELSE UNCHANGED <<requests, misinformed>>
  BY <1>1 DEF SendMuteTrack, Send, deviceVars, managerVars, senderVars
<1>3. InAdded(d)' = InAdded(d) /\ Answers(d)' = Answers(d) /\ (Does("muted", d) => Does("muted", d)')
  BY <1>2 DEF InAdded, Answers, Does
<1>3a. CASE d \in misinformed'
  BY <1>3a DEF MuteOf
<1>4. CASE d = e /\ ws.manager = manager /\ d \notin misinformed'
  <2>1. Adds(d)' = Adds(d) /\ Stands(d, m)'
    BY <1>0, <1>2, <1>4, AskedMute
  <2>2. CASE muted[d] # m
    BY <1>2, <1>4, <2>2 DEF MuteOf
  <2>3. CASE muted[d] = m
    <3>1. Stands(d, muted[d])'
      BY <1>2, <2>1, <2>3 DEF Stands
    <3>2. d \in devices /\ d \notin sids => Adds(d) = {} /\ Answers(d) = {}
      <4>1. ASSUME d \in devices, d \notin sids PROVE Items(d) = {}
        BY <1>1, <1>2, <1>4, <4>1 DEF ItemsOf, Reconciles
      <4>2. Items(d) = {} => Adds(d) = {} /\ Answers(d) = {}
        <5>1. requests \in Seq(RequestType) /\ replies \in Seq(ReplyType)
          BY <1>0, Types
        <5>2. Adds(d) \subseteq Nat /\ Answers(d) \subseteq Nat
          BY <5>1 DEF Adds, Answers, In
        <5>3. QED  BY <5>2, NextItems DEF Placed
      <4>3. QED  BY <4>1, <4>2
    <3>3. QED  BY <1>2, <1>3, <2>1, <3>1, <3>2 DEF MuteOf
  <2>4. QED  BY <2>2, <2>3
<1>5. CASE ~(d = e /\ ws.manager = manager)
  <2>1. /\ Adds(d)' = Adds(d)
        /\ \A v \in Mutes : LastIs(requests, OfAdd(d), v) => LastIs(requests', OfAdd(d), v)
        /\ \A v \in Mutes : Stands(d, v) => Stands(d, v)'
    <3>1. CASE ws.manager = manager /\ requests' # requests
      BY <1>0, <1>2, <1>5, <3>1, AskedMute
    <3>2. CASE requests' = requests
      BY <1>2, <3>2 DEF Adds, Stands
    <3>3. QED  BY <1>2, <3>1, <3>2
  <2>2. Echo(d) => Echo(d)'
    BY <1>2, <1>3, <2>1, EchoKept
  <2>3. ~Tells(d)
    BY <1>1, <1>5 DEF Tells
  <2>4. d \in tracks' \ misinformed' => d \in tracks \ misinformed
    BY <1>2, <1>5
  <2>5. QED  BY <1>0, <1>2, <1>3, <2>1, <2>2, <2>3, <2>4, MuteKept
<1>6. QED  BY <1>3a, <1>4, <1>5

LEMMA MuteNext ==
  ASSUME Inv, NEW d \in Devices, MuteOf(d), ItemsOf(d), LocalNext
  PROVE  MuteOf(d)'
<1>1. CASE User
  BY <1>1, QuietMute, MuteMute, TellMuteMute DEF User
<1>2. CASE WebSocket
  BY <1>2, SessionMute, QuietMute, OnTrackPublishedMute, ReadMutedMute, SendMuteTrackMute, OnTrackUnpublishedMute
  DEF WebSocket
<1>3. CASE Queues
  BY <1>3, RunAddMute, RunRemoveMute, SendAddTrackMute DEF Queues
<1>4. CASE Server
  BY <1>4, ServerTakesMute, ServerUnpublishesMute DEF Server
<1>5. CASE Close
  BY <1>5, SessionMute
<1>6. QED  BY <1>1, <1>2, <1>3, <1>4, <1>5 DEF LocalNext

LEMMA TellInit == LocalInit => TellInv
<1> SUFFICES ASSUME LocalInit PROVE TellInv
  OBVIOUS
<1>1. RoundInv
  BY DEF LocalInit, RoundInv, Resting
<1>2. ASSUME NEW d \in Devices PROVE ItemsOf(d) /\ MuteOf(d)
  <2>1. /\ At("add", d) = {} /\ At("remove", d) = {} /\ InAdded(d) = {} /\ Adds(d) = {} /\ Answers(d) = {}
        /\ ~Does("added", d) /\ ~Reconciles(d) /\ d \notin sids /\ d \notin tracks /\ ws.step # "install"
    BY DEF LocalInit, At, InAdded, Adds, Answers, In, Does, Reconciles, Resting
  <2>2. ASSUME NEW p \in Places, NEW i \in Nat PROVE <<p, i>> \notin Items(d)
    <3>1. CASE p = "user" \/ p = "install" \/ p = "tasks"
      BY <2>1, <3>1, NextItems DEF Placed
    <3>2. CASE p = "added" \/ p = "requests" \/ p = "replies"
      BY <2>1, <3>2, NextItems DEF Placed
    <3>3. QED  BY <3>1, <3>2, PlaceCases
  <2>3. Items(d) = {}
    BY <2>2, NextItems DEF Placed
  <2>4. QED  BY <2>1, <2>3 DEF ItemsOf, MuteOf, AtMostTwo, AtMostOne
<1>3. QED  BY <1>1, <1>2 DEF TellInv

LEMMA TellStep == Inv /\ TellInv /\ [LocalNext]_localVars => TellInv'
<1> SUFFICES ASSUME Inv, TellInv, [LocalNext]_localVars PROVE TellInv'
  OBVIOUS
<1>0. RoundInv /\ \A d \in Devices : ItemsOf(d) /\ MuteOf(d)
  BY DEF TellInv
<1>1. CASE LocalNext
  <2>1. RoundInv'
    BY <1>0, <1>1, UserRound, WebSocketRound, OtherRound DEF LocalNext
  <2>2. \A d \in Devices : ItemsOf(d)' /\ MuteOf(d)'
    BY <1>0, <1>1, ItemsNext, MuteNext
  <2>3. QED  BY <2>1, <2>2 DEF TellInv
<1>2. CASE UNCHANGED localVars
  <2>1. UNCHANGED <<fresh, devices, manager, made, user, ws, tasks, tracks, added, muted, sids, requests, replies, copy, misinformed>>
    BY <1>2 DEF localVars
  <2>2. RoundInv'
    BY <1>0, <2>1 DEF RoundInv
  <2>3. ASSUME NEW d \in Devices PROVE ItemsOf(d)' /\ MuteOf(d)'
    <3>1. /\ At("add", d)' = At("add", d) /\ At("remove", d)' = At("remove", d) /\ InAdded(d)' = InAdded(d)
          /\ Adds(d)' = Adds(d) /\ Answers(d)' = Answers(d)
          /\ (Does("added", d)' <=> Does("added", d)) /\ (Does("muted", d)' <=> Does("muted", d))
          /\ (Reconciles(d)' <=> Reconciles(d)) /\ (Tells(d)' <=> Tells(d))
      BY <2>1 DEF At, InAdded, Adds, Answers, Does, Reconciles, Tells
    <3>2. Shrinks(Items(d), Items(d)')
      BY <2>1, <3>1, ItemsStay
    <3>3. \A v \in Mutes : Stands(d, v) => Stands(d, v)'
      BY <2>1 DEF Stands
    <3>4. Echo(d) => Echo(d)'
      BY <2>1, <3>1, <3>3, EchoKept
    <3>5. muted[d] \in Mutes
      BY Types DEF Inv
    <3>6. ItemsOf(d)'
      BY <1>0, <2>1, <3>1, <3>2, ItemsKept
    <3>7. MuteOf(d)'
      BY <1>0, <2>1, <3>1, <3>3, <3>4, <3>5, MuteKept
    <3>8. QED  BY <3>6, <3>7
  <2>4. QED  BY <2>2, <2>3 DEF TellInv
<1>3. QED  BY <1>1, <1>2

\* onMuteChanged and the reconciliation of onTrackPublished, in whatever order the user, the
\* queues and the server take their steps: with nothing under way, the server's copy of the
\* mute is the state of the device, unless the last request about the device was lost, which
\* nobody sends again, or was a reconciliation with a state the user had already changed.
THEOREM MutesAreKnown == LocalSpec => []ServerKnowsMute
<1>1. Inv /\ TellInv => ServerKnowsMute
  <2> SUFFICES ASSUME Inv, TellInv, NEW d \in Devices, AtRest(d), d \notin misinformed PROVE copy[d] = muted[d]
    BY DEF ServerKnowsMute
  <2>1. /\ user = Resting /\ ws = Resting /\ requests = <<>> /\ replies = <<>> /\ added = <<>>
        /\ d \in tracks /\ d \in sids /\ copy[d] # "none"
    BY DEF AtRest
  <2>2. /\ InAdded(d) = {} /\ Adds(d) = {} /\ Answers(d) = {} /\ In(requests, OfRequest(d)) = {}
    BY <2>1 DEF InAdded, Adds, Answers, In
  <2>3. ~Does("muted", d) /\ ~Tells(d) /\ ws.step # "reconcile"
    BY <2>1 DEF Does, Tells, Resting
  <2>4. ~Echo(d)
    BY <2>2, <2>3 DEF Echo, Says
  <2>5. Stands(d, muted[d])
    BY <2>1, <2>2, <2>3, <2>4 DEF TellInv, MuteOf, Tells
  <2>6. QED  BY <2>1, <2>2, <2>5 DEF Stands
<1>2. LocalSpec => [](Inv /\ TellInv)
  <2>1. LocalSpec => []Inv
    BY Invariance
  <2>2. QED  BY <2>1, TellInit, TellStep, PTL DEF LocalSpec
<1>3. QED  BY <1>1, <1>2, PTL
=============================================================================
