---------------------------- MODULE LocalTracks ----------------------------
(***************************************************************************)
(* Devices of the local participant and the tracks that publish them: the  *)
(* user adds, removes and mutes devices on one thread, the WebSocket       *)
(* thread makes and ends transport managers and handles what the server    *)
(* says, the signaling thread changes the senders, the events queue asks   *)
(* the server for a track.                                                 *)
(***************************************************************************)
EXTENDS Naturals, Sequences, SequencesExt

CONSTANTS
  Devices,       \* devices the application makes: each has an id of its own
  MaxManagers,   \* bound: transport managers made
  MaxCalls       \* bound: calls of the user

ASSUME LocalTracksAssumption == MaxManagers \in Nat /\ MaxCalls \in Nat

VARIABLES
  fresh,      \* devices the application has not added yet
  calls,      \* calls of the user so far
  devices,    \* _audioDevices, _videoDevices of the local participant
  manager,    \* _pcManager: its number, 0 for none
  made,       \* managers made so far
  user, ws,   \* what each thread is in the middle of
  tasks,      \* tasks of managers on the signaling thread
  named,      \* devices with a sender that has the id of the device
  extra,      \* devices with one more sender, under another id
  tracks,     \* devices in _audioTracks, _videoTracks of the manager
  added,      \* onLocalTrackAdded calls on the events queue
  muted,      \* _muted of each device
  sids,       \* tracks that know their sid
  requests,   \* requests on the way to the server
  replies,    \* messages of the server on their way
  copy,       \* the server's tracks: "none", or muted or not
  rejected,   \* history: devices the server has unpublished
  crossed,    \* history: devices added while a manager was being installed
  refused,    \* history: devices whose sender the peer connection refused
  stuck,      \* history: devices whose sender could not be taken away
  misinformed \* history: devices about which the last request was lost, or late

localVars == <<fresh, calls, devices, manager, made, user, ws, tasks, named, extra, tracks, added,
               muted, sids, requests, replies, copy, rejected, crossed, refused, stuck,
               misinformed>>
deviceVars == <<fresh, calls, devices, crossed>>
managerVars == <<manager, made>>
senderVars == <<named, extra, tracks, refused, stuck>>
serverVars == <<requests, replies, copy, rejected>>

Mutes == {"muted", "unmuted"}
Resting == [step |-> "idle"]
Flip(m) == IF m = "muted" THEN "unmuted" ELSE "muted"

Post(op, ds) == tasks' = tasks \o [i \in DOMAIN ds |-> [op |-> op, device |-> ds[i], manager |-> manager]]
PostIfManager(op, ds) == IF manager = 0 THEN UNCHANGED tasks ELSE Post(op, ds)

\* A request for the server may be refused by the transport: it is lost with no more than a
\* line in the log. timely: what it says of the mute is what the device has.
Send(op, d, mute, timely) ==
  \/ /\ requests' = Append(requests, [op |-> op, device |-> d, muted |-> mute])
     /\ misinformed' = IF timely THEN misinformed \ {d} ELSE misinformed \cup {d}
  \/ misinformed' = misinformed \cup {d} /\ UNCHANGED requests

----------------------------------------------------------------------------
(* The user's thread.                                                      *)

Call == user = Resting /\ calls < MaxCalls /\ calls' = calls + 1

AddDevice(d) ==
  /\ Call /\ d \in fresh
  /\ fresh' = fresh \ {d} /\ devices' = devices \cup {d}
  /\ user' = [step |-> "added", device |-> d]
  /\ crossed' = IF ws.step = "install" THEN crossed \cup {d} ELSE crossed
  /\ UNCHANGED <<managerVars, ws, tasks, senderVars, added, muted, sids, serverVars, misinformed>>

\* addTrackDevice: with a manager the device is posted to it.
PostAdd ==
  /\ user.step = "added" /\ user' = Resting
  /\ PostIfManager("add", <<user.device>>)
  /\ UNCHANGED <<deviceVars, managerVars, ws, senderVars, added, muted, sids, serverVars, misinformed>>

RemoveDevice(d) ==
  /\ Call /\ d \in devices
  /\ devices' = devices \ {d}
  /\ user' = [step |-> "removed", device |-> d]
  /\ UNCHANGED <<fresh, crossed, managerVars, ws, tasks, senderVars, added, muted, sids,
                 serverVars, misinformed>>

PostRemove ==
  /\ user.step = "removed" /\ user' = Resting
  /\ PostIfManager("remove", <<user.device>>)
  /\ UNCHANGED <<deviceVars, managerVars, ws, senderVars, added, muted, sids, serverVars, misinformed>>

Mute(d) ==
  /\ Call /\ d \in devices
  /\ muted' = [muted EXCEPT ![d] = Flip(@)]
  /\ user' = [step |-> "muted", device |-> d]
  /\ UNCHANGED <<fresh, devices, crossed, managerVars, ws, tasks, senderVars, added, sids, serverVars, misinformed>>

\* onMuteChanged of the track, if there is one: the server knows it by its sid only.
TellMute ==
  /\ user.step = "muted" /\ user' = Resting
  /\ IF user.device \in tracks \cap sids
     THEN Send("mute", user.device, muted[user.device], TRUE)
     ELSE UNCHANGED <<requests, misinformed>>
  /\ UNCHANGED <<deviceVars, managerVars, ws, tasks, senderVars, added, muted, sids, replies,
                 copy, rejected>>

----------------------------------------------------------------------------
(* The WebSocket thread: sessions begin and end.                           *)

\* createTransportManager: first the manager, then all devices there are.
Install ==
  /\ ws = Resting /\ manager = 0 /\ made < MaxManagers
  /\ manager' = made + 1 /\ made' = made + 1
  /\ ws' = [step |-> "install"]
  /\ crossed' = IF user.step = "added" THEN crossed \cup {user.device} ELSE crossed
  /\ UNCHANGED <<fresh, calls, devices, user, tasks, senderVars, added, muted, sids, serverVars, misinformed>>

MutAddDevices ==
  /\ ws.step = "install" /\ ws' = Resting
  /\ \E ds \in SetToSeqs(devices \ crossed) : PostIfManager("add", ds)
  /\ UNCHANGED <<deviceVars, managerVars, user, senderVars, added, muted, sids, serverVars, misinformed>>

AddDevices ==
  /\ ws.step = "install" /\ ws' = Resting
  /\ \E ds \in SetToSeqs(devices) : PostIfManager("add", ds)
  /\ UNCHANGED <<deviceVars, managerVars, user, senderVars, added, muted, sids, serverVars, misinformed>>

\* disconnect() of the user or a cleanup on any thread: what belongs to the manager goes with it.
Close ==
  /\ manager # 0
  /\ manager' = 0 /\ UNCHANGED made
  /\ named' = {} /\ extra' = {} /\ tracks' = {} /\ sids' = {}
  /\ requests' = <<>> /\ replies' = <<>> /\ copy' = [d \in Devices |-> "none"]
  /\ rejected' = {} /\ refused' = {} /\ stuck' = {} /\ misinformed' = {}
  /\ UNCHANGED <<deviceVars, user, ws, tasks, added, muted>>

----------------------------------------------------------------------------
(* The signaling thread.  Tasks of a closed manager find no connection.    *)

Task(op) == tasks # <<>> /\ Head(tasks).op = op /\ tasks' = Tail(tasks)
OfManager == Head(tasks).manager = manager

\* A second sender for a track gets a random id; the map keeps the first track object. Of a
\* failure of AddTransceiver only the user hears.
RunAdd ==
  /\ Task("add")
  /\ LET d == Head(tasks).device
     IN  IF OfManager
         THEN \/ /\ named' = named \cup {d} /\ tracks' = tracks \cup {d}
                 /\ extra' = IF d \in named THEN extra \cup {d} ELSE extra
                 /\ added' = Append(added, [device |-> d, manager |-> manager])
                 /\ refused' = refused \ {d} /\ UNCHANGED stuck
              \/ /\ refused' = refused \cup ({d} \ named)
                 /\ UNCHANGED <<named, extra, tracks, stuck, added>>
         ELSE UNCHANGED <<senderVars, added>>
  /\ UNCHANGED <<deviceVars, managerVars, user, ws, muted, sids, serverVars, misinformed>>

MutRunRemove ==
  /\ Task("remove")
  /\ tracks' = IF OfManager THEN tracks \ {Head(tasks).device} ELSE tracks
  /\ UNCHANGED <<deviceVars, managerVars, user, ws, named, extra, refused, stuck, added, muted,
                 sids, serverVars, misinformed>>

\* findSender looks for the id: the first sender goes, and its track with it, unless
\* RemoveTrackOrError fails.
RunRemove ==
  /\ Task("remove")
  /\ LET d == Head(tasks).device
     IN  IF OfManager
         THEN \/ /\ named' = named \ {d} /\ tracks' = tracks \ {d} /\ sids' = sids \ {d}
                 /\ stuck' = stuck \ {d}
              \/ /\ d \in named /\ stuck' = stuck \cup {d}
                 /\ UNCHANGED <<named, tracks, sids>>
         ELSE UNCHANGED <<named, tracks, sids, stuck>>
  /\ UNCHANGED <<deviceVars, managerVars, user, ws, extra, refused, added, muted, serverVars,
                 misinformed>>

----------------------------------------------------------------------------
(* The events queue: onLocalTrackAdded sends the request for the track.    *)

SendAddTrack ==
  /\ added # <<>> /\ added' = Tail(added)
  /\ IF Head(added).manager = manager
     THEN Send("add", Head(added).device, muted[Head(added).device], TRUE)
     ELSE UNCHANGED <<requests, misinformed>>
  /\ UNCHANGED <<deviceVars, managerVars, user, ws, tasks, senderVars, muted, sids, replies,
                 copy, rejected>>

----------------------------------------------------------------------------
(* The server, external: it publishes, takes mutes, and may unpublish.     *)

ServerTakes ==
  /\ requests # <<>> /\ requests' = Tail(requests)
  /\ LET r == Head(requests)
     IN  /\ copy' = [copy EXCEPT ![r.device] =
                       IF r.op = "add" \/ @ # "none" THEN r.muted ELSE @]
         /\ replies' = IF r.op = "add"
                       THEN Append(replies, [op |-> "published", device |-> r.device, muted |-> r.muted])
                       ELSE replies
  /\ UNCHANGED <<deviceVars, managerVars, user, ws, tasks, senderVars, added, muted, sids,
                 rejected, misinformed>>

ServerUnpublishes(d) ==
  /\ copy[d] # "none" /\ copy' = [copy EXCEPT ![d] = "none"]
  /\ replies' = Append(replies, [op |-> "unpublished", device |-> d, muted |-> "muted"])
  /\ rejected' = rejected \cup {d}
  /\ UNCHANGED <<deviceVars, managerVars, user, ws, tasks, senderVars, added, muted, sids,
                 requests, misinformed>>

----------------------------------------------------------------------------
(* The WebSocket thread: messages about tracks.                            *)

Message(op) == ws = Resting /\ replies # <<>> /\ Head(replies).op = op /\ replies' = Tail(replies)

OnTrackPublished ==
  /\ Message("published")
  /\ LET d == Head(replies).device
     IN  IF d \in tracks
         THEN /\ sids' = sids \cup {d}
              /\ ws' = [step |-> "reconcile", device |-> d, manager |-> manager,
                        told |-> Head(replies).muted]
         ELSE UNCHANGED <<sids, ws>>
  /\ UNCHANGED <<deviceVars, managerVars, user, tasks, senderVars, added, muted, requests,
                 copy, rejected, misinformed>>

MutReadMuted ==
  /\ ws.step = "reconcile"
  /\ ws' = IF muted[ws.device] = ws.told \/ muted[ws.device] = "muted" THEN Resting
           ELSE [step |-> "tell", device |-> ws.device, manager |-> ws.manager,
                 told |-> muted[ws.device]]
  /\ UNCHANGED <<deviceVars, managerVars, user, tasks, senderVars, added, muted, sids,
                 serverVars, misinformed>>

\* The state of the device is read, and sent if the server's copy differs from it.
ReadMuted ==
  /\ ws.step = "reconcile"
  /\ ws' = IF muted[ws.device] = ws.told THEN Resting
           ELSE [step |-> "tell", device |-> ws.device, manager |-> ws.manager,
                 told |-> muted[ws.device]]
  /\ UNCHANGED <<deviceVars, managerVars, user, tasks, senderVars, added, muted, sids,
                 serverVars, misinformed>>

SendMuteTrack ==
  /\ ws.step = "tell" /\ ws' = Resting
  /\ IF ws.manager = manager
     THEN Send("mute", ws.device, ws.told, muted[ws.device] = ws.told)
     ELSE UNCHANGED <<requests, misinformed>>
  /\ UNCHANGED <<deviceVars, managerVars, user, tasks, senderVars, added, muted, sids, replies,
                 copy, rejected>>

\* onTrackUnpublished, or an update that no longer has the track.
OnTrackUnpublished ==
  /\ Message("unpublished")
  /\ IF Head(replies).device \in tracks \cap sids
     THEN Post("remove", <<Head(replies).device>>) ELSE UNCHANGED tasks
  /\ UNCHANGED <<deviceVars, managerVars, user, ws, senderVars, added, muted, sids, requests,
                 copy, rejected, misinformed>>

----------------------------------------------------------------------------
LocalInit ==
  /\ fresh = Devices /\ calls = 0 /\ devices = {} /\ crossed = {}
  /\ manager = 0 /\ made = 0
  /\ user = Resting /\ ws = Resting
  /\ tasks = <<>> /\ added = <<>> /\ requests = <<>> /\ replies = <<>>
  /\ named = {} /\ extra = {} /\ tracks = {} /\ sids = {}
  /\ muted = [d \in Devices |-> "unmuted"]
  /\ copy = [d \in Devices |-> "none"] /\ rejected = {} /\ refused = {} /\ stuck = {} /\ misinformed = {}

User ==
  \/ \E d \in Devices : AddDevice(d) \/ RemoveDevice(d) \/ Mute(d)
  \/ PostAdd
  \/ PostRemove
  \/ TellMute

WebSocket ==
  \/ Install
  \/ AddDevices
  \/ OnTrackPublished
  \/ ReadMuted
  \/ SendMuteTrack
  \/ OnTrackUnpublished

Queues == RunAdd \/ RunRemove \/ SendAddTrack
Server == ServerTakes \/ \E d \in Devices : ServerUnpublishes(d)

LocalNext == User \/ WebSocket \/ Queues \/ Server \/ Close

LocalSpec == LocalInit /\ [][LocalNext]_localVars

----------------------------------------------------------------------------
Posted(op, d) == \E i \in DOMAIN tasks : tasks[i] = [op |-> op, device |-> d, manager |-> manager]

TaskType == [op: {"add", "remove"}, device: Devices, manager: Nat]
RequestType == [op: {"add", "mute"}, device: Devices, muted: Mutes]

\* Every variable of the local participant and its tracks keeps its type.
LocalTypeOK ==
  /\ fresh \subseteq Devices /\ devices \subseteq Devices \ fresh /\ crossed \subseteq Devices
  /\ made \in 0..MaxManagers /\ manager \in {0, made}
  /\ user \in [step: {"idle"}] \cup [step: {"added", "removed", "muted"}, device: Devices]
  /\ ws \in [step: {"idle", "install"}] \cup
            [step: {"reconcile", "tell"}, device: Devices, manager: Nat, told: Mutes]
  /\ tasks \in Seq(TaskType) /\ added \in Seq([device: Devices, manager: Nat])
  /\ requests \in Seq(RequestType)
  /\ replies \in Seq([op: {"published", "unpublished"}, device: Devices, muted: Mutes])
  /\ named \subseteq tracks /\ tracks \subseteq Devices /\ extra \subseteq Devices
  /\ sids \subseteq tracks
  /\ muted \in [Devices -> Mutes] /\ calls \in 0..MaxCalls
  /\ copy \in [Devices -> Mutes \cup {"none"}]
  /\ rejected \subseteq Devices /\ refused \subseteq Devices /\ stuck \subseteq Devices
  /\ misinformed \subseteq Devices

\* addTrackDevice against createTransportManager: however they interleave, a device of
\* the local participant has a sender in the installed manager, or somebody is on the way
\* to one, unless the server has unpublished it or the peer connection refused the sender,
\* which nobody tries again.
DeviceIsPublished ==
  manager # 0 /\ ws.step # "install" =>
    \A d \in devices \ (rejected \cup refused) :
      d \in named \/ Posted("add", d) \/ user = [step |-> "added", device |-> d]

\* removeTrackDevice: a device the local participant no longer has is not sent, under the
\* id of the device, once the task to remove it has run, unless that failed.
RemovedDeviceIsWithdrawn ==
  \A d \in Devices \ devices :
    (d \in named /\ d \notin stuck) \/ Posted("add", d) =>
      Posted("remove", d) \/ user = [step |-> "removed", device |-> d]

\* A device is sent twice, which removeTrackDevice cannot undo, only if it was added while
\* a manager was being installed.
TwiceOnlyIfCrossed ==
  \A d \in extra : d \in crossed

\* Together: what the manager sends follows the devices of the local participant.
ManagerFollowsDevices == DeviceIsPublished /\ RemovedDeviceIsWithdrawn /\ TwiceOnlyIfCrossed

AtRest(d) ==
  /\ user = Resting /\ ws = Resting /\ requests = <<>> /\ replies = <<>> /\ added = <<>>
  /\ d \in tracks \cap sids /\ copy[d] # "none"

\* onMuteChanged and the reconciliation of onTrackPublished: with nothing under way, the
\* server's copy of the mute is the state of the device, unless the last request about the
\* device was lost, which nobody sends again, or was a reconciliation with a state the user
\* had already changed.
ServerKnowsMute ==
  \A d \in Devices : AtRest(d) /\ d \notin misinformed => copy[d] = muted[d]
=============================================================================
