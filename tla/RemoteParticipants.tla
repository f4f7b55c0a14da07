------------------------- MODULE RemoteParticipants -------------------------
(***************************************************************************)
(* RemoteParticipants, RemoteParticipantImpl and NonBindedRtpReceivers: a  *)
(* remote track exists for the user once two things have met, the server's *)
(* message that lists it (WebSocket thread) and the receiver that the peer *)
(* connection made for it (events queue). Whichever comes first waits: the *)
(* message in the info of a participant, the receiver in the storage of    *)
(* receivers not bound yet.                                                *)
(*                                                                         *)
(* _participants has a lock, held for the whole of setInfo, updateInfo and *)
(* clearParticipants; the storage has one of its own, held for one look-up.*)
(* A participant's setInfo is one step here: the only step of another      *)
(* thread that could fall into it empties the storage.                     *)
(*                                                                         *)
(* External: the server, which names a participant once in a message and   *)
(* a track under one participant, and the subscriber's peer connection.    *)
(***************************************************************************)
EXTENDS Naturals, Sequences, FiniteSets

CONSTANTS
  Participants,  \* sids of remote participants
  Tracks,        \* sids of their tracks
  Owner,         \* the participant that publishes a track
  Foreign,       \* tracks whose receiver has an id other than the sid
  MaxSessions,   \* bound: connections made
  MaxCalls       \* bound: calls queued for the events thread

ASSUME RemoteParticipantsAssumption ==
  /\ Owner \in [Tracks -> Participants]
  /\ Foreign \subseteq Tracks
  /\ MaxSessions \in Nat
  /\ MaxCalls \in Nat

VARIABLES
  present,   \* participants in _participants
  listed,    \* the tracks in a participant's _info
  bound,     \* how many track objects a track has in its participant
  waiting,   \* keys of _nonBindedReceivers
  media,     \* tracks the peer connection has a receiver for
  calls,     \* calls posted to the events queue
  at,        \* where each thread is in the code
  lock,      \* the thread that holds the lock of _participants, or "none"
  job,       \* what that thread has left to do
  live,      \* RTCEngineImpl::_pcManager is set
  socket,    \* the WebSocket is open
  fresh,     \* the server has sent nothing over this socket yet
  sessions,  \* connections made so far, up to MaxSessions
  removing,  \* the track removeMedia is about to drop from its participant
  dropped    \* history: tracks whose receiver went with an info or a reset

vars == <<present, listed, bound, waiting, media, calls, at, lock, job, live,
          socket, fresh, sessions, removing, dropped>>

roomVars == <<present, listed, bound>>
peerVars == <<media, live>>
linkVars == <<socket, fresh, sessions>>

Threads == {"ws", "events"}

Steps == {"idle", "join", "create", "update", "unbind", "reset", "resetting", "close"}

TracksOf(p) == {s \in Tracks : Owner[s] = p}

Infos == [tracks : SUBSET Tracks, disconnected : BOOLEAN]

\* What a message says of some of the participants.
News == {n \in UNION {[P -> Infos] : P \in SUBSET Participants} :
           \A p \in DOMAIN n : n[p].tracks \subseteq TracksOf(p)}

NoNews == [p \in {} |-> [tracks |-> {}, disconnected |-> FALSE]]

NoJob == [clear |-> FALSE, enter |-> {}, remove |-> {}, refresh |-> {}, news |-> NoNews]

Calls == [op : {"add", "remove"}, track : Tracks] \cup [op : {"lost", "failed"}]

(***************************************************************************)
(* Helpers.                                                                *)
(***************************************************************************)
Go(t, step) == at' = [at EXCEPT ![t] = step]

Listed(s) == Owner[s] \in present /\ s \in listed[Owner[s]]

\* A receiver already in the storage is not replaced.
AddNonBinded(s) == waiting' = waiting \cup {s}

\* RemoteParticipantImpl::addAudio and addVideo, without a receiver: the
\* tracks S take theirs from the storage, those of it that wait.
TakeReceivers(S) == waiting' = waiting \ S

(***************************************************************************)
(* The steps of a thread that holds the lock: first who enters, then who   *)
(* is removed, then who is updated; clearParticipants removes first.       *)
(***************************************************************************)
Work(t, clear, enter, remove, refresh, news) ==
  /\ lock = "none"
  /\ lock' = t
  /\ job' = [clear |-> clear, enter |-> enter, remove |-> remove,
             refresh |-> refresh, news |-> news]

\* A new participant: setInfo, then addParticipant.
Enter(p) ==
  LET tracks == job.news[p].tracks
  IN /\ lock # "none"
     /\ p \in job.enter
     /\ job.clear => job.remove = {}
     /\ present' = present \cup {p}
     /\ listed' = [listed EXCEPT ![p] = tracks]
     /\ bound' = [s \in Tracks |-> IF s \in tracks \cap waiting
                                     THEN bound[s] + 1 ELSE bound[s]]
     /\ TakeReceivers(tracks)
     /\ job' = [job EXCEPT !.enter = @ \ {p}]
     /\ UNCHANGED <<peerVars, calls, at, lock, linkVars, removing, dropped>>

\* Mutant: a participant that is removed leaves its tracks behind.
MutDisposed(p, tracks) ==
  /\ listed' = [listed EXCEPT ![p] = {}]
  /\ UNCHANGED bound
  /\ waiting' = waiting \ tracks
  /\ dropped' = dropped

\* dispose(): the storage forgets the tracks of the participant, the
\* participant drops its own. The object is destroyed, its info with it.
Disposed(p, tracks) ==
  /\ listed' = [listed EXCEPT ![p] = {}]
  /\ bound' = [s \in Tracks |-> IF Owner[s] = p THEN 0 ELSE bound[s]]
  /\ waiting' = waiting \ tracks
  /\ dropped' = dropped \cup (media \cap TracksOf(p))

\* removeParticipant, or one turn of the loop in clearParticipants.
Remove(p) ==
  /\ lock # "none"
  /\ p \in job.remove
  /\ job.clear \/ job.enter = {}
  /\ present' = present \ {p}
  /\ Disposed(p, listed[p])
  /\ job' = [job EXCEPT !.remove = @ \ {p}]
  /\ UNCHANGED <<peerVars, calls, at, lock, linkVars, removing>>

\* Mutant: a new track of a known participant does not ask the storage.
MutRevised(p, tracks) ==
  /\ listed' = [listed EXCEPT ![p] = tracks]
  /\ bound' = [s \in Tracks |->
       IF s \in listed[p] \ tracks /\ bound[s] > 0 THEN bound[s] - 1 ELSE bound[s]]
  /\ UNCHANGED waiting
  /\ dropped' = dropped \cup (media \cap (listed[p] \ tracks))

\* RemoteParticipantImpl::setInfo: new tracks take their receivers, one object
\* of each missing track goes, a known track without an object asks again.
Revised(p, tracks) ==
  LET missing == listed[p] \ tracks
      asking  == {s \in tracks : s \in listed[p] => bound[s] = 0}
  IN /\ listed' = [listed EXCEPT ![p] = tracks]
     /\ bound' = [s \in Tracks |->
          CASE s \in asking \cap waiting      -> bound[s] + 1
            [] s \in missing /\ bound[s] > 0 -> bound[s] - 1
            [] OTHER                         -> bound[s]]
     /\ TakeReceivers(asking)
     /\ dropped' = dropped \cup (media \cap missing)

\* A participant in the room and in the message: setInfo, and it is disposed
\* of when it is disconnected.
Refresh(p) ==
  LET info == job.news[p]
  IN /\ lock # "none"
     /\ job.enter = {} /\ job.remove = {}
     /\ p \in job.refresh
     /\ IF info.disconnected
          THEN /\ present' = present \ {p}
               /\ Disposed(p, info.tracks)
          ELSE /\ UNCHANGED present
               /\ Revised(p, info.tracks)
     /\ job' = [job EXCEPT !.refresh = @ \ {p}]
     /\ UNCHANGED <<peerVars, calls, at, lock, linkVars, removing>>

\* The lock is released; after a join the manager is next, after a reset
\* disconnect().
Finish(t) ==
  /\ lock = t
  /\ job.enter = {} /\ job.remove = {} /\ job.refresh = {}
  /\ lock' = "none"
  /\ job' = NoJob
  /\ Go(t, CASE at[t] = "join"      -> "create"
             [] at[t] = "resetting" -> "close"
             [] OTHER               -> "idle")
  /\ UNCHANGED <<roomVars, waiting, peerVars, calls, linkVars, removing, dropped>>

(***************************************************************************)
(* Messages of the server, on the WebSocket thread.                        *)
(***************************************************************************)
\* onJoin: RemoteParticipants::setInfo takes all participants out at once and
\* disposes of them one by one, before the connected ones enter.
SetInfo(news) ==
  /\ at["ws"] = "idle" /\ socket = "open" /\ fresh
  /\ fresh' = FALSE
  /\ Work("ws", TRUE, {p \in DOMAIN news : ~news[p].disconnected}, present, {}, news)
  /\ present' = {}
  /\ Go("ws", "join")
  /\ UNCHANGED <<listed, bound, waiting, peerVars, calls, socket, sessions, removing,
                 dropped>>

\* onReconnect leaves the room to the next update.
Reconnect ==
  /\ at["ws"] = "idle" /\ socket = "open" /\ fresh
  /\ sessions > 1
  /\ fresh' = FALSE
  /\ Go("ws", "create")
  /\ UNCHANGED <<roomVars, waiting, peerVars, calls, lock, job, socket, sessions,
                 removing, dropped>>

\* The calls of a manager that is gone are not made any more, those of the
\* socket are.
ManagerGone ==
  LET kept == {i \in DOMAIN calls : calls[i].op = "lost"}
  IN /\ media' = {}
     /\ calls' = [i \in 1..Cardinality(kept) |-> [op |-> "lost"]]

\* createTransportManager: a manager still there is replaced and destroyed.
CreateManager ==
  /\ at["ws"] = "create"
  /\ live' = TRUE
  /\ ManagerGone
  /\ Go("ws", "idle")
  /\ UNCHANGED <<roomVars, waiting, lock, job, linkVars, removing, dropped>>

\* onUpdate: updateInfo takes the message for the whole room, whoever it does
\* not name is removed; an empty one is ignored.
UpdateInfo(news) ==
  /\ at["ws"] = "idle" /\ socket = "open" /\ ~fresh
  /\ DOMAIN news # {}
  /\ Work("ws", FALSE, DOMAIN news \ present, present \ DOMAIN news,
          present \cap DOMAIN news, news)
  /\ Go("ws", "update")
  /\ UNCHANGED <<roomVars, waiting, peerVars, calls, linkVars, removing, dropped>>

(***************************************************************************)
(* The subscriber's peer connection, and what can go wrong.                *)
(***************************************************************************)
Post(call) == calls' = Append(calls, call)

OnAddTrack(s) ==
  /\ live /\ s \notin media
  /\ Len(calls) < MaxCalls
  /\ media' = media \cup {s}
  /\ Post([op |-> "add", track |-> s])
  /\ UNCHANGED <<roomVars, waiting, at, lock, job, live, linkVars, removing, dropped>>

OnRemoveTrack(s) ==
  /\ live /\ s \in media
  /\ Len(calls) < MaxCalls
  /\ media' = media \ {s}
  /\ Post([op |-> "remove", track |-> s])
  /\ UNCHANGED <<roomVars, waiting, at, lock, job, live, linkVars, removing, dropped>>

\* onSdpOperationFailed, onPingPongTimeout, a failed peer connection.
Fail ==
  /\ live
  /\ Len(calls) < MaxCalls
  /\ Post([op |-> "failed"])
  /\ UNCHANGED <<roomVars, waiting, peerVars, at, lock, job, linkVars, removing, dropped>>

\* The WebSocket thread reports that the socket is closed.
Disconnected ==
  /\ at["ws"] = "idle" /\ socket \in {"open", "closing"}
  /\ socket' = "closed"
  /\ Post([op |-> "lost"])
  /\ UNCHANGED <<roomVars, waiting, peerVars, at, lock, job, fresh, sessions, removing,
                 dropped>>

Connect ==
  /\ socket = "closed"
  /\ sessions < MaxSessions
  /\ socket' = "open"
  /\ fresh' = TRUE
  /\ sessions' = sessions + 1
  /\ UNCHANGED <<roomVars, waiting, peerVars, calls, at, lock, job, removing, dropped>>

(***************************************************************************)
(* The events queue.                                                       *)
(***************************************************************************)
\* Mutant: a receiver always waits for the next message.
MutAddMedia(s) ==
  /\ AddNonBinded(s)
  /\ UNCHANGED bound

\* Mutant: a receiver nobody has asked for is dropped.
MutLoseMedia(s) ==
  /\ bound' = [bound EXCEPT ![s] = IF Listed(s) THEN @ + 1 ELSE @]
  /\ UNCHANGED waiting

\* RemoteParticipants::addMedia: bind if some participant lists the track.
AddMedia(s) ==
  IF Listed(s)
    THEN /\ bound' = [bound EXCEPT ![s] = @ + 1]
         /\ UNCHANGED waiting
    ELSE /\ AddNonBinded(s)
         /\ UNCHANGED bound

NextCall(op) == at["events"] = "idle" /\ calls # <<>> /\ Head(calls).op = op

OnRemoteTrackAdded ==
  /\ NextCall("add") /\ lock = "none"
  /\ AddMedia(Head(calls).track)
  /\ dropped' = dropped \ {Head(calls).track}
  /\ calls' = Tail(calls)
  /\ UNCHANGED <<present, listed, peerVars, at, lock, job, linkVars, removing>>

\* The key removeMedia looks for is the receiver's id.
KeysOf(s) == {s} \ Foreign

\* removeMedia, before it takes the lock: a receiver that waits is forgotten.
OnRemoteTrackRemoved ==
  LET s == Head(calls).track
  IN /\ NextCall("remove")
     /\ waiting' = waiting \ KeysOf(s)
     /\ removing' = {s}
     /\ calls' = Tail(calls)
     /\ Go("events", "unbind")
     /\ UNCHANGED <<roomVars, peerVars, lock, job, linkVars, dropped>>

\* Mutant: removeMedia counts down without looking for the object.
MutUnbindUnseen ==
  /\ at["events"] = "unbind" /\ lock = "none"
  /\ bound' = [s \in Tracks |-> IF s \in removing THEN bound[s] - 1 ELSE bound[s]]
  /\ removing' = {}
  /\ Go("events", "idle")
  /\ UNCHANGED <<present, listed, waiting, peerVars, calls, lock, job, linkVars,
                 dropped>>

\* removeMedia, under the lock: the first object with that sid goes.
Unbind ==
  /\ at["events"] = "unbind" /\ lock = "none"
  /\ bound' = [s \in Tracks |->
       IF /\ \E r \in removing : s \in KeysOf(r)
          /\ Owner[s] \in present
          /\ bound[s] > 0
         THEN bound[s] - 1 ELSE bound[s]]
  /\ removing' = {}
  /\ Go("events", "idle")
  /\ UNCHANGED <<present, listed, waiting, peerVars, calls, lock, job, linkVars,
                 dropped>>

(***************************************************************************)
(* cleanup(): RemoteParticipants::reset, then disconnect(). The WebSocket  *)
(* thread runs it when the server sends the client away, the events queue  *)
(* when the connection is lost or the manager has failed.                  *)
(***************************************************************************)
\* Mutant: reset() leaves the storage as it is.
MutClearStorage(t) ==
  /\ Go(t, "reset")
  /\ UNCHANGED <<waiting, dropped>>

\* The storage is emptied before reset() has the lock.
ClearStorage(t) ==
  /\ Go(t, "reset")
  /\ waiting' = {}
  /\ dropped' = dropped \cup (media \cap waiting)

OnLeave ==
  /\ at["ws"] = "idle" /\ socket = "open"
  /\ ClearStorage("ws")
  /\ UNCHANGED <<roomVars, peerVars, calls, lock, job, linkVars, removing>>

OnFailure ==
  /\ NextCall("lost") \/ NextCall("failed")
  /\ calls' = Tail(calls)
  /\ ClearStorage("events")
  /\ UNCHANGED <<roomVars, peerVars, lock, job, linkVars, removing>>

ResetRoom(t) ==
  /\ at[t] = "reset"
  /\ Work(t, TRUE, {}, present, {}, NoNews)
  /\ present' = {}
  /\ Go(t, "resetting")
  /\ UNCHANGED <<listed, bound, waiting, peerVars, calls, linkVars, removing, dropped>>

\* disconnect() does nothing, not even to the socket, without a manager.
Close(t) ==
  /\ at[t] = "close"
  /\ IF live
       THEN /\ live' = FALSE
            /\ ManagerGone
            /\ socket' = IF socket = "open" THEN "closing" ELSE socket
       ELSE UNCHANGED <<live, media, calls, socket>>
  /\ Go(t, "idle")
  /\ UNCHANGED <<roomVars, waiting, lock, job, fresh, sessions, removing, dropped>>

-----------------------------------------------------------------------------
Init ==
  /\ present = {}
  /\ listed = [p \in Participants |-> {}]
  /\ bound = [s \in Tracks |-> 0]
  /\ waiting = {}
  /\ media = {}
  /\ calls = <<>>
  /\ at = [t \in Threads |-> "idle"]
  /\ lock = "none"
  /\ job = NoJob
  /\ live = FALSE
  /\ socket = "closed"
  /\ fresh = FALSE
  /\ sessions = 0
  /\ removing = {}
  /\ dropped = {}

Update(p) == Enter(p) \/ Remove(p) \/ Refresh(p)

Run(t) == Finish(t) \/ ResetRoom(t) \/ Close(t)

Serve == OnRemoteTrackAdded \/ OnRemoteTrackRemoved \/ Unbind \/ OnFailure

Next ==
  \/ \E p \in Participants : Update(p)
  \/ \E t \in Threads : Run(t)
  \/ CreateManager
  \/ Serve
  \/ \E news \in News : SetInfo(news) \/ UpdateInfo(news)
  \/ Reconnect \/ OnLeave
  \/ \E s \in Tracks : OnAddTrack(s) \/ OnRemoveTrack(s)
  \/ Fail \/ Disconnected \/ Connect

Spec == Init /\ [][Next]_vars

\* The two threads go on with what they have begun, and the events queue is
\* served. Nothing is assumed of the server, the peer connection or the user.
Fairness ==
  /\ WF_vars(\E p \in Participants : Update(p))
  /\ \A t \in Threads : SF_vars(Run(t))
  /\ WF_vars(CreateManager)
  /\ SF_vars(Serve)

FairSpec == Spec /\ Fairness

-----------------------------------------------------------------------------
\* Types. A job is under way exactly while the lock is held.
TypeOK ==
  /\ present \in SUBSET Participants
  /\ listed \in [Participants -> SUBSET Tracks]
  /\ bound \in [Tracks -> Nat]
  /\ waiting \in SUBSET Tracks
  /\ media \in SUBSET Tracks
  /\ calls \in Seq(Calls)
  /\ at \in [Threads -> Steps]
  /\ lock \in Threads \cup {"none"}
  /\ job \in [clear : BOOLEAN, enter : SUBSET Participants, remove : SUBSET Participants,
              refresh : SUBSET Participants, news : News]
  /\ live \in BOOLEAN
  /\ socket \in {"closed", "open", "closing"}
  /\ fresh \in BOOLEAN
  /\ sessions \in 0..MaxSessions
  /\ removing \in SUBSET Tracks
  /\ dropped \in SUBSET Tracks

\* No receiver waits in the storage for a track that a participant of the room
\* already lists: whichever of message and receiver comes second finds the
\* other one, with every interleaving of the two threads.
NobodyWaitsInVain == \A s \in Tracks : Listed(s) => s \notin waiting

\* A participant that is not in the room, nor being disposed of, has left no
\* track behind, and one in the room has objects only for tracks it lists, one
\* of each. For receivers named like their tracks.
OneObjectPerTrack ==
  \A s \in Tracks :
    /\ bound[s] <= 1
    /\ bound[s] > 0 => s \in listed[Owner[s]]

Quiet == calls = <<>> /\ lock = "none" /\ \A t \in Threads : at[t] = "idle"

\* When the threads have nothing left to do, a receiver of the peer connection
\* is bound or waits for its message, unless its track or participant has been
\* withdrawn since: no order of messages and media loses one.
NoReceiverIsLost ==
  live /\ Quiet => \A s \in media \ dropped : bound[s] > 0 \/ s \in waiting

\* And nothing is kept of media that is gone.
RemovedMediaIsGone ==
  live /\ Quiet => \A s \in Tracks : bound[s] > 0 \/ s \in waiting => s \in media

\* A track the server lists gets its object once its media has arrived, unless
\* one of the two is withdrawn first.
ListedMediaIsBound ==
  \A s \in Tracks :
    (live /\ s \in media /\ Listed(s) /\ s \notin dropped)
      ~> (bound[s] > 0 \/ ~Listed(s) \/ s \notin media \/ s \in dropped)
=============================================================================
