----------------------------- MODULE Negotiation -----------------------------
(***************************************************************************)
(* Publisher-side SDP negotiation of TransportManagerImpl: the debounce    *)
(* timer, the gate that holds an offer back until both embedded data       *)
(* channels exist, and the offer/answer exchange of the publisher's        *)
(* Transport with the server.                                              *)
(*                                                                         *)
(* Four threads run this code and share its atomics:                       *)
(*   "app"        the user's thread (add/remove a device, disconnect);     *)
(*   "ws"         the WebSocket thread (join, answers, leave);             *)
(*   "signaling"  the WebRTC signaling thread, a FIFO of posted tasks;     *)
(*   "events"     the events queue: delayed shots of the debounce timer    *)
(*                and, in FIFO order, the calls of AsyncListener.          *)
(* The peer connection and the server are external.                        *)
(***************************************************************************)
EXTENDS Naturals, Sequences

CONSTANTS
  Tracks,        \* local devices the user may publish, each added once at most
  Delayed,       \* TRUE iff _negotiationDelay # 0
  CanNegotiate,  \* !_subscriberPrimary || _fastPublish
  Failures       \* which external operations may fail

ASSUME NegotiationAssumption ==
  /\ Delayed \in BOOLEAN
  /\ CanNegotiate \in BOOLEAN
  /\ Failures \subseteq {"dataChannel", "track", "removeTrack", "createOffer", "setLocal",
                      "serialize", "send", "parse", "connection"}

VARIABLES
  sig,         \* tasks posted to the signaling thread
  events,      \* TransportManagerListener calls posted to the events queue
  at,          \* where each thread is in the code, "idle" between calls
  armed,       \* _negotiationTimerId is in the timer's _singleShotIds
  shots,       \* delayed createPublisherOffer tasks of the timer not yet run
  dcCount,     \* _embeddedDCCount
  pending,     \* _pendingNegotiation
  closed,      \* the publisher's impl is disposed, its peer connection closed
  gone,        \* RTCEngineImpl::_pcManager has been exchanged for null
  track,       \* what was asked for each device: "new", "published", "unpublished"
  senders,     \* tracks the peer connection sends
  lines,       \* m-sections the next offer has, one per transceiver and one for data
  data,        \* data channels the peer connection has created
  local,       \* m-sections of the pending local offer, 0 when stable
  unanswered,  \* m-sections of the offers the server has not answered yet
  covered,     \* history: what the last created offer sends
  cut          \* history: a lost connection cancelled the debounce, and no
               \* negotiation was asked for since

vars == <<sig, events, at, armed, shots, dcCount, pending, closed, gone,
          track, senders, lines, data, local, unanswered, covered, cut>>

timerVars == <<armed, shots, cut>>
gateVars  == <<dcCount, pending>>
lifeVars  == <<closed, gone>>
peerVars  == <<senders, lines, data, local, covered>>

Threads == {"app", "ws", "signaling", "events"}

Steps == {"idle", "setup", "negotiate", "arm", "check", "offer", "postpone",
          "dcCreated", "dcCounted", "closing", "dispose", "reset"}

EmbeddedDCMaxCount == 2

Tasks ==
       [op : {"createDataChannel", "createOffer"}]
  \cup [op : {"addTransceiver", "removeTrack"}, track : Tracks]
  \cup [op : {"setLocal", "setRemote"}, lines : Nat]

Calls == [op : {"offer"}, lines : Nat] \cup [op : {"failed"}]

(***************************************************************************)
(* Helpers.                                                                *)
(***************************************************************************)
Go(t, step) == at' = [at EXCEPT ![t] = step]

Post(task) == sig' = Append(sig, task)

Notify(call) == events' = Append(events, call)

\* Transport's entry points post nothing once the impl is disposed.
PostToPublisher(task) == IF closed THEN UNCHANGED sig ELSE Post(task)

MayFail(what) == what \in Failures

(***************************************************************************)
(* negotiate() and createPublisherOffer(), whichever thread calls them.    *)
(***************************************************************************)
\* negotiate: the armed shot is cancelled before a new one is posted; without
\* a delay the offer is created in place.
Negotiate(t) ==
  /\ at[t] = "negotiate"
  /\ IF Delayed
       THEN /\ armed' = FALSE
            /\ Go(t, "arm")
       ELSE /\ Go(t, "check")
            /\ UNCHANGED armed
  /\ cut' = FALSE
  /\ UNCHANGED <<sig, events, shots, gateVars, lifeVars, track, peerVars, unanswered>>

\* MediaTimerImpl::singleShot: the id enters the set, a delayed task is posted.
Arm(t) ==
  /\ at[t] = "arm"
  /\ armed' = TRUE
  /\ shots' = shots + 1
  /\ Go(t, "idle")
  /\ UNCHANGED <<sig, events, cut, gateVars, lifeVars, track, peerVars, unanswered>>

\* Mutant: the task looks the id up and leaves it in the set.
MutRunShot ==
  /\ at["events"] = "idle"
  /\ shots > 0
  /\ shots' = shots - 1
  /\ IF armed THEN Go("events", "check") ELSE UNCHANGED at
  /\ UNCHANGED <<sig, events, armed, cut, gateVars, lifeVars, track, peerVars, unanswered>>

\* A delayed task of the timer runs: it creates the offer only if the id is
\* still in the set, which it leaves. The id may be that of a later arming.
RunShot ==
  /\ at["events"] = "idle"
  /\ shots > 0
  /\ shots' = shots - 1
  /\ armed' = FALSE
  /\ IF armed THEN Go("events", "check") ELSE UNCHANGED at
  /\ UNCHANGED <<sig, events, cut, gateVars, lifeVars, track, peerVars, unanswered>>

LocalDataChannelsAreCreated == dcCount = EmbeddedDCMaxCount

\* Mutant: an offer is never postponed.
MutGate == "offer"

\* What createPublisherOffer does next once it has read _embeddedDCCount.
Gate == IF LocalDataChannelsAreCreated THEN "offer" ELSE "postpone"

\* createPublisherOffer reads the validity of the publisher and the count...
Check(t) ==
  /\ at[t] = "check"
  /\ Go(t, IF closed THEN "idle" ELSE Gate)
  /\ UNCHANGED <<sig, events, timerVars, gateVars, lifeVars, track, peerVars, unanswered>>

\* Mutant: an offer that has to wait is not remembered.
MutPostpone(t) ==
  /\ at[t] = "postpone"
  /\ Go(t, "idle")
  /\ UNCHANGED <<sig, events, timerVars, gateVars, lifeVars, track, peerVars, unanswered>>

\* ... and acts on what it read, which another thread may have changed since.
Postpone(t) ==
  /\ at[t] = "postpone"
  /\ pending' = TRUE
  /\ Go(t, "idle")
  /\ UNCHANGED <<sig, events, timerVars, dcCount, lifeVars, track, peerVars, unanswered>>

Offer(t) ==
  /\ at[t] = "offer"
  /\ pending' = FALSE
  /\ PostToPublisher([op |-> "createOffer"])
  /\ Go(t, "idle")
  /\ UNCHANGED <<events, timerVars, dcCount, lifeVars, track, peerVars, unanswered>>

(***************************************************************************)
(* The signaling thread: tasks of Transport, and the callbacks the peer    *)
(* connection makes from them. A task finds no peer connection once the    *)
(* publisher is closed.                                                    *)
(***************************************************************************)
Begin(op) ==
  /\ at["signaling"] = "idle"
  /\ sig # <<>>
  /\ Head(sig).op = op
  /\ ~closed

DropTask ==
  /\ at["signaling"] = "idle"
  /\ sig # <<>>
  /\ closed
  /\ sig' = Tail(sig)
  /\ UNCHANGED <<events, at, timerVars, gateVars, lifeVars, track, peerVars, unanswered>>

CreateDataChannel ==
  /\ Begin("createDataChannel")
  /\ sig' = Tail(sig)
  /\ \/ /\ data' = data + 1
        /\ lines' = IF data = 0 THEN lines + 1 ELSE lines
        /\ Go("signaling", "dcCreated")
     \/ /\ MayFail("dataChannel")
        /\ UNCHANGED <<data, lines, at>>
  /\ UNCHANGED <<events, timerVars, gateVars, lifeVars, track, senders, local,
                 covered, unanswered>>

\* Mutant: every channel is counted twice.
MutCountDataChannel ==
  /\ at["signaling"] = "dcCreated"
  /\ dcCount' = dcCount + 2
  /\ Go("signaling", "dcCounted")
  /\ UNCHANGED <<sig, events, timerVars, pending, lifeVars, track, peerVars, unanswered>>

\* onLocalDataChannelCreated: count first, then look for a postponed offer.
CountDataChannel ==
  /\ at["signaling"] = "dcCreated"
  /\ dcCount' = dcCount + 1
  /\ Go("signaling", "dcCounted")
  /\ UNCHANGED <<sig, events, timerVars, pending, lifeVars, track, peerVars, unanswered>>

\* Mutant: the last channel does not look for a postponed offer.
MutSkipPostponed ==
  /\ at["signaling"] = "dcCounted"
  /\ Go("signaling", "idle")
  /\ UNCHANGED <<sig, events, timerVars, gateVars, lifeVars, track, peerVars, unanswered>>

TakePostponed ==
  /\ at["signaling"] = "dcCounted"
  /\ IF LocalDataChannelsAreCreated /\ pending
       THEN /\ pending' = FALSE
            /\ Go("signaling", "check")
       ELSE /\ Go("signaling", "idle")
            /\ UNCHANGED pending
  /\ UNCHANGED <<sig, events, timerVars, dcCount, lifeVars, track, peerVars, unanswered>>

\* addTransceiver's task, then onLocalAudioTrackAdded / onLocalVideoTrackAdded.
AddTransceiver ==
  /\ Begin("addTransceiver")
  /\ sig' = Tail(sig)
  /\ \/ /\ senders' = senders \cup {Head(sig).track}
        /\ lines' = lines + 1
        /\ Go("signaling", "negotiate")
     \/ /\ MayFail("track")
        /\ UNCHANGED <<senders, lines, at>>
  /\ UNCHANGED <<events, timerVars, gateVars, lifeVars, track, data, local,
                 covered, unanswered>>

\* removeTrack's task, removeTrackBySender and onLocalTrackRemoved: the
\* m-section of a removed track stays in later offers. A sender that could not
\* be removed stays, which is only logged.
RemoveSender ==
  /\ Begin("removeTrack")
  /\ sig' = Tail(sig)
  /\ \/ /\ Head(sig).track \in senders
        /\ senders' = senders \ {Head(sig).track}
        /\ Go("signaling", "negotiate")
     \/ /\ Head(sig).track \notin senders \/ MayFail("removeTrack")
        /\ UNCHANGED <<senders, at>>
  /\ UNCHANGED <<events, timerVars, gateVars, lifeVars, track, lines, data, local,
                 covered, unanswered>>

\* CreateOffer takes what the peer connection holds now; onSdpCreated posts
\* setLocalDescription. A failure is reported to the engine.
CreateOffer ==
  /\ Begin("createOffer")
  /\ \/ /\ covered' = senders
        /\ sig' = Append(Tail(sig), [op |-> "setLocal", lines |-> lines])
        /\ UNCHANGED events
     \/ /\ MayFail("createOffer")
        /\ sig' = Tail(sig)
        /\ Notify([op |-> "failed"])
        /\ UNCHANGED covered
  /\ UNCHANGED <<at, timerVars, gateVars, lifeVars, track, senders, lines, data,
                 local, unanswered>>

\* setLocalDescription's task; onSdpSet hands the local offer to the engine,
\* unless it cannot write it as a string: nobody is told of that.
SetLocalOffer ==
  /\ Begin("setLocal")
  /\ sig' = Tail(sig)
  /\ \/ /\ local' = Head(sig).lines
        /\ \/ Notify([op |-> "offer", lines |-> Head(sig).lines])
           \/ MayFail("serialize") /\ UNCHANGED events
     \/ /\ MayFail("setLocal")
        /\ Notify([op |-> "failed"])
        /\ UNCHANGED local
  /\ UNCHANGED <<at, timerVars, gateVars, lifeVars, track, senders, lines, data,
                 covered, unanswered>>

\* setRemoteDescription's task: a peer connection takes an answer only while
\* an offer is pending, and only with the m-sections of that offer.
SetRemoteAnswer ==
  /\ Begin("setRemote")
  /\ sig' = Tail(sig)
  /\ IF local # 0 /\ Head(sig).lines = local
       THEN /\ local' = 0
            /\ UNCHANGED events
       ELSE /\ Notify([op |-> "failed"])
            /\ UNCHANGED local
  /\ UNCHANGED <<at, timerVars, gateVars, lifeVars, track, senders, lines, data,
                 covered, unanswered>>

(***************************************************************************)
(* The engine's side of the listener calls, on the events queue.           *)
(***************************************************************************)
Deliver(op) ==
  /\ at["events"] = "idle"
  /\ events # <<>>
  /\ Head(events).op = op
  /\ events' = Tail(events)

\* onPublisherOffer: sent unless the engine has no transport manager any more;
\* a request that does not leave is only logged.
SendOffer ==
  /\ Deliver("offer")
  /\ \/ ~gone /\ unanswered' = Append(unanswered, Head(events).lines)
     \/ (gone \/ MayFail("send")) /\ UNCHANGED unanswered
  /\ UNCHANGED <<sig, at, timerVars, gateVars, lifeVars, track, peerVars>>

\* onSdpOperationFailed: leave, then cleanup(), which closes the manager.
FailSession ==
  /\ Deliver("failed")
  /\ gone' = TRUE
  /\ IF gone THEN UNCHANGED at ELSE Go("events", "closing")
  /\ UNCHANGED <<sig, timerVars, gateVars, closed, track, peerVars, unanswered>>

(***************************************************************************)
(* The server answers every offer it received, in order (external). What   *)
(* onAnswer cannot parse is only logged.                                   *)
(***************************************************************************)
ServerAnswer ==
  /\ at["ws"] = "idle"
  /\ unanswered # <<>>
  /\ unanswered' = Tail(unanswered)
  /\ \/ ~gone /\ PostToPublisher([op |-> "setRemote", lines |-> Head(unanswered)])
     \/ (gone \/ MayFail("parse")) /\ UNCHANGED sig
  /\ UNCHANGED <<events, at, timerVars, gateVars, lifeVars, track, peerVars>>

(***************************************************************************)
(* The user's calls and the end of createTransportManager().               *)
(***************************************************************************)
StartNegotiation ==
  /\ at["ws"] = "setup"
  /\ Go("ws", IF CanNegotiate THEN "negotiate" ELSE "idle")
  /\ UNCHANGED <<sig, events, timerVars, gateVars, lifeVars, track, peerVars, unanswered>>

Publish(t) ==
  /\ at["app"] = "idle"
  /\ ~gone
  /\ track[t] = "new"
  /\ track' = [track EXCEPT ![t] = "published"]
  /\ PostToPublisher([op |-> "addTransceiver", track |-> t])
  /\ UNCHANGED <<events, at, timerVars, gateVars, lifeVars, peerVars, unanswered>>

Unpublish(t) ==
  /\ at["app"] = "idle"
  /\ ~gone
  /\ track[t] = "published"
  /\ track' = [track EXCEPT ![t] = "unpublished"]
  /\ PostToPublisher([op |-> "removeTrack", track |-> t])
  /\ UNCHANGED <<events, at, timerVars, gateVars, lifeVars, peerVars, unanswered>>

\* disconnect() by the user or, on a leave of the server, by the WebSocket
\* thread: one thread wins the exchange of _pcManager and closes it.
Disconnect(t) ==
  /\ t \in {"app", "ws"}
  /\ at[t] = "idle"
  /\ ~gone
  /\ gone' = TRUE
  /\ Go(t, "closing")
  /\ UNCHANGED <<sig, events, timerVars, gateVars, closed, track, peerVars, unanswered>>

(***************************************************************************)
(* close(): cancel the timer, close the peer connections, update the state.*)
(***************************************************************************)
CancelTimer(t) ==
  /\ at[t] = "closing"
  /\ armed' = FALSE
  /\ Go(t, "dispose")
  /\ UNCHANGED <<sig, events, shots, cut, gateVars, lifeVars, track, peerVars, unanswered>>

Dispose(t) ==
  /\ at[t] = "dispose"
  /\ closed' = TRUE
  /\ Go(t, "reset")
  /\ UNCHANGED <<sig, events, timerVars, gateVars, gone, track, peerVars, unanswered>>

\* updateState() finds the primary transport closed.
ResetGate(t) ==
  /\ at[t] = "reset"
  /\ dcCount' = 0
  /\ armed' = FALSE
  /\ Go(t, "idle")
  /\ UNCHANGED <<sig, events, shots, cut, pending, lifeVars, track, peerVars, unanswered>>

(***************************************************************************)
(* updateState() as a callback of the primary transport that has lost its  *)
(* connection (kDisconnected): the debounce is cancelled, although the     *)
(* session goes on. The subscriber, if it is the primary one, is closed    *)
(* after the publisher.                                                    *)
(***************************************************************************)
LoseConnection ==
  /\ MayFail("connection")
  /\ at["signaling"] = "idle"
  /\ ~closed \/ \E t \in Threads : at[t] = "reset"
  /\ armed' = FALSE
  /\ cut' = (cut \/ armed)
  /\ UNCHANGED <<sig, events, at, shots, gateVars, lifeVars, track, peerVars, unanswered>>

(***************************************************************************)
(* Specification.                                                          *)
(***************************************************************************)

\* setListener() has posted the creation of both data channels.
Init ==
  /\ sig = << [op |-> "createDataChannel"], [op |-> "createDataChannel"] >>
  /\ events = <<>>
  /\ at = [t \in Threads |-> IF t = "ws" THEN "setup" ELSE "idle"]
  /\ armed = FALSE
  /\ shots = 0
  /\ dcCount = 0
  /\ pending = FALSE
  /\ closed = FALSE
  /\ gone = FALSE
  /\ track = [t \in Tracks |-> "new"]
  /\ senders = {}
  /\ lines = 0
  /\ data = 0
  /\ local = 0
  /\ unanswered = <<>>
  /\ covered = {}
  /\ cut = FALSE

NegotiateStep(t) ==
  Negotiate(t) \/ Arm(t) \/ Check(t) \/ Postpone(t) \/ Offer(t)

CloseStep(t) == CancelTimer(t) \/ Dispose(t) \/ ResetGate(t)

SignalingTask ==
  \/ DropTask
  \/ CreateDataChannel \/ CountDataChannel \/ TakePostponed
  \/ AddTransceiver \/ RemoveSender
  \/ CreateOffer \/ SetLocalOffer \/ SetRemoteAnswer

EventsCall == SendOffer \/ FailSession

UserCall ==
  \/ \E t \in Tracks : Publish(t) \/ Unpublish(t)
  \/ \E t \in Threads : Disconnect(t)

Next ==
  \/ \E t \in Threads : NegotiateStep(t) \/ CloseStep(t)
  \/ SignalingTask
  \/ RunShot
  \/ LoseConnection
  \/ EventsCall
  \/ StartNegotiation
  \/ ServerAnswer
  \/ UserCall

\* Every thread keeps running its code and its queue. The user and the server
\* are under no obligation.
Fairness ==
  /\ \A t \in Threads : WF_vars(NegotiateStep(t)) /\ WF_vars(CloseStep(t))
  /\ WF_vars(SignalingTask)
  /\ WF_vars(RunShot)
  /\ WF_vars(EventsCall)
  /\ WF_vars(StartNegotiation)

Spec == Init /\ [][Next]_vars

FairSpec == Spec /\ Fairness

(***************************************************************************)
(* Properties.                                                             *)
(***************************************************************************)
TypeOK ==
  /\ sig \in Seq(Tasks)
  /\ events \in Seq(Calls)
  /\ at \in [Threads -> Steps]
  /\ armed \in BOOLEAN
  /\ shots \in Nat
  /\ dcCount \in 0..EmbeddedDCMaxCount
  /\ pending \in BOOLEAN
  /\ closed \in BOOLEAN
  /\ gone \in BOOLEAN
  /\ track \in [Tracks -> {"new", "published", "unpublished"}]
  /\ senders \subseteq Tracks
  /\ lines \in Nat
  /\ data \in 0..EmbeddedDCMaxCount
  /\ local \in Nat
  /\ unanswered \in Seq(Nat)
  /\ covered \subseteq Tracks
  /\ cut \in BOOLEAN

SigHas(op) == \E i \in 1..Len(sig) : sig[i].op = op

\* Somebody is going to create an offer, or has told the engine it failed, or
\* the session is over.
NegotiationUnderWay ==
  \/ armed
  \/ pending
  \/ gone
  \/ \E t \in Threads : at[t] \in {"negotiate", "arm", "check", "offer", "postpone"}
  \/ SigHas("createOffer")
  \/ \E i \in 1..Len(events) : events[i].op = "failed"

\* A cancelled, re-armed or early-fired debounce never loses a change: as long
\* as the peer connection sends other tracks than the last offer describes, a
\* negotiation is under way on some thread (negotiate, singleShot,
\* createPublisherOffer, onLocalDataChannelCreated). The one exception is
\* updateState: a connection lost for a while cancels the debounce for good, and
\* the change waits for the next one to ask for a negotiation.
NoLostUpdate == senders # covered => NegotiationUnderWay \/ cut

\* While the debounce is armed a delayed task is there to fire it, whatever
\* the order of cancelSingleShot, singleShot and the tasks left by earlier ones.
ArmedHasShot == armed => shots > 0

\* No offer is requested before the peer connection has both data channels, so
\* every offer carries the data section, although the count that guards it is
\* read on other threads than the one that writes it.
OfferNeedsChannels ==
  SigHas("createOffer") \/ SigHas("setLocal") => data = EmbeddedDCMaxCount

\* A track added or removed once the channels exist is eventually described by
\* an offer, unless the session ends first or a lost connection cancels the
\* debounce before it fires.
LateChangeIsOffered ==
  \A t \in Tracks :
    /\ (at["signaling"] = "negotiate" /\ t \in senders
          /\ LocalDataChannelsAreCreated)
         ~> (t \in covered \/ t \notin senders \/ gone \/ cut)
    /\ (at["signaling"] = "negotiate" /\ t \in covered \ senders
          /\ LocalDataChannelsAreCreated)
         ~> (t \notin covered \/ gone \/ cut)

\* An offer postponed before the channels exist is taken up once they do.
PostponedIsOffered ==
  (pending /\ dcCount < EmbeddedDCMaxCount) ~> (~pending \/ gone)

\* Together: while the session and its connection last, what is asked for is offered in the
\* end, whether it is asked for before the channels exist or after.
ChangesAreOffered == LateChangeIsOffered /\ PostponedIsOffered

\* createPublisherOffer says of a postponed offer "wait until DC are not
\* created, and make offer ASAP in [onDataChannel] handler": once the channels
\* exist and nobody is in that code, no offer is left postponed.
NoStrandedOffer ==
  pending /\ LocalDataChannelsAreCreated =>
    \/ gone
    \/ at["signaling"] \in {"dcCreated", "dcCounted"}
    \/ \E t \in Threads : at[t] \in {"check", "offer"}
=============================================================================
