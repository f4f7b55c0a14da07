---------------------------- MODULE Subscription ----------------------------
(***************************************************************************)
(* What the server sends a client: its offers and the client's answers on  *)
(* the subscriber's transport, candidates, the tracks an offer brings, and *)
(* what the user is told of the state of the connection, until the manager *)
(* is closed by the user's thread or by the events queue.                  *)
(*                                                                         *)
(* The WebSocket thread posts to the signaling thread, the signaling       *)
(* thread runs tasks and callbacks of the peer connections and calls the   *)
(* manager, which posts to the events queue what the engine shall know.    *)
(*                                                                         *)
(* External: the peer connections; the server, which makes the next offer  *)
(* when the last one is answered.                                          *)
(***************************************************************************)
EXTENDS Naturals, Sequences

CONSTANTS
  Media,       \* tracks of other participants
  MaxEvents    \* bound: offers of the server and changes of the peer connections' states

ASSUME SubscriptionAssumption == MaxEvents \in Nat

VARIABLES
  primary,    \* the transport whose state is that of the session
  conn,       \* _pcState of each TransportImpl
  phase,      \* whether a Transport has its impl, and the impl its peer connection
  state,      \* _state of the manager
  reading,    \* reading[t]: the state updateState has read on a thread, or "none"
  inbox,      \* messages of the server on their way
  sig,        \* tasks on the signaling thread
  posted,     \* calls on the events queue
  applied,    \* the offer the peer connection has as remote description, 0 for none
  local,      \* the answer it has as local description, 0 for none
  receivers,  \* tracks it receives
  heard,      \* tracks the engine has handed to the participants
  told,       \* the state the user was told last
  closing,    \* what the thread that closes the manager does next
  closer,     \* that thread: "user", "events", or "none" so far
  gone,       \* the engine has no manager any more
  offered,    \* the server's last offer, and whether it awaits the answer
  replied,    \* the last offer it has got an answer for
  candidate,  \* what became of a candidate of the server: "none", "sent", "added", "failed",
              \* or "dropped" where it does not parse
  dropped,    \* history: the offer that was given up with no more than a line in the log
  late,       \* history: the state was told to change while the manager was being closed
  changes

linkVars == <<conn, phase, state, reading, late, changes>>
peerVars == <<applied, local, receivers, candidate>>
userVars == <<heard, told>>
lifeVars == <<closing, closer, gone>>
serverVars == <<offered, replied, dropped>>
subVars == <<primary, linkVars, inbox, sig, posted, peerVars, userVars, lifeVars, serverVars>>

Targets == {"publisher", "subscriber"}
Links == {"New", "Connected", "Disconnected", "Failed"}
CloseSteps == {"open", "publisher", "publisherSignal", "publisherReset",
          "subscriber", "subscriberSignal", "subscriberReset", "update", "free", "over"}
Signal(x) == IF x = "publisher" THEN "publisherSignal" ELSE "subscriberSignal"
Reset(x) == IF x = "publisher" THEN "publisherReset" ELSE "subscriberReset"

StateOf(x) == IF phase[x] = "open" THEN conn[x] ELSE "Closed"
Open == phase["subscriber"] = "open"

\* The calls of a manager reach nobody once its impl is destroyed.
Lives == closing # "over"

\* TransportImpl has its listener until it is closed.
Notify(x, call) == posted' = IF phase[x] = "closed" THEN posted ELSE Append(posted, call)

----------------------------------------------------------------------------
(* The WebSocket thread: onOffer and onTrickle. What does not parse is     *)
(* only logged.                                                            *)

Receive(op) == inbox # <<>> /\ Head(inbox).op = op /\ inbox' = Tail(inbox)

OnOffer ==
  /\ Receive("offer")
  /\ \/ /\ sig' = IF ~gone /\ Open THEN Append(sig, Head(inbox)) ELSE sig
        /\ UNCHANGED dropped
     \/ dropped' = Head(inbox).n /\ UNCHANGED sig
  /\ UNCHANGED <<primary, linkVars, posted, peerVars, userVars, lifeVars, offered, replied>>

OnTrickle ==
  /\ Receive("candidate")
  /\ \/ /\ sig' = IF ~gone /\ Open THEN Append(sig, Head(inbox)) ELSE sig
        /\ UNCHANGED candidate
     \/ candidate' = "dropped" /\ UNCHANGED sig
  /\ UNCHANGED <<primary, linkVars, posted, applied, local, receivers, userVars, lifeVars, serverVars>>

----------------------------------------------------------------------------
(* The signaling thread: tasks of Transport.                               *)

Task(op) == reading["signaling"] = "none" /\ sig # <<>> /\ Head(sig).op = op

\* peerConnection() is null once the impl is closed.
DropTask ==
  /\ reading["signaling"] = "none" /\ sig # <<>> /\ phase["subscriber"] = "closed"
  /\ sig' = Tail(sig)
  /\ UNCHANGED <<primary, linkVars, inbox, posted, peerVars, userVars, lifeVars, serverVars>>

Runs(op) == Task(op) /\ phase["subscriber"] # "closed"

\* onSdpSetFailure, onSdpCreationFailure: nobody hears of it once the impl is disposed.
Fail ==
  /\ sig' = Tail(sig)
  /\ posted' = IF Open THEN Append(posted, [op |-> "failed"]) ELSE posted

\* Mutant: onSdpSet does not ask for the answer.
MutSetRemoteDescription ==
  /\ Runs("offer")
  /\ applied' = Head(sig).n /\ receivers' = Head(sig).media
  /\ posted' = Append(posted, [op |-> "media", media |-> Head(sig).media])
  /\ sig' = Tail(sig)
  /\ UNCHANGED <<primary, linkVars, inbox, local, candidate, userVars, lifeVars, serverVars>>

\* OnAddTrack and OnRemoveTrack come first, then onSdpSet asks for the answer.
SetRemoteDescription ==
  /\ Runs("offer")
  /\ \/ /\ applied' = Head(sig).n /\ receivers' = Head(sig).media
        /\ Notify("subscriber", [op |-> "media", media |-> Head(sig).media])
        /\ sig' = Tail(sig) \o (IF Open THEN <<[op |-> "createAnswer"]>> ELSE <<>>)
     \/ /\ Fail /\ UNCHANGED <<applied, receivers>>
  /\ UNCHANGED <<primary, linkVars, inbox, local, candidate, userVars, lifeVars, serverVars>>

\* The answer is made later; onSdpCreated posts that it is to be set.
CreateAnswer ==
  /\ Runs("createAnswer")
  /\ \/ /\ sig' = Tail(sig) \o (IF Open THEN <<[op |-> "setLocal", n |-> applied]>> ELSE <<>>)
        /\ UNCHANGED posted
     \/ Fail
  /\ UNCHANGED <<primary, linkVars, inbox, peerVars, userVars, lifeVars, serverVars>>

\* onSdpSet hands the answer to the engine, unless it cannot be written as a string,
\* which is only logged; after it candidates are gathered.
SetLocalDescription ==
  /\ Runs("setLocal")
  /\ \/ /\ local' = Head(sig).n
        /\ sig' = Tail(sig)
        /\ posted' = IF Open THEN Append(posted, [op |-> "answer", n |-> Head(sig).n]) ELSE posted
        /\ UNCHANGED dropped
     \/ /\ local' = Head(sig).n
        /\ sig' = Tail(sig)
        /\ dropped' = Head(sig).n /\ UNCHANGED posted
     \/ /\ Fail /\ UNCHANGED <<local, dropped>>
  /\ UNCHANGED <<primary, linkVars, inbox, applied, receivers, candidate, userVars, lifeVars, offered, replied>>

\* AddIceCandidate fails without a remote description, which is only logged.
AddIceCandidate ==
  /\ Runs("candidate")
  /\ sig' = Tail(sig)
  /\ candidate' = IF applied = 0 THEN "failed" ELSE "added"
  /\ UNCHANGED <<primary, linkVars, inbox, posted, applied, local, receivers, userVars, lifeVars, serverVars>>

----------------------------------------------------------------------------
(* updateState, on the signaling thread and on the one that closes.        *)

\* OnConnectionChange: only the primary transport's state is looked at.
PeerChanges(x, s) ==
  /\ changes + offered < MaxEvents /\ changes' = changes + 1
  /\ reading["signaling"] = "none" /\ phase[x] # "closed"
  /\ s # conn[x] /\ conn' = [conn EXCEPT ![x] = s]
  /\ reading' = [reading EXCEPT !["signaling"] =
       IF x # primary THEN "none" ELSE IF phase[x] = "open" THEN s ELSE "Closed"]
  /\ UNCHANGED <<primary, phase, state, late, inbox, sig, posted, peerVars, userVars, lifeVars, serverVars>>

\* onStateChange is told the states of both transports too.
Failing(s) == "Failed" \in {s, StateOf("publisher"), StateOf("subscriber")}
StateCall(s) ==
  [op |-> "state", state |-> s, failed |-> Failing(s), empty |-> StateOf("subscriber") = "Closed"]

\* The engine's onStateChange: New is not told.
Tell(c) ==
  /\ told' = IF c.failed \/ c.state = "New" THEN told ELSE c.state
  /\ heard' = IF c.empty \/ c.failed THEN {} ELSE heard

\* A thread that is the events queue itself calls the engine at once.
ExchangeState(t) ==
  /\ reading[t] # "none"
  /\ state' = reading[t] /\ reading' = [reading EXCEPT ![t] = "none"]
  /\ IF state = reading[t] THEN UNCHANGED <<posted, userVars>>
     ELSE IF t = "closer" /\ closer = "events"
       THEN Tell(StateCall(reading[t])) /\ UNCHANGED posted
       ELSE posted' = Append(posted, StateCall(reading[t])) /\ UNCHANGED userVars
  /\ late' = (late \/ (t = "signaling" /\ gone))
  /\ UNCHANGED <<primary, conn, phase, changes, inbox, sig, peerVars, lifeVars, serverVars>>

----------------------------------------------------------------------------
(* Closing: disconnect() of the engine and close() of the manager.         *)

Begin(t) == closer' = t /\ gone' = TRUE /\ closing' = "publisher"

Disconnect ==
  /\ ~gone /\ Begin("user")
  /\ posted' = Append(posted, [op |-> "disconnected"])
  /\ UNCHANGED <<primary, linkVars, inbox, sig, peerVars, userVars, serverVars>>

CloserIsFree == reading["closer"] = "none"

Dispose(x) ==
  /\ closing = x
  /\ phase' = [phase EXCEPT ![x] = "disposed"]
  /\ closing' = Signal(x)
  /\ UNCHANGED <<primary, conn, state, reading, late, changes, inbox, sig, posted, peerVars, userVars, closer, gone, serverVars>>

\* OnSignalingChange(kClosed), which the impl forces.
ForceSignaling(x) ==
  /\ closing = Signal(x)
  /\ reading' = [reading EXCEPT !["closer"] = IF x = primary THEN "Closed" ELSE "none"]
  /\ closing' = Reset(x)
  /\ UNCHANGED <<primary, conn, phase, state, late, changes, inbox, sig, posted, peerVars, userVars, closer, gone, serverVars>>

\* Mutant: the listener is taken away while it is being called.
MutResetListener(x, next) ==
  /\ closing = Reset(x) /\ CloserIsFree
  /\ phase' = [phase EXCEPT ![x] = "closed"]
  /\ closing' = next
  /\ UNCHANGED <<primary, conn, state, reading, late, changes, inbox, sig, posted, peerVars, userVars, closer, gone, serverVars>>

\* The reset of the listener waits for a call of the signaling thread that is in it.
ResetListener(x, next) ==
  /\ closing = Reset(x) /\ CloserIsFree
  /\ x = primary => reading["signaling"] = "none"
  /\ phase' = [phase EXCEPT ![x] = "closed"]
  /\ closing' = next
  /\ UNCHANGED <<primary, conn, state, reading, late, changes, inbox, sig, posted, peerVars, userVars, closer, gone, serverVars>>

UpdateAtEnd ==
  /\ closing = "update"
  /\ reading' = [reading EXCEPT !["closer"] = StateOf(primary)]
  /\ closing' = "free"
  /\ UNCHANGED <<primary, conn, phase, state, late, changes, inbox, sig, posted, peerVars, userVars, closer, gone, serverVars>>

\* The last owner of the impl lets it go.
Destroy ==
  /\ closing = "free" /\ CloserIsFree
  /\ closing' = "over"
  /\ UNCHANGED <<primary, linkVars, inbox, sig, posted, peerVars, userVars, closer, gone, serverVars>>

----------------------------------------------------------------------------
(* The events queue. It runs nothing else while it closes the manager.     *)

Deliver(op) ==
  /\ closer = "events" => ~Lives
  /\ posted # <<>> /\ Head(posted).op = op
  /\ posted' = Tail(posted)

\* onSubscriberAnswer: sendRequestToServer sends nothing of a closed session; an answer
\* that the transport does not take is only logged.
OnSubscriberAnswer ==
  /\ Deliver("answer")
  /\ IF Lives /\ ~gone /\ state # "Closed"
     THEN \/ replied' = Head(posted).n /\ UNCHANGED dropped
          \/ dropped' = Head(posted).n /\ UNCHANGED replied
     ELSE UNCHANGED <<replied, dropped>>
  /\ UNCHANGED <<primary, linkVars, inbox, sig, peerVars, userVars, lifeVars, offered>>

OnMedia ==
  /\ Deliver("media")
  /\ heard' = IF Lives THEN Head(posted).media ELSE heard
  /\ UNCHANGED <<primary, linkVars, inbox, sig, peerVars, told, lifeVars, serverVars>>

\* cleanup(): the room is emptied, then whoever takes the manager closes it.
Cleanup ==
  /\ heard' = {}
  /\ IF gone THEN UNCHANGED lifeVars /\ posted' = Tail(posted)
             ELSE Begin("events") /\ posted' = Append(Tail(posted), [op |-> "disconnected"])

OnSdpOperationFailed ==
  /\ closer = "events" => ~Lives
  /\ posted # <<>> /\ Head(posted).op = "failed"
  /\ IF Lives THEN Cleanup ELSE posted' = Tail(posted) /\ UNCHANGED <<heard, lifeVars>>
  /\ UNCHANGED <<primary, linkVars, inbox, sig, peerVars, told, serverVars>>

OnStateChange ==
  /\ closer = "events" => ~Lives
  /\ posted # <<>> /\ Head(posted).op = "state"
  /\ IF Lives /\ Head(posted).failed THEN Cleanup /\ UNCHANGED told
     ELSE /\ posted' = Tail(posted) /\ UNCHANGED lifeVars
          /\ IF Lives THEN Tell(Head(posted)) ELSE UNCHANGED userVars
  /\ UNCHANGED <<primary, linkVars, inbox, sig, peerVars, serverVars>>

\* The socket is closed; the call comes from the signaling client, not from the manager.
OnTransportDisconnected ==
  /\ Deliver("disconnected")
  /\ heard' = {} /\ told' = "TransportDisconnected"
  /\ UNCHANGED <<primary, linkVars, inbox, sig, peerVars, lifeVars, serverVars>>

----------------------------------------------------------------------------
(* The server (external).                                                  *)

ServerOffers(media) ==
  /\ ~gone /\ replied = offered /\ changes + offered < MaxEvents
  /\ offered' = offered + 1
  /\ inbox' = Append(inbox, [op |-> "offer", n |-> offered + 1, media |-> media])
  /\ UNCHANGED <<primary, linkVars, sig, posted, peerVars, userVars, lifeVars, replied, dropped>>

ServerTrickles ==
  /\ ~gone /\ offered > 0 /\ candidate = "none"
  /\ candidate' = "sent"
  /\ inbox' = Append(inbox, [op |-> "candidate"])
  /\ UNCHANGED <<primary, linkVars, sig, posted, applied, local, receivers, userVars, lifeVars, serverVars>>

----------------------------------------------------------------------------
SubInit ==
  /\ primary \in Targets
  /\ conn = [x \in Targets |-> "New"] /\ phase = [x \in Targets |-> "open"]
  /\ state = "New" /\ reading = [t \in {"signaling", "closer"} |-> "none"]
  /\ inbox = <<>> /\ sig = <<>> /\ posted = <<>>
  /\ applied = 0 /\ local = 0 /\ receivers = {} /\ heard = {}
  /\ told = "TransportConnected"
  /\ closing = "open" /\ closer = "none" /\ gone = FALSE
  /\ offered = 0 /\ replied = 0 /\ dropped = 0 /\ candidate = "none" /\ late = FALSE /\ changes = 0

Signaling ==
  \/ DropTask
  \/ SetRemoteDescription
  \/ CreateAnswer
  \/ SetLocalDescription
  \/ AddIceCandidate
  \/ ExchangeState("signaling")
  \/ \E x \in Targets, s \in Links \ {"New"} : PeerChanges(x, s)

Closer ==
  \/ \E x \in Targets : Dispose(x) \/ ForceSignaling(x)
  \/ ResetListener("publisher", "subscriber")
  \/ ResetListener("subscriber", "update")
  \/ UpdateAtEnd
  \/ ExchangeState("closer")
  \/ Destroy

Events ==
  \/ OnSubscriberAnswer
  \/ OnMedia
  \/ OnSdpOperationFailed
  \/ OnStateChange
  \/ OnTransportDisconnected

Server == ServerTrickles \/ \E media \in SUBSET Media : ServerOffers(media)

SubNext == OnOffer \/ OnTrickle \/ Signaling \/ Closer \/ Events \/ Disconnect \/ Server

SubSpec == SubInit /\ [][SubNext]_subVars

----------------------------------------------------------------------------
CallType == [op: {"failed", "disconnected"}] \cup [op: {"answer"}, n: Nat] \cup
  [op: {"media"}, media: SUBSET Media] \cup
  [op: {"state"}, state: Links \cup {"Closed"}, failed: BOOLEAN, empty: BOOLEAN]
TaskType == [op: {"candidate", "createAnswer"}] \cup [op: {"setLocal"}, n: Nat] \cup
  [op: {"offer"}, n: Nat, media: SUBSET Media]

\* Types of the variables.
SubTypeOK ==
  /\ primary \in Targets
  /\ conn \in [Targets -> Links] /\ phase \in [Targets -> {"open", "disposed", "closed"}]
  /\ state \in Links \cup {"Closed"}
  /\ reading \in [{"signaling", "closer"} -> Links \cup {"Closed", "none"}]
  /\ inbox \in Seq(TaskType) /\ sig \in Seq(TaskType) /\ posted \in Seq(CallType)
  /\ applied \in Nat /\ local \in Nat /\ receivers \subseteq Media /\ heard \subseteq Media
  /\ told \in Links \cup {"Closed", "TransportConnected", "TransportDisconnected"}
  /\ closing \in CloseSteps /\ closer \in {"none", "user", "events"} /\ gone \in BOOLEAN
  /\ offered \in Nat /\ replied \in Nat /\ dropped \in Nat
  /\ candidate \in {"none", "sent", "added", "failed", "dropped"}
  /\ late \in BOOLEAN /\ changes \in Nat

Carries(s, op) == \E i \in DOMAIN s : s[i].op = op

\* An offer the server awaits an answer to is on its way through the client, or the session is
\* ending: no order of the steps between the socket and the socket loses it. The exception is
\* where the code only logs (dropped): an offer that does not parse, an answer that cannot be
\* written or does not leave. Then the session goes on, the server waits for good and no later
\* offer comes. What is answered is the last offer, and no candidate fails for want of one.
OfferIsAnswered ==
  /\ offered # replied /\ ~gone /\ dropped # offered =>
       \/ Carries(inbox, "offer") \/ Carries(sig, "offer") \/ Carries(sig, "createAnswer")
       \/ Carries(sig, "setLocal") \/ Carries(posted, "answer") \/ Carries(posted, "failed")
  /\ replied <= offered /\ local <= applied /\ offered <= replied + 1
  /\ dropped # 0 => dropped = offered /\ replied # offered
  /\ candidate = "failed" => gone \/ dropped # 0 \/ Carries(posted, "failed")

AtRest == posted = <<>> /\ sig = <<>> /\ reading = [t \in {"signaling", "closer"} |-> "none"]

\* When all is quiet the user was told the state the primary transport is in, a failed one has
\* ended the session and the participants have what the peer connection receives; when the
\* manager is closed it says so for good; unless a last change of the peer connection came between
\* (late), the user knows that the session is over.
StateIsTold ==
  /\ AtRest /\ ~gone =>
       /\ state = conn[primary] /\ state # "Failed"
       /\ told = (IF state = "New" THEN "TransportConnected" ELSE state)
       /\ heard = receivers
  /\ ~Lives => state = "Closed"
  /\ AtRest /\ ~Lives /\ ~late => told \in {"Closed", "TransportDisconnected"}
=============================================================================
