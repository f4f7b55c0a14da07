------------------------------ MODULE Session ------------------------------
(***************************************************************************)
(* The life of a connection: RTCEngineImpl over SignalClientWs. The user   *)
(* connects and disconnects, the WebSocket thread handles the reports of   *)
(* the socket and the messages of the server, and the events queue cleans  *)
(* up when the connection is lost or fails. All three may be in            *)
(* disconnect() at once, and none of them holds a lock across it.          *)
(*                                                                         *)
(* The transport state has two writers, connect() and the reports. It      *)
(* changes under a lock; the listener is told afterwards, without it.      *)
(*                                                                         *)
(* External: the socket's end point and the server. The end point reports  *)
(* its changes on the WebSocket thread, or it reports the end of close()   *)
(* from within close() (ClosesAtOnce). The server answers a connection     *)
(* with one Join or Reconnect, which make the same transport manager here. *)
(***************************************************************************)
EXTENDS Naturals, Sequences

CONSTANTS
  ReconnectAttempts,  \* Options::_reconnectAttempts
  ClosesAtOnce,       \* EndPoint::close reports before it returns
  Patient,            \* the user calls connect() only when disconnected
  MaxSessions,        \* bound: sockets opened
  MaxCalls            \* bound: calls queued for the events thread

ASSUME SessionAssumption ==
  /\ ReconnectAttempts \in Nat
  /\ ClosesAtOnce \in BOOLEAN
  /\ Patient \in BOOLEAN
  /\ MaxSessions \in Nat
  /\ MaxCalls \in Nat

VARIABLES
  transport,  \* the state in SignalClientWs::Listener
  socket,     \* what the end point is in
  session,    \* number of the socket, sockets opened so far
  answered,   \* the server has answered this socket with Join or Reconnect
  manager,    \* the number of the manager in _pcManager, 0 if there is none
  made,       \* transport managers made so far
  held,       \* the manager a thread has taken out to close, or 0
  said,       \* a transport state a thread has yet to tell its listener of
  calls,      \* calls posted to the events queue
  at,         \* where each thread is in the code
  again,      \* the Leave being handled asks for another connection
  attempts,   \* _reconnectAttempts of the engine
  lost        \* history: a session lost its socket and connect() was not tried since

vars == <<transport, socket, session, answered, manager, made, held, said, calls, at,
          again, attempts, lost>>

socketVars == <<socket, session, answered>>
managerVars == <<manager, made, held>>

Threads == {"app", "ws", "events"}

TransportStates == {"Connecting", "Connected", "Disconnecting", "Disconnected"}

Steps == {"idle", "open", "cleanup", "close", "release", "retry", "create"}

Calls == [op : TransportStates \cup {"error", "rtc"}, of : Nat]

Quiet(t) == said[t] = "none"

At(t, step) == at[t] = step /\ Quiet(t)

Go(t, step) == at' = [at EXCEPT ![t] = step]

(***************************************************************************)
(* SignalClientWs::Listener::changeTransportState.                         *)
(***************************************************************************)
\* Mutant: every change is accepted.
MutAccepts(old, new) == old # new

Accepts(old, new) ==
  /\ old # new
  /\ CASE old = "Connected"    -> new \in {"Disconnecting", "Disconnected"}
       [] old = "Disconnected" -> new \in {"Connecting", "Connected"}
       [] OTHER                -> TRUE

ChangeTransportState(t, state) ==
  IF Accepts(transport, state)
    THEN transport' = state /\ said' = [said EXCEPT ![t] = state]
    ELSE UNCHANGED <<transport, said>>

\* The listener is told, the lock is no longer held. On the events queue it is
\* told at once, and there this happens only within disconnect(): the nested
\* cleanup() closes whatever manager it finds, on a socket closed already.
Announce(t) ==
  /\ ~Quiet(t)
  /\ said' = [said EXCEPT ![t] = "none"]
  /\ IF t = "events"
       THEN manager' = 0 /\ UNCHANGED calls
       ELSE /\ Len(calls) < MaxCalls
            /\ calls' = Append(calls, [op |-> said[t], of |-> 0])
            /\ UNCHANGED manager
  /\ UNCHANGED <<transport, socketVars, made, held, at, again, attempts,
                 lost>>

(***************************************************************************)
(* SignalClientWs::connect, called by the user or by onLeave.              *)
(***************************************************************************)
BeginConnect(t) ==
  /\ ChangeTransportState(t, "Connecting")
  /\ Go(t, IF Accepts(transport, "Connecting") THEN "open" ELSE "idle")
  /\ lost' = (lost /\ ~Accepts(transport, "Connecting"))

Connect ==
  /\ At("app", "idle")
  /\ Patient => transport = "Disconnected"
  /\ BeginConnect("app")
  /\ UNCHANGED <<socketVars, managerVars, calls, again, attempts>>

\* Only connect() of onLeave counts as an attempt.
Opened(t) ==
  /\ At(t, "open")
  /\ socket = "closed" /\ session < MaxSessions
  /\ socket' = "opening"
  /\ session' = session + 1
  /\ answered' = FALSE
  /\ attempts' = IF t = "ws" THEN attempts + 1 ELSE attempts
  /\ Go(t, "idle")
  /\ UNCHANGED <<transport, managerVars, said, calls, again, lost>>

\* The end point may refuse at any time, and does when it is not closed.
NotOpened(t) ==
  /\ At(t, "open")
  /\ ChangeTransportState(t, "Disconnected")
  /\ Go(t, "idle")
  /\ UNCHANGED <<socketVars, managerVars, calls, again, attempts, lost>>

(***************************************************************************)
(* Reports of the socket, on the WebSocket thread: updateState, onError.   *)
(***************************************************************************)
SocketOpening ==
  /\ At("ws", "idle") /\ socket = "opening"
  /\ ChangeTransportState("ws", "Connecting")
  /\ UNCHANGED <<socketVars, managerVars, calls, at, again, attempts, lost>>

SocketOpened ==
  /\ At("ws", "idle") /\ socket = "opening"
  /\ socket' = "open"
  /\ ChangeTransportState("ws", "Connected")
  /\ UNCHANGED <<session, answered, managerVars, calls, at, again, attempts, lost>>

SocketClosing ==
  /\ At("ws", "idle") /\ socket = "closing"
  /\ ChangeTransportState("ws", "Disconnecting")
  /\ UNCHANGED <<socketVars, managerVars, calls, at, again, attempts, lost>>

\* close() was called, the server or the network has ended the connection, or
\* it never came to be.
SocketClosed ==
  /\ At("ws", "idle") /\ socket # "closed"
  /\ socket' = "closed"
  /\ lost' = (socket = "open" /\ manager # 0)
  /\ ChangeTransportState("ws", "Disconnected")
  /\ UNCHANGED <<session, answered, managerVars, calls, at, again, attempts>>

SocketError ==
  /\ At("ws", "idle") /\ socket # "closed"
  /\ Len(calls) < MaxCalls
  /\ calls' = Append(calls, [op |-> "error", of |-> 0])
  /\ UNCHANGED <<transport, socketVars, managerVars, said, at, again, attempts, lost>>

(***************************************************************************)
(* Messages of the server, on the WebSocket thread.                        *)
(***************************************************************************)
\* onJoin and onReconnect, up to createTransportManager.
Answer ==
  /\ At("ws", "idle") /\ socket = "open" /\ ~answered
  /\ answered' = TRUE
  /\ Go("ws", "create")
  /\ UNCHANGED <<transport, socket, session, managerVars, said, calls, again, attempts,
                 lost>>

\* A manager that is still there is replaced.
CreateTransportManager ==
  /\ At("ws", "create")
  /\ made' = made + 1
  /\ manager' = made'
  /\ attempts' = 0
  /\ Go("ws", "idle")
  /\ UNCHANGED <<transport, socketVars, held, said, calls, again, lost>>

\* onLeave, and what else ends in handleLocalParticipantDisconnection.
OnLeave(reconnect) ==
  /\ At("ws", "idle") /\ socket = "open"
  /\ again' = reconnect
  /\ Go("ws", "cleanup")
  /\ UNCHANGED <<transport, socketVars, managerVars, said, calls, attempts, lost>>

\* Mutant: an attempt is counted whether connect() succeeds or not, one more
\* than allowed.
MutRetry ==
  /\ At("ws", "retry")
  /\ IF attempts <= ReconnectAttempts
       THEN BeginConnect("ws") /\ attempts' = attempts + 1
       ELSE Go("ws", "idle") /\ UNCHANGED <<transport, said, lost, attempts>>
  /\ UNCHANGED <<socketVars, managerVars, calls, again>>

\* The second half of onLeave, after cleanup() and the delay.
Retry ==
  /\ At("ws", "retry")
  /\ IF attempts < ReconnectAttempts
       THEN BeginConnect("ws")
       ELSE Go("ws", "idle") /\ UNCHANGED <<transport, said, lost>>
  /\ UNCHANGED <<socketVars, managerVars, calls, again, attempts>>

(***************************************************************************)
(* disconnect(), by the user or in cleanup().                              *)
(***************************************************************************)
Done(t) == Go(t, IF t = "ws" /\ again THEN "retry" ELSE "idle")

\* Mutant: _pcManager is read here and reset at the end.
MutTake(t) ==
  /\ held' = [held EXCEPT ![t] = manager]
  /\ UNCHANGED <<manager, made>>

\* The atomic exchange.
Take(t) ==
  /\ held' = [held EXCEPT ![t] = manager]
  /\ manager' = 0
  /\ UNCHANGED made

\* Without a manager nothing happens, the socket included.
BeginDisconnect(t) ==
  /\ At(t, IF t = "app" THEN "idle" ELSE "cleanup")
  /\ Take(t)
  /\ IF manager # 0 THEN Go(t, "close") ELSE Done(t)
  /\ UNCHANGED <<transport, socketVars, said, calls, again, attempts, lost>>

\* EndPoint::close.
CloseSocket(t) ==
  /\ At(t, "close")
  /\ CASE socket = "closed" -> UNCHANGED <<socket, transport, said>>
       [] socket # "closed" /\ ClosesAtOnce ->
            socket' = "closed" /\ ChangeTransportState(t, "Disconnected")
       [] socket # "closed" /\ ~ClosesAtOnce ->
            socket' = "closing" /\ UNCHANGED <<transport, said>>
  /\ Go(t, "release")
  /\ UNCHANGED <<session, answered, managerVars, calls, again, attempts, lost>>

\* TransportManager::close, and its listener is reset.
Release(t) ==
  /\ At(t, "release")
  /\ held' = [held EXCEPT ![t] = 0]
  /\ Done(t)
  /\ UNCHANGED <<transport, socketVars, manager, made, said, calls, again, attempts, lost>>

(***************************************************************************)
(* The events queue.                                                       *)
(***************************************************************************)
Alive(k) == k = manager \/ \E t \in Threads : held[t] = k

\* onSdpOperationFailed, onPongTimeout or a failed peer connection.
ManagerFails ==
  /\ manager # 0
  /\ Len(calls) < MaxCalls
  /\ calls' = Append(calls, [op |-> "rtc", of |-> manager])
  /\ UNCHANGED <<transport, socketVars, managerVars, said, at, again, attempts, lost>>

\* Mutant: the loss of the connection does not clean up.
MutNeedsCleanup(call) ==
  \/ call.op = "error"
  \/ call.op = "rtc" /\ Alive(call.of)

\* The calls of a manager that is gone are not made.
NeedsCleanup(call) ==
  \/ call.op \in {"Disconnected", "error"}
  \/ call.op = "rtc" /\ Alive(call.of)

Serve ==
  /\ At("events", "idle")
  /\ calls # <<>>
  /\ calls' = Tail(calls)
  /\ Go("events", IF NeedsCleanup(Head(calls)) THEN "cleanup" ELSE "idle")
  /\ UNCHANGED <<transport, socketVars, managerVars, said, again, attempts, lost>>

-----------------------------------------------------------------------------
Init ==
  /\ transport = "Disconnected"
  /\ socket = "closed"
  /\ session = 0
  /\ answered = FALSE
  /\ manager = 0
  /\ made = 0
  /\ held = [t \in Threads |-> 0]
  /\ said = [t \in Threads |-> "none"]
  /\ calls = <<>>
  /\ at = [t \in Threads |-> "idle"]
  /\ again = FALSE
  /\ attempts = 0
  /\ lost = FALSE

Run(t) ==
  \/ Announce(t)
  \/ Opened(t) \/ NotOpened(t)
  \/ CloseSocket(t) \/ Release(t)

Report == SocketOpening \/ SocketOpened \/ SocketClosing \/ SocketClosed \/ SocketError

Next ==
  \/ \E t \in Threads : Run(t) \/ BeginDisconnect(t)
  \/ Connect
  \/ Report
  \/ Answer \/ CreateTransportManager \/ Retry
  \/ \E reconnect \in BOOLEAN : OnLeave(reconnect)
  \/ ManagerFails \/ Serve

Spec == Init /\ [][Next]_vars

\* Threads go on with what they have begun, the events queue is served, and a
\* socket that is closing closes. Nothing is assumed of the server, the
\* network or the user.
Fairness ==
  /\ \A t \in Threads : WF_vars(Run(t))
  /\ \A t \in {"ws", "events"} : WF_vars(BeginDisconnect(t))
  /\ WF_vars(CreateTransportManager) /\ WF_vars(Retry)
  /\ WF_vars(Serve)
  /\ WF_vars(socket = "closing" /\ SocketClosed)

FairSpec == Spec /\ Fairness

-----------------------------------------------------------------------------
\* Types, and never more attempts than the options allow.
TypeOK ==
  /\ transport \in TransportStates
  /\ socket \in {"closed", "opening", "open", "closing"}
  /\ session \in 0..MaxSessions
  /\ answered \in BOOLEAN
  /\ manager \in Nat /\ made \in Nat
  /\ held \in [Threads -> Nat]
  /\ said \in [Threads -> TransportStates \cup {"none"}]
  /\ calls \in Seq(Calls)
  /\ at \in [Threads -> Steps]
  /\ again \in BOOLEAN
  /\ attempts \in 0..ReconnectAttempts
  /\ lost \in BOOLEAN

\* A transport manager is closed by one thread: whoever else disconnects at
\* the same time finds none, and none that is being closed is still in use.
ManagerHasOneOwner ==
  \A t \in Threads :
    held[t] # 0 => /\ manager # held[t]
                   /\ \A u \in Threads \ {t} : held[u] # held[t]

\* While no call of connect() is under way, the transport state is that of the
\* socket: neither the two writers nor the order of their writes leave the
\* client "Disconnected" on a socket that is open, or the reverse, where
\* connect() would be refused for ever.
TransportAgrees ==
  (\A t \in Threads : at[t] # "open") =>
    /\ socket = "open" => transport = "Connected"
    /\ socket = "closed" => transport = "Disconnected"

\* A reconnect starts from scratch: when onLeave asks for a new connection, no
\* transport manager of the old one is installed.
RetryLeavesNothingBehind == at["ws"] = "retry" => manager = 0

\* Together: a manager is taken out once, by the thread that closes it, and none is left for
\* the connection that follows.
DisconnectIsClean == ManagerHasOneOwner /\ RetryLeavesNothingBehind

\* A manager does not stay on a connection that is lost, nor on one that was
\* lost while it was being made.
LostSessionEnds ==
  \A k \in 1..MaxSessions :
    (manager = k /\ transport = "Disconnected")
      ~> (manager # k \/ transport # "Disconnected")
=============================================================================
