--------------------------- MODULE SessionProofs ---------------------------
(***************************************************************************)
(* What TLAPS proves of Session, for any number of attempts and bounds and *)
(* for an end point that reports its close at once or later, and of the    *)
(* keep-alive of a session (KeepAlive).                                    *)
(***************************************************************************)
EXTENDS Session, KeepAlive, TLAPS

\* Only managers made so far are installed or being closed, so that a new one
\* differs from all of them.
MadeBefore ==
  /\ manager <= made
  /\ \A t \in Threads : held[t] <= made

\* From the exchange of _pcManager on, the WebSocket thread finds none until it
\* makes one: nobody else does.
NoneWhileLeaving == at["ws"] \in {"close", "release", "retry"} => manager = 0

\* connect() is under way on that thread only if an attempt is left.
AttemptLeft == at["ws"] = "open" => attempts < ReconnectAttempts

Inv == TypeOK /\ MadeBefore /\ ManagerHasOneOwner /\ NoneWhileLeaving /\ AttemptLeft

LEMMA GoType ==
  ASSUME NEW a \in [Threads -> Steps], NEW t \in Threads, NEW step \in Steps
  PROVE  /\ [a EXCEPT ![t] = step] \in [Threads -> Steps]
         /\ [a EXCEPT ![t] = step][t] = step
         /\ \A u \in Threads \ {t} : [a EXCEPT ![t] = step][u] = a[u]
OBVIOUS

LEMMA InitInv == Init => Inv
<1> SUFFICES ASSUME Init PROVE Inv
  OBVIOUS
<1>1. calls \in Seq(Calls)
  BY DEF Init
<1>2. TypeOK
  <2>1. session \in 0..MaxSessions /\ attempts \in 0..ReconnectAttempts
    BY SessionAssumption DEF Init
  <2>2. manager \in Nat /\ made \in Nat /\ held \in [Threads -> Nat]
    BY DEF Init
  <2>3. answered \in BOOLEAN /\ again \in BOOLEAN /\ lost \in BOOLEAN
    BY DEF Init
  <2>4. /\ transport \in TransportStates /\ socket \in {"closed", "opening", "open", "closing"}
        /\ said \in [Threads -> TransportStates \cup {"none"}] /\ at \in [Threads -> Steps]
    BY DEF Init, TransportStates, Steps
  <2> QED BY <1>1, <2>1, <2>2, <2>3, <2>4 DEF TypeOK
<1>3. MadeBefore /\ ManagerHasOneOwner
  BY DEF Init, MadeBefore, ManagerHasOneOwner
<1>4. NoneWhileLeaving /\ AttemptLeft
  BY DEF Init, NoneWhileLeaving, AttemptLeft, Threads
<1> QED BY <1>2, <1>3, <1>4 DEF Inv

\* A step that moves no thread and no manager: what is left to show is the type
\* of what it does change.
LEMMA Still ==
  ASSUME Inv, TypeOK', UNCHANGED <<managerVars, at, attempts>>
  PROVE  Inv'
BY DEF Inv, managerVars, MadeBefore, ManagerHasOneOwner, NoneWhileLeaving, AttemptLeft

LEMMA ChangeType ==
  ASSUME TypeOK, NEW t \in Threads, NEW state \in TransportStates,
         ChangeTransportState(t, state)
  PROVE  /\ transport' \in TransportStates
         /\ said' \in [Threads -> TransportStates \cup {"none"}]
BY DEF ChangeTransportState, TypeOK

LEMMA PostType ==
  ASSUME NEW q \in Seq(Calls), NEW c \in Calls
  PROVE  Append(q, c) \in Seq(Calls)
OBVIOUS

LEMMA AnnounceInv ==
  ASSUME Inv, NEW t \in Threads, Announce(t)
  PROVE  Inv'
<1>1. /\ said' = [said EXCEPT ![t] = "none"]
      /\ UNCHANGED <<transport, socketVars, made, held, at, again, attempts, lost>>
  BY DEF Announce
<1>2. said' \in [Threads -> TransportStates \cup {"none"}]
  BY <1>1 DEF Inv, TypeOK
<1>3. said[t] \in TransportStates
  BY DEF Announce, Quiet, Inv, TypeOK
<1>4. manager' \in {0, manager} /\ calls' \in Seq(Calls)
  <2>1. CASE t = "events"
    BY <2>1 DEF Announce, Inv, TypeOK
  <2>2. CASE t # "events"
    <3>1. [op |-> said[t], of |-> 0] \in Calls
      BY <1>3 DEF Calls
    <3>2. calls' = Append(calls, [op |-> said[t], of |-> 0]) /\ UNCHANGED manager
      BY <2>2 DEF Announce
    <3>3. calls \in Seq(Calls)
      BY DEF Inv, TypeOK
    <3>4. calls' \in Seq(Calls)
      BY <3>1, <3>2, <3>3, PostType
    <3> QED BY <3>2, <3>4
  <2> QED BY <2>1, <2>2
<1>5. TypeOK'
  BY <1>1, <1>2, <1>4 DEF Inv, TypeOK, socketVars
<1>6. MadeBefore' /\ ManagerHasOneOwner' /\ NoneWhileLeaving' /\ AttemptLeft'
  BY <1>1, <1>4 DEF Inv, TypeOK, MadeBefore, ManagerHasOneOwner, NoneWhileLeaving, AttemptLeft
<1> QED BY <1>5, <1>6 DEF Inv

\* connect() begins, for the user or for onLeave.
LEMMA BeginConnectInv ==
  ASSUME Inv, NEW t \in {"app", "ws"}, BeginConnect(t),
         t = "ws" => attempts < ReconnectAttempts,
         UNCHANGED <<socketVars, managerVars, calls, again, attempts>>
  PROVE  Inv'
<1>1. t \in Threads /\ "Connecting" \in TransportStates
  BY DEF Threads, TransportStates
<1>2. ChangeTransportState(t, "Connecting") /\ lost' \in BOOLEAN
  BY DEF BeginConnect, Inv, TypeOK
<1>3. /\ transport' \in TransportStates
      /\ said' \in [Threads -> TransportStates \cup {"none"}]
  BY <1>1, <1>2, ChangeType DEF Inv
<1>4. PICK step \in {"open", "idle"} : at' = [at EXCEPT ![t] = step]
  BY DEF BeginConnect, Go
<1>5. /\ at' \in [Threads -> Steps] /\ at'[t] \in {"open", "idle"}
      /\ \A u \in Threads \ {t} : at'[u] = at[u]
  BY <1>1, <1>4, GoType DEF Inv, TypeOK, Steps
<1>6. TypeOK'
  BY <1>2, <1>3, <1>5 DEF Inv, TypeOK, socketVars, managerVars
<1>7. MadeBefore' /\ ManagerHasOneOwner'
  BY DEF Inv, MadeBefore, ManagerHasOneOwner, managerVars
<1>8. NoneWhileLeaving' /\ AttemptLeft'
  BY <1>5 DEF Inv, NoneWhileLeaving, AttemptLeft, managerVars, Threads
<1> QED BY <1>6, <1>7, <1>8 DEF Inv

LEMMA ConnectInv ==
  ASSUME Inv, Connect
  PROVE  Inv'
<1>1. BeginConnect("app") /\ UNCHANGED <<socketVars, managerVars, calls, again, attempts>>
  BY DEF Connect
<1> QED BY <1>1, BeginConnectInv

LEMMA RetryInv ==
  ASSUME Inv, Retry
  PROVE  Inv'
<1>1. UNCHANGED <<socketVars, managerVars, calls, again, attempts>>
  BY DEF Retry
<1>2. CASE attempts < ReconnectAttempts
  BY <1>1, <1>2, BeginConnectInv DEF Retry
<1>3. CASE ~(attempts < ReconnectAttempts)
  <2>1. at' = [at EXCEPT !["ws"] = "idle"] /\ UNCHANGED <<transport, said, lost>>
    BY <1>3 DEF Retry, Go
  <2>2. at' \in [Threads -> Steps] /\ at'["ws"] = "idle"
    BY <2>1, GoType DEF Inv, TypeOK, Threads, Steps
  <2>3. TypeOK'
    BY <1>1, <2>1, <2>2 DEF Inv, TypeOK, socketVars, managerVars
  <2>4. MadeBefore' /\ ManagerHasOneOwner' /\ NoneWhileLeaving' /\ AttemptLeft'
    BY <1>1, <2>2 DEF Inv, MadeBefore, ManagerHasOneOwner, NoneWhileLeaving, AttemptLeft,
       managerVars
  <2> QED BY <2>3, <2>4 DEF Inv
<1> QED BY <1>2, <1>3

\* connect() is over, with a socket or without.
LEMMA OpenInv ==
  ASSUME Inv, NEW t \in Threads, Opened(t) \/ NotOpened(t)
  PROVE  Inv'
<1>1. /\ at' = [at EXCEPT ![t] = "idle"] /\ at[t] = "open"
      /\ UNCHANGED <<managerVars, calls, again, lost>>
  BY DEF Opened, NotOpened, Go, At
<1>2. /\ at' \in [Threads -> Steps] /\ at'[t] = "idle"
      /\ \A u \in Threads \ {t} : at'[u] = at[u]
  BY <1>1, GoType DEF Inv, TypeOK, Steps
<1>3. attempts' \in 0..ReconnectAttempts /\ (t # "ws" => UNCHANGED attempts)
  <2>1. attempts \in 0..ReconnectAttempts /\ (t = "ws" => attempts < ReconnectAttempts)
    BY <1>1 DEF Inv, TypeOK, AttemptLeft
  <2>2. UNCHANGED attempts \/ (t = "ws" /\ attempts' = attempts + 1)
    BY DEF Opened, NotOpened
  <2> QED BY <2>1, <2>2, SessionAssumption
<1>4. /\ transport' \in TransportStates
      /\ said' \in [Threads -> TransportStates \cup {"none"}]
  <2>1. CASE Opened(t)
    BY <2>1 DEF Opened, Inv, TypeOK
  <2>2. CASE NotOpened(t)
    <3>1. ChangeTransportState(t, "Disconnected") /\ "Disconnected" \in TransportStates
      BY <2>2 DEF NotOpened, TransportStates
    <3> QED BY <3>1, ChangeType DEF Inv
  <2> QED BY <2>1, <2>2
<1>5. /\ socket' \in {"closed", "opening", "open", "closing"}
      /\ session' \in 0..MaxSessions /\ answered' \in BOOLEAN
  <2>1. CASE Opened(t)
    <3>1. socket' \in {"closed", "opening", "open", "closing"} /\ answered' \in BOOLEAN
      BY <2>1 DEF Opened
    <3>2. session' = session + 1 /\ session < MaxSessions /\ session \in 0..MaxSessions
      BY <2>1 DEF Opened, Inv, TypeOK
    <3>3. session' \in 0..MaxSessions
      BY <3>2, SessionAssumption
    <3> QED BY <3>1, <3>3
  <2>2. CASE NotOpened(t)
    BY <2>2 DEF NotOpened, Inv, TypeOK, socketVars
  <2> QED BY <2>1, <2>2
<1>6. TypeOK'
  BY <1>1, <1>2, <1>3, <1>4, <1>5 DEF Inv, TypeOK, managerVars
<1>7. MadeBefore' /\ ManagerHasOneOwner'
  BY <1>1 DEF Inv, MadeBefore, ManagerHasOneOwner, managerVars
<1>8. NoneWhileLeaving' /\ AttemptLeft'
  BY <1>1, <1>2, <1>3 DEF Inv, NoneWhileLeaving, AttemptLeft, managerVars, Threads
<1> QED BY <1>6, <1>7, <1>8 DEF Inv

LEMMA ReportInv ==
  ASSUME Inv, Report
  PROVE  Inv'
<1>1. UNCHANGED <<managerVars, at, again, attempts>> /\ lost' \in BOOLEAN
  BY DEF Report, SocketOpening, SocketOpened, SocketClosing, SocketClosed, SocketError, Inv,
     TypeOK
<1>2. /\ socket' \in {"closed", "opening", "open", "closing"}
      /\ UNCHANGED <<session, answered>>
  BY DEF Report, SocketOpening, SocketOpened, SocketClosing, SocketClosed, SocketError, Inv,
     TypeOK, socketVars
<1>3. CASE SocketError
  <2>1. [op |-> "error", of |-> 0] \in Calls /\ calls \in Seq(Calls)
    BY DEF Calls, Inv, TypeOK
  <2>2. calls' \in Seq(Calls)
    BY <1>3, <2>1, PostType DEF SocketError
  <2>3. TypeOK'
    BY <1>1, <1>2, <1>3, <2>2 DEF SocketError, Inv, TypeOK, managerVars
  <2> QED BY <1>1, <2>3, Still
<1>4. CASE SocketOpening \/ SocketOpened \/ SocketClosing \/ SocketClosed
  <2>1. "ws" \in Threads /\ UNCHANGED calls
    BY <1>4 DEF Threads, SocketOpening, SocketOpened, SocketClosing, SocketClosed
  <2>2. \E state \in TransportStates : ChangeTransportState("ws", state)
    BY <1>4 DEF SocketOpening, SocketOpened, SocketClosing, SocketClosed, TransportStates
  <2>3. /\ transport' \in TransportStates
        /\ said' \in [Threads -> TransportStates \cup {"none"}]
    BY <2>1, <2>2, ChangeType DEF Inv
  <2>4. TypeOK'
    BY <1>1, <1>2, <2>1, <2>3 DEF Inv, TypeOK, managerVars
  <2> QED BY <1>1, <2>4, Still
<1> QED BY <1>3, <1>4 DEF Report

\* Messages that only move the WebSocket thread.
LEMMA MessageInv ==
  ASSUME Inv, Answer \/ \E reconnect \in BOOLEAN : OnLeave(reconnect)
  PROVE  Inv'
<1>1. /\ UNCHANGED <<transport, socket, session, managerVars, said, calls, attempts, lost>>
      /\ again' \in BOOLEAN /\ answered' \in BOOLEAN
  BY DEF Answer, OnLeave, socketVars, Inv, TypeOK
<1>2. PICK step \in {"create", "cleanup"} : at' = [at EXCEPT !["ws"] = step]
  BY DEF Answer, OnLeave, Go
<1>3. at' \in [Threads -> Steps] /\ at'["ws"] \in {"create", "cleanup"}
  BY <1>2, GoType DEF Inv, TypeOK, Threads, Steps
<1>4. TypeOK'
  BY <1>1, <1>3 DEF Inv, TypeOK, managerVars
<1>5. MadeBefore' /\ ManagerHasOneOwner' /\ NoneWhileLeaving' /\ AttemptLeft'
  BY <1>1, <1>3 DEF Inv, MadeBefore, ManagerHasOneOwner, NoneWhileLeaving, AttemptLeft,
     managerVars
<1> QED BY <1>4, <1>5 DEF Inv

LEMMA CreateTransportManagerInv ==
  ASSUME Inv, CreateTransportManager
  PROVE  Inv'
<1>1. /\ made' = made + 1 /\ manager' = made + 1 /\ attempts' = 0
      /\ at' = [at EXCEPT !["ws"] = "idle"]
      /\ UNCHANGED <<transport, socketVars, held, said, calls, again, lost>>
  BY DEF CreateTransportManager, Go
<1>2. at' \in [Threads -> Steps] /\ at'["ws"] = "idle"
  BY <1>1, GoType DEF Inv, TypeOK, Threads, Steps
<1>3. TypeOK'
  BY <1>1, <1>2, SessionAssumption DEF Inv, TypeOK, socketVars
<1>4. MadeBefore' /\ ManagerHasOneOwner'
  BY <1>1 DEF Inv, TypeOK, MadeBefore, ManagerHasOneOwner
<1>5. NoneWhileLeaving' /\ AttemptLeft'
  BY <1>2 DEF NoneWhileLeaving, AttemptLeft
<1> QED BY <1>3, <1>4, <1>5 DEF Inv

\* The exchange: the manager passes from _pcManager to one thread.
LEMMA BeginDisconnectInv ==
  ASSUME Inv, NEW t \in Threads, BeginDisconnect(t)
  PROVE  Inv'
<1>1. /\ held' = [held EXCEPT ![t] = manager] /\ manager' = 0
      /\ UNCHANGED <<made, transport, socketVars, said, calls, again, attempts, lost>>
  BY DEF BeginDisconnect, Take
<1>2. PICK step \in {"close", "retry", "idle"} : at' = [at EXCEPT ![t] = step]
  BY DEF BeginDisconnect, Done, Go
<1>3. /\ at' \in [Threads -> Steps] /\ at'[t] # "open"
      /\ \A u \in Threads \ {t} : at'[u] = at[u]
  BY <1>2, GoType DEF Inv, TypeOK, Steps
<1>4. /\ held' \in [Threads -> Nat] /\ held'[t] = manager
      /\ \A u \in Threads \ {t} : held'[u] = held[u]
  BY <1>1 DEF Inv, TypeOK
<1>5. TypeOK'
  BY <1>1, <1>3, <1>4 DEF Inv, TypeOK, socketVars
<1>6. MadeBefore' /\ ManagerHasOneOwner'
  BY <1>1, <1>4 DEF Inv, TypeOK, MadeBefore, ManagerHasOneOwner
<1>7. NoneWhileLeaving' /\ AttemptLeft'
  BY <1>1, <1>3 DEF Inv, NoneWhileLeaving, AttemptLeft, Threads
<1> QED BY <1>5, <1>6, <1>7 DEF Inv

LEMMA CloseSocketInv ==
  ASSUME Inv, NEW t \in Threads, CloseSocket(t)
  PROVE  Inv'
<1>1. /\ UNCHANGED <<session, answered, managerVars, calls, again, attempts, lost>>
      /\ at[t] = "close" /\ at' = [at EXCEPT ![t] = "release"]
  BY DEF CloseSocket, At, Go
<1>2. /\ at' \in [Threads -> Steps] /\ at'[t] = "release"
      /\ \A u \in Threads \ {t} : at'[u] = at[u]
  BY <1>1, GoType DEF Inv, TypeOK, Steps
<1>3. /\ UNCHANGED <<transport, said>> \/ ChangeTransportState(t, "Disconnected")
      /\ socket' \in {"closed", "opening", "open", "closing"}
  BY SessionAssumption DEF CloseSocket, Inv, TypeOK
<1>4. /\ transport' \in TransportStates
      /\ said' \in [Threads -> TransportStates \cup {"none"}]
  <2>1. CASE UNCHANGED <<transport, said>>
    BY <2>1 DEF Inv, TypeOK
  <2>2. CASE ChangeTransportState(t, "Disconnected")
    <3>1. "Disconnected" \in TransportStates
      BY DEF TransportStates
    <3> QED BY <2>2, <3>1, ChangeType DEF Inv
  <2> QED BY <1>3, <2>1, <2>2
<1>5. TypeOK'
  BY <1>1, <1>2, <1>3, <1>4 DEF Inv, TypeOK, managerVars
<1>6. MadeBefore' /\ ManagerHasOneOwner'
  BY <1>1 DEF Inv, MadeBefore, ManagerHasOneOwner, managerVars
<1>7. NoneWhileLeaving' /\ AttemptLeft'
  BY <1>1, <1>2 DEF Inv, NoneWhileLeaving, AttemptLeft, managerVars, Threads
<1> QED BY <1>5, <1>6, <1>7 DEF Inv

LEMMA ReleaseInv ==
  ASSUME Inv, NEW t \in Threads, Release(t)
  PROVE  Inv'
<1>1. /\ held' = [held EXCEPT ![t] = 0] /\ at[t] = "release"
      /\ UNCHANGED <<transport, socketVars, manager, made, said, calls, again, attempts, lost>>
  BY DEF Release, At
<1>2. PICK step \in {"retry", "idle"} : at' = [at EXCEPT ![t] = step]
  BY DEF Release, Done, Go
<1>3. /\ at' \in [Threads -> Steps] /\ at'[t] # "open"
      /\ \A u \in Threads \ {t} : at'[u] = at[u]
  BY <1>2, GoType DEF Inv, TypeOK, Steps
<1>4. /\ held' \in [Threads -> Nat] /\ held'[t] = 0
      /\ \A u \in Threads \ {t} : held'[u] = held[u]
  BY <1>1 DEF Inv, TypeOK
<1>5. TypeOK'
  BY <1>1, <1>3, <1>4 DEF Inv, TypeOK, socketVars
<1>6. MadeBefore' /\ ManagerHasOneOwner'
  BY <1>1, <1>4 DEF Inv, TypeOK, MadeBefore, ManagerHasOneOwner
<1>7. NoneWhileLeaving' /\ AttemptLeft'
  BY <1>1, <1>3 DEF Inv, NoneWhileLeaving, AttemptLeft, Threads
<1> QED BY <1>5, <1>6, <1>7 DEF Inv

LEMMA ManagerFailsInv ==
  ASSUME Inv, ManagerFails
  PROVE  Inv'
<1>1. /\ calls' = Append(calls, [op |-> "rtc", of |-> manager])
      /\ UNCHANGED <<transport, socketVars, managerVars, said, at, again, attempts, lost>>
  BY DEF ManagerFails
<1>2. [op |-> "rtc", of |-> manager] \in Calls /\ calls \in Seq(Calls)
  BY DEF Calls, Inv, TypeOK
<1>3. calls' \in Seq(Calls)
  BY <1>1, <1>2, PostType
<1>4. TypeOK'
  BY <1>1, <1>3 DEF Inv, TypeOK, socketVars, managerVars
<1> QED BY <1>1, <1>4, Still

LEMMA ServeInv ==
  ASSUME Inv, Serve
  PROVE  Inv'
<1>1. /\ calls # <<>> /\ calls' = Tail(calls)
      /\ UNCHANGED <<transport, socketVars, managerVars, said, again, attempts, lost>>
  BY DEF Serve
<1>2. PICK step \in {"cleanup", "idle"} : at' = [at EXCEPT !["events"] = step]
  BY DEF Serve, Go
<1>3. at' \in [Threads -> Steps] /\ at'["ws"] = at["ws"]
  BY <1>2, GoType DEF Inv, TypeOK, Threads, Steps
<1>4. calls \in Seq(Calls)
  BY DEF Inv, TypeOK
<1>5. calls' \in Seq(Calls)
  BY <1>1, <1>4
<1>6. TypeOK'
  BY <1>1, <1>3, <1>5 DEF Inv, TypeOK, socketVars, managerVars
<1>7. MadeBefore' /\ ManagerHasOneOwner' /\ NoneWhileLeaving' /\ AttemptLeft'
  BY <1>1, <1>3 DEF Inv, MadeBefore, ManagerHasOneOwner, NoneWhileLeaving, AttemptLeft,
     managerVars
<1> QED BY <1>6, <1>7 DEF Inv

-----------------------------------------------------------------------------
\* What every step of the three threads leaves true: the types, and who owns
\* which transport manager while disconnect() runs on several of them.
THEOREM Invariance == Spec => []Inv
<1>1. ASSUME Inv, [Next]_vars PROVE Inv'
  <2> USE <1>1
  <2>1. CASE UNCHANGED vars
    BY <2>1 DEF vars, Inv, TypeOK, MadeBefore, ManagerHasOneOwner, NoneWhileLeaving,
       AttemptLeft
  <2>2. CASE \E t \in Threads : Run(t) \/ BeginDisconnect(t)
    BY <2>2, AnnounceInv, OpenInv, CloseSocketInv, ReleaseInv, BeginDisconnectInv DEF Run
  <2>3. CASE Connect \/ Retry
    BY <2>3, ConnectInv, RetryInv
  <2>4. CASE Report
    BY <2>4, ReportInv
  <2>5. CASE Answer \/ \E reconnect \in BOOLEAN : OnLeave(reconnect)
    BY <2>5, MessageInv
  <2>6. CASE CreateTransportManager
    BY <2>6, CreateTransportManagerInv
  <2>7. CASE ManagerFails \/ Serve
    BY <2>7, ManagerFailsInv, ServeInv
  <2> QED BY <2>1, <2>2, <2>3, <2>4, <2>5, <2>6, <2>7 DEF Next
<1> QED BY <1>1, InitInv, PTL DEF Spec

\* Every variable keeps its type; onLeave never counts more attempts than the
\* options allow.
THEOREM TypeCorrect == Spec => []TypeOK
<1>1. Inv => TypeOK
  BY DEF Inv
<1> QED BY <1>1, Invariance, PTL

\* However many threads call disconnect() at once, one of them closes the
\* transport manager, and it is out of use by then.
THEOREM ClosedByOne == Spec => []ManagerHasOneOwner
<1>1. Inv => ManagerHasOneOwner
  BY DEF Inv
<1> QED BY <1>1, Invariance, PTL

\* When onLeave asks for a new connection, the old transport manager is gone.
THEOREM RetryIsClean == Spec => []RetryLeavesNothingBehind
<1>1. Inv => RetryLeavesNothingBehind
  BY DEF Inv, NoneWhileLeaving, RetryLeavesNothingBehind
<1> QED BY <1>1, Invariance, PTL

\* Both: disconnect() closes the manager once, and a retry finds none.
THEOREM ClosedCleanly == Spec => []DisconnectIsClean
<1>1. ManagerHasOneOwner /\ RetryLeavesNothingBehind => DisconnectIsClean
  BY DEF DisconnectIsClean
<1> QED BY <1>1, ClosedByOne, RetryIsClean, PTL

-----------------------------------------------------------------------------
(***************************************************************************)
(* The transport state is that of the socket, if the end point reports its *)
(* close at once, or the user is patient.                                  *)
(***************************************************************************)
NoOpener == \A t \in Threads : at[t] # "open"

\* What one connect() finds: no other one is under way, and the socket is closed.
OpenerInv ==
  \A t \in Threads : at[t] = "open" =>
    /\ socket = "closed" /\ transport = "Connecting"
    /\ \A u \in Threads \ {t} : at[u] # "open"

\* The transport state in each state of the socket.
SocketInv ==
  /\ socket = "closed" /\ NoOpener => transport = "Disconnected"
  /\ socket = "opening" => transport = "Connecting"
  /\ socket = "open" => transport = "Connected"
  /\ socket = "closing" => transport # "Disconnected" /\ ~ClosesAtOnce
  /\ transport = "Disconnecting" => socket = "closing"

\* While the WebSocket thread handles a message it reports nothing: the state is the one it
\* had when the message came, whoever closes the socket meanwhile.
BusyInv ==
  ~ClosesAtOnce /\ at["ws"] # "idle" => transport = "Connected" /\ socket \in {"open", "closing"}

AgreeInv == OpenerInv /\ SocketInv /\ BusyInv

LEMMA ChangedState ==
  ASSUME NEW t \in Threads, NEW state, ChangeTransportState(t, state)
  PROVE  transport' = IF Accepts(transport, state) THEN state ELSE transport
BY DEF ChangeTransportState

\* Nothing of this changes with the managers, the queue and the announcements.
LEMMA AgreeStill ==
  ASSUME AgreeInv, UNCHANGED <<transport, socket, at>>
  PROVE  AgreeInv'
BY DEF AgreeInv, OpenerInv, SocketInv, BusyInv, NoOpener

\* A thread that neither begins nor ends a connect().
LEMMA AgreeMoved ==
  ASSUME Inv, AgreeInv, NEW t \in Threads, NEW step \in Steps \ {"open"}, Go(t, step),
         at[t] # "open", UNCHANGED <<transport, socket>>,
         t # "ws" \/ at["ws"] # "idle" \/ socket = "open"
  PROVE  AgreeInv'
<1>1. /\ at'[t] = step
      /\ \A u \in Threads \ {t} : at'[u] = at[u]
  BY GoType DEF Go, Inv, TypeOK
<1>2. OpenerInv' /\ SocketInv'
  BY <1>1 DEF AgreeInv, OpenerInv, SocketInv, NoOpener
<1>3. BusyInv'
  BY <1>1 DEF AgreeInv, BusyInv, SocketInv, Threads
<1> QED BY <1>2, <1>3 DEF AgreeInv

LEMMA AgreeBegun ==
  ASSUME Inv, AgreeInv, NEW t \in {"app", "ws"}, BeginConnect(t), at[t] # "open",
         UNCHANGED socket,
         t = "app" => (Patient => transport = "Disconnected"),
         t = "ws" => at["ws"] = "retry",
         ClosesAtOnce \/ Patient
  PROVE  AgreeInv'
<1>1. t \in Threads /\ ChangeTransportState(t, "Connecting")
  BY DEF BeginConnect, Threads
<1>2. transport' = IF Accepts(transport, "Connecting") THEN "Connecting" ELSE transport
  BY <1>1, ChangedState
<1>3. Go(t, IF Accepts(transport, "Connecting") THEN "open" ELSE "idle")
  BY DEF BeginConnect
<1>4. CASE ~Accepts(transport, "Connecting")
  <2>1. Go(t, "idle") /\ transport' = transport /\ "idle" \in Steps
    BY <1>2, <1>3, <1>4 DEF Steps
  <2>2. t # "ws" \/ at["ws"] # "idle" \/ socket = "open"
    OBVIOUS
  <2> QED BY <1>1, <2>1, <2>2, AgreeMoved
<1>5. CASE Accepts(transport, "Connecting")
  <2>1. /\ transport' = "Connecting" /\ at'[t] = "open"
        /\ \A u \in Threads \ {t} : at'[u] = at[u]
    BY <1>1, <1>2, <1>3, <1>5, GoType DEF Go, Inv, TypeOK, Steps
  <2>2. transport \in {"Disconnected", "Disconnecting"}
    BY <1>5 DEF Accepts, Inv, TypeOK, TransportStates
  <2>3. t = "ws" => ClosesAtOnce
    BY <2>2 DEF AgreeInv, BusyInv
  <2>4. transport = "Disconnected"
    BY <2>2, <2>3 DEF AgreeInv, SocketInv
  <2>5. socket = "closed" /\ NoOpener
    BY <2>4 DEF AgreeInv, OpenerInv, SocketInv, NoOpener, Inv, TypeOK
  <2>6. OpenerInv' /\ SocketInv'
    BY <1>1, <2>1, <2>5 DEF OpenerInv, SocketInv, NoOpener
  <2>7. BusyInv'
    BY <2>1, <2>3, <2>4 DEF BusyInv, AgreeInv, Threads
  <2> QED BY <2>6, <2>7 DEF AgreeInv
<1> QED BY <1>4, <1>5

LEMMA AgreeOpened ==
  ASSUME Inv, AgreeInv, NEW t \in Threads, Opened(t) \/ NotOpened(t)
  PROVE  AgreeInv'
<1>1. at[t] = "open" /\ Go(t, "idle")
  BY DEF Opened, NotOpened, At
<1>2. /\ at'[t] = "idle"
      /\ \A u \in Threads \ {t} : at'[u] = at[u]
  BY <1>1, GoType DEF Go, Inv, TypeOK, Steps
<1>3. socket = "closed" /\ transport = "Connecting" /\ \A u \in Threads \ {t} : at[u] # "open"
  BY <1>1 DEF AgreeInv, OpenerInv
<1>4. NoOpener'
  BY <1>2, <1>3 DEF NoOpener
<1>5. \/ socket' = "opening" /\ transport' = "Connecting"
      \/ socket' = "closed" /\ transport' = "Disconnected"
  <2>1. CASE Opened(t)
    BY <1>3, <2>1 DEF Opened
  <2>2. CASE NotOpened(t)
    <3>1. transport' = IF Accepts(transport, "Disconnected") THEN "Disconnected" ELSE transport
      BY <2>2, ChangedState DEF NotOpened
    <3> QED BY <1>3, <2>2, <3>1 DEF NotOpened, Accepts, socketVars
  <2> QED BY <2>1, <2>2
<1>6. OpenerInv' /\ SocketInv'
  BY <1>4, <1>5 DEF OpenerInv, SocketInv, NoOpener
<1>7. BusyInv'
  BY <1>2, <1>3 DEF BusyInv, AgreeInv, Threads
<1> QED BY <1>6, <1>7 DEF AgreeInv

LEMMA AgreeReported ==
  ASSUME Inv, AgreeInv, Report
  PROVE  AgreeInv'
<1>1. at["ws"] = "idle" /\ UNCHANGED at /\ socket # "closed"
  BY DEF Report, SocketOpening, SocketOpened, SocketClosing, SocketClosed, SocketError, At
<1>2. NoOpener
  BY <1>1 DEF AgreeInv, OpenerInv, NoOpener
<1>3. SocketInv'
  <2>1. CASE SocketError
    BY <2>1 DEF SocketError, AgreeInv, SocketInv, NoOpener, socketVars
  <2>2. CASE SocketOpening
    <3>1. transport' = transport /\ socket' = socket
      BY <2>2, ChangedState DEF SocketOpening, AgreeInv, SocketInv, Accepts, socketVars, Threads
    <3> QED BY <1>1, <3>1 DEF AgreeInv, SocketInv, NoOpener
  <2>3. CASE SocketOpened
    <3>1. transport' = "Connected" /\ socket' = "open"
      BY <2>3, ChangedState DEF SocketOpened, AgreeInv, SocketInv, Accepts, Threads
    <3> QED BY <3>1 DEF SocketInv
  <2>4. CASE SocketClosing
    <3>1. /\ transport' = IF Accepts(transport, "Disconnecting") THEN "Disconnecting" ELSE transport
          /\ socket = "closing" /\ socket' = "closing" /\ transport # "Disconnected"
          /\ ~ClosesAtOnce
      BY <2>4, ChangedState DEF SocketClosing, AgreeInv, SocketInv, socketVars, Threads
    <3> QED BY <3>1 DEF SocketInv
  <2>5. CASE SocketClosed
    <3>1. /\ transport' = IF Accepts(transport, "Disconnected") THEN "Disconnected" ELSE transport
          /\ socket' = "closed"
      BY <2>5, ChangedState DEF SocketClosed, Threads
    <3>2. transport' = "Disconnected"
      BY <3>1 DEF Accepts, Inv, TypeOK, TransportStates
    <3> QED BY <3>1, <3>2 DEF SocketInv
  <2> QED BY <2>1, <2>2, <2>3, <2>4, <2>5 DEF Report
<1>4. OpenerInv' /\ BusyInv'
  BY <1>1, <1>2 DEF OpenerInv, BusyInv, NoOpener
<1> QED BY <1>3, <1>4 DEF AgreeInv

LEMMA AgreeClosed ==
  ASSUME Inv, AgreeInv, NEW t \in Threads, CloseSocket(t)
  PROVE  AgreeInv'
<1>1. at[t] = "close" /\ Go(t, "release") /\ "release" \in Steps \ {"open"}
  BY DEF CloseSocket, At, Steps
<1>2. /\ at'[t] = "release"
      /\ \A u \in Threads \ {t} : at'[u] = at[u]
  BY <1>1, GoType DEF Go, Inv, TypeOK
<1>3. CASE socket = "closed"
  <2>1. UNCHANGED <<transport, socket>> /\ (t # "ws" \/ at["ws"] # "idle")
    BY <1>1, <1>3 DEF CloseSocket
  <2>2. UNCHANGED <<transport, socket>>
    BY <1>3 DEF CloseSocket
  <2> QED BY <1>1, <2>1, <2>2, AgreeMoved
<1>4. CASE socket # "closed" /\ ClosesAtOnce
  <2>1. socket' = "closed" /\ ChangeTransportState(t, "Disconnected")
    BY <1>4, SessionAssumption DEF CloseSocket
  <2>2. transport' = "Disconnected"
    BY <2>1, ChangedState DEF Accepts, Inv, TypeOK, TransportStates
  <2>3. NoOpener'
    BY <1>1, <1>2, <1>4 DEF AgreeInv, OpenerInv, NoOpener
  <2> QED BY <1>4, <2>1, <2>2, <2>3 DEF AgreeInv, OpenerInv, SocketInv, BusyInv, NoOpener
<1>5. CASE socket # "closed" /\ ~ClosesAtOnce
  <2>1. socket' = "closing" /\ transport' = transport
    BY <1>5, SessionAssumption DEF CloseSocket
  <2>2. NoOpener'
    BY <1>1, <1>2, <1>5 DEF AgreeInv, OpenerInv, NoOpener
  <2>3. transport # "Disconnected"
    BY <1>5 DEF AgreeInv, SocketInv, Inv, TypeOK
  <2>4. SocketInv' /\ OpenerInv'
    BY <1>5, <2>1, <2>2, <2>3 DEF SocketInv, OpenerInv, NoOpener
  <2>5. BusyInv'
    BY <1>1, <1>2, <2>1 DEF BusyInv, AgreeInv, Threads
  <2> QED BY <2>4, <2>5 DEF AgreeInv
<1> QED BY <1>3, <1>4, <1>5

LEMMA AgreeKept ==
  ASSUME Inv, AgreeInv, [Next]_vars, ClosesAtOnce \/ Patient
  PROVE  AgreeInv'
<1>1. CASE \/ UNCHANGED vars \/ ManagerFails
           \/ \E t \in Threads : Announce(t)
  BY <1>1, AgreeStill DEF vars, ManagerFails, Announce, socketVars
<1>2. ASSUME NEW t \in Threads, Opened(t) \/ NotOpened(t) \/ CloseSocket(t)
      PROVE  AgreeInv'
  BY <1>2, AgreeOpened, AgreeClosed
<1>3. ASSUME NEW t \in Threads, Release(t) \/ BeginDisconnect(t)
      PROVE  AgreeInv'
  <2>1. at[t] # "open" /\ UNCHANGED <<transport, socket>> /\ (t # "ws" \/ at["ws"] # "idle")
    BY <1>3 DEF Release, BeginDisconnect, At, socketVars
  <2>2. \E step \in Steps \ {"open"} : Go(t, step)
    BY <1>3 DEF Release, BeginDisconnect, Done, Steps
  <2> QED BY <2>1, <2>2, AgreeMoved
<1>4. CASE Connect
  <2>1. /\ BeginConnect("app") /\ at["app"] = "idle" /\ UNCHANGED socket
        /\ Patient => transport = "Disconnected"
    BY <1>4 DEF Connect, At, socketVars
  <2> QED BY <2>1, AgreeBegun
<1>5. CASE Retry
  <2>1. at["ws"] = "retry" /\ UNCHANGED socket
    BY <1>5 DEF Retry, At, socketVars
  <2>2. CASE attempts < ReconnectAttempts
    BY <1>5, <2>1, <2>2, AgreeBegun DEF Retry
  <2>3. CASE ~(attempts < ReconnectAttempts)
    <3>1. Go("ws", "idle") /\ UNCHANGED transport
      BY <1>5, <2>3 DEF Retry
    <3>2. "idle" \in Steps \ {"open"} /\ "ws" \in Threads
      BY DEF Steps, Threads
    <3> QED BY <2>1, <3>1, <3>2, AgreeMoved
  <2> QED BY <2>2, <2>3
<1>6. CASE Report
  BY <1>6, AgreeReported
<1>7. CASE Answer \/ CreateTransportManager \/ \E reconnect \in BOOLEAN : OnLeave(reconnect)
  <2>1. /\ at["ws"] \in {"idle", "create"} /\ UNCHANGED <<transport, socket>>
        /\ at["ws"] = "idle" => socket = "open"
    BY <1>7 DEF Answer, CreateTransportManager, OnLeave, At, socketVars
  <2>2. \E step \in Steps \ {"open"} : Go("ws", step)
    BY <1>7 DEF Answer, CreateTransportManager, OnLeave, Steps
  <2> QED BY <2>1, <2>2, AgreeMoved DEF Threads
<1>8. CASE Serve
  <2>1. at["events"] = "idle" /\ UNCHANGED <<transport, socket>>
    BY <1>8 DEF Serve, At, socketVars
  <2>2. \E step \in Steps \ {"open"} : Go("events", step)
    BY <1>8 DEF Serve, Steps
  <2> QED BY <2>1, <2>2, AgreeMoved DEF Threads
<1> QED BY <1>1, <1>2, <1>3, <1>4, <1>5, <1>6, <1>7, <1>8 DEF Next, Run

\* Neither the two writers of the transport state nor the order of their writes part it from
\* the socket, for an end point of either kind; if it reports its close later, only for a user
\* who connects when the transport state is Disconnected. Of any other user TLC finds a run that parts them.
THEOREM StateFollowsSocket ==
  ASSUME ClosesAtOnce \/ Patient
  PROVE  Spec => []TransportAgrees
<1>1. Init => AgreeInv
  BY DEF Init, AgreeInv, OpenerInv, SocketInv, BusyInv, Threads
<1>2. Inv /\ AgreeInv /\ [Next]_vars => AgreeInv'
  BY AgreeKept
<1>3. AgreeInv => TransportAgrees
  BY DEF AgreeInv, SocketInv, NoOpener, TransportAgrees
<1> QED BY <1>1, <1>2, <1>3, Invariance, PTL DEF Spec

(***************************************************************************)
(* KeepAlive, for every interval, timeout and horizon: type correctness,   *)
(* one chain of ticks, a ping in every interval, and the deadline of an    *)
(* armed timeout.                                                          *)
(*                                                                         *)
(* None of them is inductive alone. PingInv adds that the queue of shots   *)
(* is in the order of what is due, that nothing happens to the timer       *)
(* before its first tick is posted, that a running timer has its next tick *)
(* queued or is in its callback, and how long ago the last ping was.       *)
(***************************************************************************)
\* The tasks of one delay are posted, and become due, in order.
Ordered(tasks) ==
  \A i, j \in 1..Len(tasks) : i <= j => tasks[i] <= tasks[j]

\* Before the first tick is posted nothing else happens to the timer.
NothingYet ==
  where["ws"] \in {"start", "startTimer", "firstTick"} =>
    /\ where["events"] = "idle"
    /\ ticks = <<>>
    /\ shots = <<>>
    /\ ~armed
    /\ (where["ws"] # "firstTick" => ~started)

\* The flag is that of the callback the events thread is in.
TickingIsACall ==
  /\ where["events"] = "idle" => ~ticking
  /\ where["events"] = "repost" => ticking

\* A timer that runs has a tick queued, or is in the callback of one.
TickAlive ==
  /\ Len(ticks) + (IF ticking THEN 1 ELSE 0) <= 1
  /\ started /\ where["ws"] \notin {"start", "startTimer", "firstTick"} =>
       Len(ticks) + (IF ticking THEN 1 ELSE 0) = 1

\* The next tick is due within Interval of the last ping.
TickInTime ==
  started /\ where["ws"] \notin {"start", "startTimer", "firstTick"} =>
    /\ sincePing <= Interval
    /\ \A i \in 1..Len(ticks) : sincePing + ticks[i] <= Interval
    /\ where["events"] \in {"arm", "repost"} => sincePing = 0

\* A timeout is armed right after its ping.
ArmAtOnce == where["events"] = "arm" => sincePing = 0

PingInv ==
  /\ PingTypeOK
  /\ Ordered(shots)
  /\ NothingYet
  /\ TickingIsACall
  /\ TickAlive
  /\ TickInTime
  /\ ArmAtOnce
  /\ ArmedDeadline

(***************************************************************************)
(* Facts about one thread's step and about the queues.                     *)
(***************************************************************************)

\* What Go changes and what it leaves.
LEMMA GoFacts ==
  ASSUME NEW a \in [PingThreads -> PingSteps], NEW b, NEW t \in PingThreads, NEW s \in PingSteps,
         b = [a EXCEPT ![t] = s]
  PROVE  /\ b \in [PingThreads -> PingSteps]
         /\ b[t] = s
         /\ \A u \in PingThreads : u # t => b[u] = a[u]
  BY DEF PingThreads

\* Running the task at the head of a queue.
LEMMA TailFacts ==
  ASSUME NEW n \in Nat, NEW q \in Seq(0..n), q # <<>>
  PROVE  /\ Tail(q) \in Seq(0..n)
         /\ Head(q) = q[1]
         /\ Len(q) \in Nat \ {0}
         /\ Len(Tail(q)) = Len(q) - 1
         /\ \A i \in 1..(Len(q) - 1) : Tail(q)[i] = q[i + 1]
         /\ Ordered(q) => Ordered(Tail(q))
<1>1. /\ Tail(q) \in Seq(0..n)
      /\ Head(q) = q[1]
      /\ Len(q) \in Nat \ {0}
      /\ Len(Tail(q)) = Len(q) - 1
      /\ \A i \in 1..(Len(q) - 1) : Tail(q)[i] = q[i + 1]
  OBVIOUS
<1>2. Ordered(q) => Ordered(Tail(q))
  <2> SUFFICES ASSUME Ordered(q), NEW i \in 1..(Len(q) - 1), NEW j \in 1..(Len(q) - 1), i <= j
               PROVE  Tail(q)[i] <= Tail(q)[j]
    BY <1>1 DEF Ordered
  <2>1. i + 1 \in 1..Len(q) /\ j + 1 \in 1..Len(q) /\ i + 1 <= j + 1
    BY <1>1
  <2>2. QED  BY <1>1, <2>1 DEF Ordered
<1>3. QED  BY <1>1, <1>2

\* Posting a task with the longest delay there is.
LEMMA AppendFacts ==
  ASSUME NEW n \in Nat, NEW q \in Seq(0..n), NEW d \in 0..n
  PROVE  /\ Append(q, d) \in Seq(0..n)
         /\ Append(q, d) # <<>>
         /\ Len(q) \in Nat
         /\ Len(Append(q, d)) = Len(q) + 1
         /\ \A i \in 1..Len(q) : Append(q, d)[i] = q[i] /\ q[i] \in 0..n
         /\ Append(q, d)[Len(q) + 1] = d
         /\ Ordered(q) /\ d = n => Ordered(Append(q, d))
<1>1. /\ Append(q, d) \in Seq(0..n)
      /\ Append(q, d) # <<>>
      /\ Len(q) \in Nat
      /\ Len(Append(q, d)) = Len(q) + 1
      /\ \A i \in 1..Len(q) : Append(q, d)[i] = q[i] /\ q[i] \in 0..n
      /\ Append(q, d)[Len(q) + 1] = d
  OBVIOUS
<1>2. ASSUME Ordered(q), d = n, NEW i \in 1..(Len(q) + 1), NEW j \in 1..(Len(q) + 1), i <= j
      PROVE  Append(q, d)[i] <= Append(q, d)[j]
  <2>1. CASE j \in 1..Len(q)
    BY <1>1, <1>2, <2>1 DEF Ordered
  <2>2. CASE j = Len(q) + 1
    <3>1. CASE i = j  BY <1>1, <2>2, <3>1
    <3>2. CASE i # j
      <4>1. i \in 1..Len(q)  BY <1>1, <1>2, <2>2, <3>2
      <4>2. QED  BY <1>1, <1>2, <2>2, <4>1
    <3>3. QED  BY <3>1, <3>2
  <2>3. QED  BY <1>1, <2>1, <2>2
<1>3. Ordered(q) /\ d = n => Ordered(Append(q, d))
  BY <1>1, <1>2 DEF Ordered
<1>4. QED  BY <1>1, <1>3

\* Time passes for a queue in which nothing is due.
LEMMA OneLessFacts ==
  ASSUME NEW n \in Nat, NEW q \in Seq(0..n), Ordered(q), ~Due(q)
  PROVE  /\ OneLess(q) \in Seq(0..n)
         /\ Len(q) \in Nat
         /\ Len(OneLess(q)) = Len(q)
         /\ \A i \in 1..Len(q) : OneLess(q)[i] = q[i] - 1 /\ q[i] \in 1..n
         /\ q = <<>> => OneLess(q) = <<>>
         /\ q # <<>> => OneLess(q) # <<>>
         /\ Ordered(OneLess(q))
<1>1. Len(q) \in Nat /\ \A i \in 1..Len(q) : q[i] \in 0..n
  OBVIOUS
<1>2. ASSUME NEW i \in 1..Len(q) PROVE q[i] \in 1..n
  <2>1. q # <<>> /\ 1 \in 1..Len(q) /\ 1 <= i
    BY <1>1
  <2>2. q[1] # 0
    BY <2>1 DEF Due
  <2>3. q[1] <= q[i]
    BY <2>1 DEF Ordered
  <2>4. QED  BY <1>1, <2>1, <2>2, <2>3
<1>3. /\ OneLess(q) \in Seq(0..n)
      /\ Len(OneLess(q)) = Len(q)
      /\ \A i \in 1..Len(q) : OneLess(q)[i] = q[i] - 1
  <2>1. \A i \in 1..Len(q) : q[i] - 1 \in 0..n
    BY <1>2
  <2>2. OneLess(q) \in [1..Len(q) -> 0..n]
    BY <2>1 DEF OneLess
  <2>3. QED  BY <1>1, <2>2 DEF OneLess
<1>4. q = <<>> => OneLess(q) = <<>>
  BY <1>3
<1>5. q # <<>> => OneLess(q) # <<>>
  BY <1>1, <1>3
<1>6. Ordered(OneLess(q))
  BY <1>1, <1>3 DEF Ordered
<1>7. QED  BY <1>1, <1>2, <1>3, <1>4, <1>5, <1>6

(***************************************************************************)
(* The invariant is inductive.                                             *)
(***************************************************************************)

LEMMA PingInitInv == PingInit => PingInv
<1> SUFFICES ASSUME PingInit PROVE PingInv
  OBVIOUS
<1>1. /\ where \in [PingThreads -> PingSteps]
      /\ where["ws"] = "start"
      /\ where["events"] = "idle"
  BY DEF PingInit, PingThreads, PingSteps
<1>2. PingTypeOK
  <2>1. ticks \in Seq(0..Interval) /\ shots \in Seq(0..Timeout)
    BY DEF PingInit
  <2>2. QED
    BY <1>1, <2>1 DEF PingInit, PingTypeOK
<1>3. QED
  BY <1>1, <1>2 DEF PingInv, PingInit, Ordered, NothingYet, TickingIsACall, TickAlive,
     TickInTime, ArmAtOnce, ArmedDeadline

LEMMA PingStepInv == PingInv /\ [PingNext]_pingVars => PingInv'
<1> SUFFICES ASSUME PingInv, [PingNext]_pingVars PROVE PingInv'
  OBVIOUS
<1> USE DEF PingInv
<1>1. CASE StartListening
  <2>1. /\ where' \in [PingThreads -> PingSteps]
        /\ where'["events"] = where["events"]
        /\ where'["ws"] \in {"startTimer", "idle"}
        /\ where'["ws"] = "idle" => ~started
    BY <1>1, GoFacts DEF StartListening, PingGo, PingTypeOK, NothingYet, PingThreads, PingSteps
  <2>2. PingTypeOK'
    BY <1>1, <2>1 DEF StartListening, PingTypeOK, timerVars, clockVars
  <2>3. QED
    BY <1>1, <2>1, <2>2 DEF StartListening, Ordered, NothingYet, TickingIsACall, TickAlive,
       TickInTime, ArmAtOnce, ArmedDeadline, timerVars, clockVars
<1>2. CASE StartTimer
  BY <1>2, GoFacts DEF StartTimer, PingTypeOK, Ordered, NothingYet, TickingIsACall, TickAlive,
     TickInTime, ArmAtOnce, ArmedDeadline, PingGo, clockVars, PingThreads, PingSteps
<1>3. CASE PostFirstTick
  <2>1. /\ where' \in [PingThreads -> PingSteps]
        /\ where'["events"] = "idle"
        /\ where'["ws"] = "idle"
        /\ ~ticking
    BY <1>3, GoFacts DEF PostFirstTick, PingGo, PingTypeOK, NothingYet, TickingIsACall, PingThreads, PingSteps
  <2>2. ticks' = IF started THEN <<0>> ELSE <<>>
    BY <1>3 DEF PostFirstTick, PostTick, NothingYet
  <2>3. PingTypeOK'
    <3>1. ticks' \in Seq(0..Interval)
      <4>1. <<>> \in Seq(0..Interval) /\ <<0>> \in Seq(0..Interval)
        BY KeepAliveAssumption
      <4>2. QED  BY <2>2, <4>1
    <3>2. QED
      BY <1>3, <2>1, <3>1 DEF PostFirstTick, PingTypeOK
  <2>4. ~armed' /\ Ordered(shots)'
    BY <1>3 DEF PostFirstTick, NothingYet
  <2>5. /\ TickAlive'
        /\ TickInTime'
    BY <1>3, <2>1, <2>2, KeepAliveAssumption DEF PostFirstTick, TickAlive, TickInTime
  <2>6. QED
    BY <1>3, <2>1, <2>3, <2>4, <2>5 DEF PostFirstTick, NothingYet, TickingIsACall, ArmAtOnce, ArmedDeadline
<1>4. CASE RunTick
  BY <1>4, GoFacts, TailFacts, KeepAliveAssumption DEF RunTick, PingTypeOK, Ordered, NothingYet, TickingIsACall, TickAlive,
     TickInTime, ArmAtOnce, ArmedDeadline, PingGo, clockVars, PingThreads, PingSteps
<1>5. CASE RunShot
  <2>1. /\ where' \in [PingThreads -> PingSteps]
        /\ where'["events"] \in {"idle", "ping"}
        /\ where'["ws"] = where["ws"]
        /\ where["ws"] \notin {"start", "startTimer", "firstTick"}
        /\ ~ticking
    BY <1>5, GoFacts DEF RunShot, ShotTimerId, PingGo, PingTypeOK, NothingYet, TickingIsACall, PingThreads, PingSteps
  <2>2. /\ shots' \in Seq(0..Timeout)
        /\ Ordered(shots)'
    BY <1>5, TailFacts, KeepAliveAssumption DEF RunShot, PingTypeOK
  <2>3. UNCHANGED <<started, ticks, listening, gone, unanswered, reported, clockVars>> /\ armed' = FALSE /\ ticking' = FALSE
    BY <1>5 DEF RunShot, ShotTimerId
  <2>4. PingTypeOK'
    BY <2>1, <2>2, <2>3 DEF PingTypeOK, clockVars
  <2>5. TickAlive' /\ TickInTime'
    BY <2>1, <2>3 DEF TickAlive, TickInTime, clockVars
  <2>6. QED
    BY <2>1, <2>2, <2>3, <2>4, <2>5 DEF NothingYet, TickingIsACall, ArmAtOnce, ArmedDeadline
<1>6. CASE Ping
  <2>1. /\ where' \in [PingThreads -> PingSteps]
        /\ where'["events"] \in {"arm", "halt"}
        /\ where'["events"] = "arm" => sincePing' = 0
        /\ where'["ws"] = where["ws"]
        /\ where["ws"] \notin {"start", "startTimer", "firstTick"}
    BY <1>6, GoFacts DEF Ping, PingGo, PingTypeOK, NothingYet, PingThreads, PingSteps
  <2>2. /\ sincePing' \in {0, sincePing}
        /\ unanswered' \in {unanswered, unanswered + 1}
        /\ armed' = FALSE
        /\ UNCHANGED <<started, ticks, shots, listening, ticking, gone, reported, now, silence>>
    BY <1>6 DEF Ping
  <2>3. PingTypeOK'
    <3>1. sincePing' \in Nat /\ unanswered' \in Nat
      BY <2>2 DEF PingTypeOK
    <3>2. QED
      BY <2>1, <2>2, <3>1 DEF PingTypeOK
  <2>4. TickInTime'
    <3> SUFFICES ASSUME started PROVE TickInTime'
      BY <2>2 DEF TickInTime
    <3>1. \A i \in 1..Len(ticks) : ticks[i] \in Nat
      BY KeepAliveAssumption DEF PingTypeOK
    <3>2. sincePing' <= sincePing
      BY <2>2 DEF PingTypeOK
    <3>3. QED
      BY <2>1, <2>2, <3>1, <3>2, KeepAliveAssumption DEF TickInTime, PingTypeOK
  <2>5. QED
    BY <2>1, <2>2, <2>3, <2>4 DEF Ordered, NothingYet, TickingIsACall, TickAlive, ArmAtOnce, ArmedDeadline
<1>7. CASE ArmTimeout
  <2>1. /\ where' \in [PingThreads -> PingSteps]
        /\ where'["events"] \in {"repost", "idle"}
        /\ where'["events"] = "repost" <=> ticking
        /\ where'["ws"] = where["ws"]
        /\ where["ws"] \notin {"start", "startTimer", "firstTick"}
        /\ sincePing = 0
    BY <1>7, GoFacts DEF ArmTimeout, Return, PingGo, PingTypeOK, NothingYet, ArmAtOnce, PingThreads, PingSteps
  <2>2. UNCHANGED <<started, ticks, listening, ticking, gone, unanswered, reported, now, sincePing, silence>>
    BY <1>7 DEF ArmTimeout, clockVars
  <2>3. /\ shots' \in Seq(0..Timeout)
        /\ Ordered(shots)'
        /\ Timeout > 0 => shots' # <<>> /\ shots'[Len(shots')] = Timeout
    <3>1. CASE Timeout > 0
      <4>1. shots' = Append(shots, Timeout) /\ Timeout \in 0..Timeout
        BY <1>7, <3>1, KeepAliveAssumption DEF ArmTimeout
      <4>2. QED
        BY <4>1, AppendFacts, KeepAliveAssumption DEF PingTypeOK
    <3>2. CASE ~(Timeout > 0)
      BY <1>7, <3>2 DEF ArmTimeout, PingTypeOK
    <3>3. QED  BY <3>1, <3>2
  <2>4. /\ armed' \in BOOLEAN
        /\ ~(Timeout > 0) => armed' = armed /\ shots' = shots
    <3>1. armed' = TRUE \/ armed' = armed
      BY <1>7 DEF ArmTimeout
    <3>2. armed \in BOOLEAN
      BY DEF PingTypeOK
    <3>3. armed' \in BOOLEAN
      BY <3>1, <3>2, Zenon
    <3>4. QED
      BY <1>7, <3>3 DEF ArmTimeout
  <2>5. PingTypeOK'
    BY <2>1, <2>2, <2>3, <2>4 DEF PingTypeOK
  <2>6. ArmedDeadline'
    <3>1. CASE Timeout > 0
      BY <2>1, <2>2, <2>3, <3>1, KeepAliveAssumption DEF ArmedDeadline
    <3>2. CASE ~(Timeout > 0)
      BY <2>2, <2>4, <3>2 DEF ArmedDeadline
    <3>3. QED  BY <3>1, <3>2
  <2>7. QED
    BY <2>1, <2>2, <2>3, <2>5, <2>6 DEF NothingYet, TickingIsACall, TickAlive, TickInTime, ArmAtOnce
<1>8. CASE Halt
  BY <1>8, GoFacts DEF Halt, PingTypeOK, Ordered, NothingYet, TickingIsACall, TickAlive,
     TickInTime, ArmAtOnce, ArmedDeadline, Return, PingGo, clockVars, PingThreads, PingSteps
<1>9. CASE RepostTick
  <2>1. /\ where' \in [PingThreads -> PingSteps]
        /\ where'["events"] = "idle"
        /\ where'["ws"] = where["ws"]
        /\ where["ws"] \notin {"start", "startTimer", "firstTick"}
        /\ ticking /\ ~ticking'
    BY <1>9, GoFacts DEF RepostTick, PingGo, PingTypeOK, NothingYet, TickingIsACall, PingThreads, PingSteps
  <2>2. UNCHANGED <<started, armed, shots, listening, gone, unanswered, reported, now, sincePing, silence>>
    BY <1>9 DEF RepostTick, clockVars
  <2>3. ticks = <<>>
    BY <2>1 DEF TickAlive, PingTypeOK
  <2>4. ticks' = IF started THEN <<Interval>> ELSE <<>>
    BY <1>9, <2>3 DEF RepostTick, PostTick
  <2>5. PingTypeOK'
    <3>1. ticks' \in Seq(0..Interval)
      <4>1. <<>> \in Seq(0..Interval) /\ <<Interval>> \in Seq(0..Interval)
        BY KeepAliveAssumption
      <4>2. QED  BY <2>4, <4>1
    <3>2. ticking' = FALSE
      BY <1>9 DEF RepostTick
    <3>3. QED
      BY <2>1, <2>2, <3>1, <3>2 DEF PingTypeOK
  <2>6. TickInTime'
    BY <1>9, <2>1, <2>2, <2>4, KeepAliveAssumption DEF RepostTick, TickInTime
  <2>7. QED
    BY <2>1, <2>2, <2>4, <2>5, <2>6 DEF Ordered, NothingYet, TickingIsACall, TickAlive, ArmAtOnce, ArmedDeadline
<1>10. CASE StopListening
  BY <1>10, GoFacts DEF StopListening, PingTypeOK, Ordered, NothingYet, TickingIsACall, TickAlive,
     TickInTime, ArmAtOnce, ArmedDeadline, PingGo, timerVars, clockVars, PingThreads, PingSteps
<1>11. CASE StopTimer
  BY <1>11, GoFacts DEF StopTimer, PingTypeOK, Ordered, NothingYet, TickingIsACall, TickAlive,
     TickInTime, ArmAtOnce, ArmedDeadline, PingGo, clockVars, PingThreads, PingSteps
<1>12. CASE CancelShot
  BY <1>12, GoFacts DEF CancelShot, PingTypeOK, Ordered, NothingYet, TickingIsACall, TickAlive,
     TickInTime, ArmAtOnce, ArmedDeadline, PingGo, clockVars, PingThreads, PingSteps
<1>13. CASE PongReceived
  BY <1>13, KeepAliveAssumption DEF PongReceived, PingTypeOK, Ordered, NothingYet, TickingIsACall, TickAlive,
     TickInTime, ArmAtOnce, ArmedDeadline
<1>14. CASE Disconnect
  BY <1>14, GoFacts DEF Disconnect, PingTypeOK, Ordered, NothingYet, TickingIsACall, TickAlive,
     TickInTime, ArmAtOnce, ArmedDeadline, PingGo, timerVars, clockVars, PingThreads, PingSteps
<1>15. CASE Elapse
  <2> DEFINE cap == Interval + Timeout + 1
  <2>1. /\ UNCHANGED <<started, armed, listening, where, ticking, gone, unanswered, reported>>
        /\ where["events"] = "idle"
        /\ ticks' = OneLess(ticks)
        /\ shots' = OneLess(shots)
        /\ sincePing' = UpTo(cap, sincePing + 1)
    BY <1>15 DEF Elapse
  <2>2. Ordered(ticks)
    <3>1. Len(ticks) \in Nat /\ \A i \in 1..Len(ticks) : ticks[i] \in 0..Interval
      BY KeepAliveAssumption DEF PingTypeOK
    <3>2. Len(ticks) <= 1
      BY <3>1 DEF TickAlive
    <3>3. QED
      BY <3>1, <3>2, KeepAliveAssumption DEF Ordered
  <2>3. /\ ticks' \in Seq(0..Interval)
        /\ Len(ticks') = Len(ticks)
        /\ Len(ticks) \in Nat
        /\ \A i \in 1..Len(ticks) : ticks'[i] = ticks[i] - 1 /\ ticks[i] \in 1..Interval
        /\ ticks = <<>> => ticks' = <<>>
    BY <1>15, <2>1, <2>2, OneLessFacts, KeepAliveAssumption DEF Elapse, PingTypeOK
  <2>4. /\ shots' \in Seq(0..Timeout)
        /\ Ordered(shots)'
        /\ Len(shots') = Len(shots)
        /\ Len(shots) \in Nat
        /\ \A i \in 1..Len(shots) : shots'[i] = shots[i] - 1 /\ shots[i] \in 1..Timeout
        /\ shots = <<>> => shots' = <<>>
        /\ shots # <<>> => shots' # <<>>
    BY <1>15, <2>1, OneLessFacts, KeepAliveAssumption DEF Elapse, PingTypeOK
  <2>5. PingTypeOK'
    <3>1. now' \in Nat /\ sincePing' \in Nat /\ silence' \in Nat
      BY <1>15, KeepAliveAssumption DEF Elapse, UpTo, PingTypeOK
    <3>2. QED
      BY <2>1, <2>3, <2>4, <3>1 DEF PingTypeOK
  <2>6. TickAlive'
    BY <2>1, <2>3 DEF TickAlive
  <2>7. TickInTime'
    <3> SUFFICES ASSUME started, where["ws"] \notin {"start", "startTimer", "firstTick"}
                 PROVE  /\ sincePing' <= Interval
                        /\ \A i \in 1..Len(ticks') : sincePing' + ticks'[i] <= Interval
      BY <2>1 DEF TickInTime
    <3>1. Len(ticks) = 1
      BY <1>15, <2>3 DEF Elapse, TickAlive, TickingIsACall
    <3>2. /\ sincePing + ticks[1] <= Interval
          /\ ticks[1] \in 1..Interval
          /\ ticks'[1] = ticks[1] - 1
      BY <2>3, <3>1 DEF TickInTime
    <3>3. sincePing' = sincePing + 1
      BY <2>1, <3>2, KeepAliveAssumption DEF UpTo, PingTypeOK
    <3>4. QED
      BY <2>3, <3>1, <3>2, <3>3, KeepAliveAssumption DEF PingTypeOK
  <2>8. ArmedDeadline'
    <3> SUFFICES ASSUME armed PROVE shots' # <<>> /\ shots'[Len(shots')] + sincePing' = Timeout
      BY <2>1 DEF ArmedDeadline
    <3>1. /\ shots # <<>>
          /\ shots[Len(shots)] + sincePing = Timeout
      BY DEF ArmedDeadline
    <3>2. Len(shots) \in 1..Len(shots)
      BY <2>4, <3>1 DEF PingTypeOK
    <3>3. /\ shots[Len(shots)] \in 1..Timeout
          /\ shots'[Len(shots')] = shots[Len(shots)] - 1
          /\ sincePing \in Nat
      BY <2>4, <3>2 DEF PingTypeOK
    <3>4. sincePing' = sincePing + 1
      BY <2>1, <3>1, <3>3, KeepAliveAssumption DEF UpTo
    <3>5. \A d \in 1..Timeout : d + sincePing = Timeout => d - 1 + (sincePing + 1) = Timeout
      BY <3>3, KeepAliveAssumption
    <3>6. shots' # <<>>
      BY <2>4, <3>1
    <3>7. QED
      BY <3>1, <3>3, <3>4, <3>5, <3>6
  <2>9. QED
    BY <1>15, <2>1, <2>3, <2>4, <2>5, <2>6, <2>7, <2>8 DEF Elapse, NothingYet, TickingIsACall, ArmAtOnce
<1>16. CASE UNCHANGED pingVars
  BY <1>16 DEF pingVars, PingTypeOK, Ordered, NothingYet, TickingIsACall,
     TickAlive, TickInTime, ArmAtOnce, ArmedDeadline
<1>17. QED
  BY <1>1, <1>2, <1>3, <1>4, <1>5, <1>6, <1>7, <1>8, <1>9, <1>10, <1>11, <1>12, <1>13, <1>14, <1>15, <1>16 DEF PingNext, StartStep, EventsStep, StopStep

LEMMA PingInvariant == PingSpec => []PingInv
  BY PingInitInv, PingStepInv, PTL DEF PingSpec

(***************************************************************************)
(* The properties of the specification.                                    *)
(***************************************************************************)

\* Every variable keeps its type; in particular no tick is ever posted for
\* later than Interval, no shot for later than Timeout.
THEOREM PingTypeCorrect == PingSpec => []PingTypeOK
<1>1. PingInv => PingTypeOK
  BY DEF PingInv
<1>2. QED
  BY <1>1, PingInvariant, PTL

\* However start and stop interleave the timer never has two chains of ticks
\* (MediaTimerImpl::start, nextTick, post), and while the keep-alive runs its one
\* chain requests a ping in every Interval.
THEOREM PingsRegular == PingSpec => []PingsAreRegular
<1>1. PingInv => OneTickChain
  <2> SUFFICES ASSUME PingInv PROVE OneTickChain
    OBVIOUS
  <2>1. Len(ticks) \in Nat
    BY DEF PingInv, PingTypeOK
  <2>2. CASE where["ws"] = "firstTick"
    <3>1. Len(ticks) = 0 /\ ~ticking
      BY <2>2 DEF PingInv, NothingYet, TickingIsACall
    <3>2. QED  BY <3>1 DEF OneTickChain, TicksUnderWay
  <2>3. CASE where["ws"] # "firstTick"
    BY <2>1, <2>3 DEF PingInv, TickAlive, OneTickChain, TicksUnderWay
  <2>4. QED  BY <2>2, <2>3
<1>2. PingInv => PingsKeepComing
  BY DEF PingInv, PingTypeOK, TickAlive, TickInTime, PingsKeepComing, TicksUnderWay
<1>3. PingInv => PingsAreRegular
  BY <1>1, <1>2 DEF PingsAreRegular
<1>4. QED
  BY <1>3, PingInvariant, PTL

\* An armed timeout keeps a shot for exactly Timeout after its ping, however
\* many shots of earlier pings are queued.
THEOREM TimeoutIsKept == PingSpec => []ArmedDeadline
<1>1. PingInv => ArmedDeadline
  BY DEF PingInv
<1>2. QED
  BY <1>1, PingInvariant, PTL
=============================================================================
