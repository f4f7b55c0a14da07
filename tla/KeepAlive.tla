------------------------------ MODULE KeepAlive ------------------------------
(***************************************************************************)
(* The keep-alive of a session: PingPongKitImpl on top of MediaTimerImpl.  *)
(*                                                                         *)
(* One timer serves two purposes. It ticks every Interval, and every tick  *)
(* requests a ping; after a ping a single shot is due Timeout later, and a *)
(* pong takes its id out of the timer's set before that. Time is discrete: *)
(* it advances when no task of the events queue is due.                    *)
(*                                                                         *)
(* Threads: "ws" starts the keep-alive and receives pongs, "app" is the    *)
(* one that closes the transport manager, "events" runs the timer's tasks. *)
(***************************************************************************)
EXTENDS Naturals, Sequences

CONSTANTS
  Interval,   \* _pingInterval
  Timeout,    \* _pingTimeout, 0 for none
  Horizon     \* bound: how long a session is followed

ASSUME KeepAliveAssumption ==
  /\ Interval \in Nat
  /\ Timeout \in Nat
  /\ Horizon \in Nat

VARIABLES
  started,     \* MediaTimerImpl::_started
  armed,       \* _pingTimeoutTimerId is in _singleShotIds
  ticks,       \* time left of each delayed nextTick task, oldest first
  shots,       \* time left of each delayed single shot, oldest first
  listening,   \* PingPongKitImpl::_listener is set
  where,       \* where each thread is in the code
  ticking,     \* the events thread is inside nextTick
  gone,        \* the engine has given up the transport manager
  unanswered,  \* pings the server has not answered
  reported,    \* onPongTimeout has been called
  now,         \* history: time since the start, up to Horizon
  sincePing,   \* history: time since the last ping or the start
  silence      \* history: how long some ping has been unanswered

pingVars == <<started, armed, ticks, shots, listening, where, ticking, gone,
              unanswered, reported, now, sincePing, silence>>

timerVars == <<started, armed, ticks, shots>>
clockVars == <<now, sincePing, silence>>

PingThreads == {"ws", "app", "events"}

PingSteps == {"idle", "start", "startTimer", "firstTick", "ping", "arm", "halt",
              "repost", "stop", "stopTimer", "stopShot", "stopped"}

(***************************************************************************)
(* Helpers.                                                                *)
(***************************************************************************)
PingGo(t, step) == where' = [where EXCEPT ![t] = step]

UpTo(bound, n) == IF n < bound THEN n ELSE bound

\* Mutant: a shot posts a tick as well.
MutReturnAlways == "repost"

\* When a callback of the events thread returns: a tick posts the next one.
Return == IF ticking THEN "repost" ELSE "idle"

\* The id singleShot(callback, ...) hands to the callback: that of the timer.
ShotTimerId == "interval"

\* MediaTimerImpl::post does nothing for a timer that is not started.
PostTick(delay) == ticks' = IF started THEN Append(ticks, delay) ELSE ticks

(***************************************************************************)
(* start(), on the WebSocket thread, at the end of createTransportManager. *)
(***************************************************************************)
StartListening ==
  /\ where["ws"] = "start"
  /\ IF Interval > 0
       THEN /\ listening' = TRUE
            /\ PingGo("ws", "startTimer")
       ELSE /\ UNCHANGED listening
            /\ PingGo("ws", "idle")
  /\ UNCHANGED <<timerVars, ticking, gone, unanswered, reported, clockVars>>

\* MediaTimerImpl::start: only the call that finds the timer stopped posts.
StartTimer ==
  /\ where["ws"] = "startTimer"
  /\ started' = TRUE
  /\ PingGo("ws", IF started THEN "idle" ELSE "firstTick")
  /\ UNCHANGED <<armed, ticks, shots, listening, ticking, gone, unanswered,
                 reported, clockVars>>

PostFirstTick ==
  /\ where["ws"] = "firstTick"
  /\ PostTick(0)
  /\ PingGo("ws", "idle")
  /\ sincePing' = 0
  /\ UNCHANGED <<started, armed, shots, listening, ticking, gone, unanswered,
                 reported, now, silence>>

\* onPong and notifyThatPongReceived; a pong for a manager the engine has given
\* up is ignored.
PongReceived ==
  /\ where["ws"] = "idle"
  /\ unanswered > 0
  /\ unanswered' = unanswered - 1
  /\ silence' = 0
  /\ armed' = (armed /\ gone)
  /\ UNCHANGED <<started, ticks, shots, listening, where, ticking, gone, reported,
                 now, sincePing>>

(***************************************************************************)
(* The events queue: tasks of the timer and PingPongKitImpl::onTimeout.    *)
(***************************************************************************)
RunTick ==
  /\ where["events"] = "idle"
  /\ ticks # <<>>
  /\ Head(ticks) = 0
  /\ ticks' = Tail(ticks)
  /\ ticking' = started
  /\ PingGo("events", IF started THEN "ping" ELSE "idle")
  /\ UNCHANGED <<started, armed, shots, listening, gone, unanswered, reported, clockVars>>

\* A shot calls onTimeout if it finds its id, which may be that of a later shot.
RunShot ==
  /\ where["events"] = "idle"
  /\ shots # <<>>
  /\ Head(shots) = 0
  /\ shots' = Tail(shots)
  /\ armed' = FALSE
  /\ ticking' = FALSE
  /\ IF armed /\ ShotTimerId = "timeout"
       THEN /\ started' = FALSE
            /\ reported' = (reported \/ listening)
            /\ UNCHANGED where
       ELSE /\ PingGo("events", IF armed THEN "ping" ELSE "idle")
            /\ UNCHANGED <<started, reported>>
  /\ UNCHANGED <<ticks, listening, gone, unanswered, clockVars>>

\* onTimeout: the pending shot is cancelled and a ping requested. It fails
\* without a listener, once the engine is closed, and when sending fails.
Ping ==
  /\ where["events"] = "ping"
  /\ armed' = FALSE
  /\ \/ /\ listening
        /\ ~gone
        /\ unanswered' = unanswered + 1
        /\ sincePing' = 0
        /\ PingGo("events", "arm")
     \/ /\ PingGo("events", "halt")
        /\ UNCHANGED <<unanswered, sincePing>>
  /\ UNCHANGED <<started, ticks, shots, listening, ticking, gone, reported, now, silence>>

\* Mutant: a shot that is still queued is used again.
MutArmTimeout ==
  /\ where["events"] = "arm"
  /\ IF Timeout > 0
       THEN /\ armed' = TRUE
            /\ shots' = IF shots = <<>> THEN <<Timeout>> ELSE shots
       ELSE UNCHANGED <<armed, shots>>
  /\ PingGo("events", Return)
  /\ UNCHANGED <<started, ticks, listening, ticking, gone, unanswered, reported, clockVars>>

\* The shot is armed after the ping has been sent.
ArmTimeout ==
  /\ where["events"] = "arm"
  /\ IF Timeout > 0
       THEN /\ armed' = TRUE
            /\ shots' = Append(shots, Timeout)
       ELSE UNCHANGED <<armed, shots>>
  /\ PingGo("events", Return)
  /\ UNCHANGED <<started, ticks, listening, ticking, gone, unanswered, reported, clockVars>>

\* Mutant: the timer goes on although nobody listens.
MutHalt ==
  /\ where["events"] = "halt"
  /\ PingGo("events", Return)
  /\ UNCHANGED <<timerVars, listening, ticking, gone, unanswered, reported, clockVars>>

\* A ping that could not be sent stops the timer.
Halt ==
  /\ where["events"] = "halt"
  /\ started' = FALSE
  /\ PingGo("events", Return)
  /\ UNCHANGED <<armed, ticks, shots, listening, ticking, gone, unanswered,
                 reported, clockVars>>

\* Mutant: the next tick is posted one interval late.
MutRepostLate ==
  /\ where["events"] = "repost"
  /\ PostTick(2 * Interval)
  /\ ticking' = FALSE
  /\ PingGo("events", "idle")
  /\ UNCHANGED <<started, armed, shots, listening, gone, unanswered, reported, clockVars>>

RepostTick ==
  /\ where["events"] = "repost"
  /\ PostTick(Interval)
  /\ ticking' = FALSE
  /\ PingGo("events", "idle")
  /\ UNCHANGED <<started, armed, shots, listening, gone, unanswered, reported, clockVars>>

(***************************************************************************)
(* disconnect() gives the manager up, then close() stops the keep-alive.   *)
(***************************************************************************)
Disconnect ==
  /\ where["app"] = "idle"
  /\ gone' = TRUE
  /\ PingGo("app", "stop")
  /\ UNCHANGED <<timerVars, listening, ticking, unanswered, reported, clockVars>>

\* stop() returns early when nobody listens.
StopListening ==
  /\ where["app"] = "stop"
  /\ listening' = FALSE
  /\ PingGo("app", IF listening THEN "stopTimer" ELSE "stopped")
  /\ UNCHANGED <<timerVars, ticking, gone, unanswered, reported, clockVars>>

StopTimer ==
  /\ where["app"] = "stopTimer"
  /\ started' = FALSE
  /\ PingGo("app", "stopShot")
  /\ UNCHANGED <<armed, ticks, shots, listening, ticking, gone, unanswered,
                 reported, clockVars>>

CancelShot ==
  /\ where["app"] = "stopShot"
  /\ armed' = FALSE
  /\ PingGo("app", "stopped")
  /\ UNCHANGED <<started, ticks, shots, listening, ticking, gone, unanswered,
                 reported, clockVars>>

(***************************************************************************)
(* Time. The events queue runs what is due before more time passes.        *)
(***************************************************************************)
Due(tasks) == tasks # <<>> /\ Head(tasks) = 0

OneLess(tasks) == [i \in 1..Len(tasks) |-> tasks[i] - 1]

Elapse ==
  /\ where["events"] = "idle"
  /\ ~Due(ticks)
  /\ ~Due(shots)
  /\ now < Horizon \/ gone
  /\ ticks' = OneLess(ticks)
  /\ shots' = OneLess(shots)
  /\ now' = UpTo(Horizon, now + 1)
  /\ sincePing' = UpTo(Interval + Timeout + 1, sincePing + 1)
  /\ silence' = IF unanswered > 0 THEN UpTo(Horizon, silence + 1) ELSE 0
  /\ UNCHANGED <<started, armed, listening, where, ticking, gone, unanswered, reported>>

(***************************************************************************)
(* Specification.                                                          *)
(***************************************************************************)
PingInit ==
  /\ started = FALSE
  /\ armed = FALSE
  /\ ticks = <<>>
  /\ shots = <<>>
  /\ listening = FALSE
  /\ where = [t \in PingThreads |-> IF t = "ws" THEN "start" ELSE "idle"]
  /\ ticking = FALSE
  /\ gone = FALSE
  /\ unanswered = 0
  /\ reported = FALSE
  /\ now = 0
  /\ sincePing = 0
  /\ silence = 0

StartStep  == StartListening \/ StartTimer \/ PostFirstTick
EventsStep == RunTick \/ RunShot \/ Ping \/ ArmTimeout \/ Halt \/ RepostTick
StopStep   == StopListening \/ StopTimer \/ CancelShot

PingNext == StartStep \/ EventsStep \/ StopStep \/ PongReceived \/ Disconnect \/ Elapse

PingSpec == PingInit /\ [][PingNext]_pingVars

(***************************************************************************)
(* Properties.                                                             *)
(***************************************************************************)
PingTypeOK ==
  /\ started \in BOOLEAN
  /\ armed \in BOOLEAN
  /\ ticks \in Seq(0..Interval)
  /\ shots \in Seq(0..Timeout)
  /\ listening \in BOOLEAN
  /\ where \in [PingThreads -> PingSteps]
  /\ ticking \in BOOLEAN
  /\ gone \in BOOLEAN
  /\ unanswered \in Nat
  /\ reported \in BOOLEAN
  /\ now \in Nat
  /\ sincePing \in Nat
  /\ silence \in Nat

\* Whoever is going to post a tick counts as one.
TicksUnderWay ==
  Len(ticks) + (IF ticking THEN 1 ELSE 0) + (IF where["ws"] = "firstTick" THEN 1 ELSE 0)

\* However starting, stopping, ticks and shots interleave, the timer has one
\* chain of ticks: pings are never requested at twice the rate (start,
\* nextTick, post).
OneTickChain == TicksUnderWay <= 1

\* While the keep-alive runs, no more than Interval goes by without a ping, and
\* the tick that sends the next one is queued (nextTick, onTimeout).
PingsKeepComing ==
  started /\ listening /\ where["ws"] = "idle" =>
    /\ TicksUnderWay = 1
    /\ sincePing <= Interval

\* Together: while it runs the keep-alive has exactly one chain of ticks, and it brings pings.
PingsAreRegular == OneTickChain /\ PingsKeepComing

\* An armed timeout has a shot that runs exactly Timeout after the last ping,
\* whatever shots earlier pings have left in the queue.
ArmedDeadline ==
  armed => /\ shots # <<>>
           /\ shots[Len(shots)] + sincePing = Timeout

\* Once the manager has been given up and its keep-alive stopped, the timer ends up
\* without tasks for good, also when stop() overtakes start().
StopDrains == (where["app"] = "stopped") ~> [](ticks = <<>> /\ shots = <<>>)

\* LiveKitError has ServerPingTimedOut and onPong says "Clear timeout timer": a
\* server that leaves a ping unanswered for longer than a timeout and the
\* interval to the next ping is reported, as long as the keep-alive runs.
SilenceIsReported ==
  started /\ ~gone /\ Timeout > 0 => silence <= Interval + Timeout \/ reported
=============================================================================
