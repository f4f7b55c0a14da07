----------------------------- MODULE MCSession -----------------------------
(***************************************************************************)
(* What runs as long as a session does, and what ends it: the connection   *)
(* (Session), or the keep-alive of one that is up (KeepAlive). One of them *)
(* moves and the other rests, each under its own fairness.                 *)
(***************************************************************************)
EXTENDS Session, KeepAlive

VARIABLE part  \* the one that moves

lifeVars == <<vars, pingVars, part>>

LifeInit == part \in {"session", "ping"} /\ Init /\ PingInit

Comes == part = "session" /\ Next /\ UNCHANGED <<pingVars, part>>
Ticks == part = "ping" /\ PingNext /\ UNCHANGED <<vars, part>>

LifeNext == Comes \/ Ticks

\* The code keeps running and time keeps passing; the server may fall silent and the user
\* need not disconnect. Nothing of Session is under way while it rests.
PingFairness ==
  \A step \in {"start", "events", "stop", "time"} :
    WF_pingVars(/\ part = "ping"
                /\ \/ step = "start" /\ StartStep
                   \/ step = "events" /\ EventsStep
                   \/ step = "stop" /\ StopStep
                   \/ step = "time" /\ Elapse)

LifeSpec == LifeInit /\ [][LifeNext]_lifeVars /\ Fairness /\ PingFairness

\* The types of both.
LifeTypeOK == TypeOK /\ PingTypeOK
=============================================================================
