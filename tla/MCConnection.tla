---------------------------- MODULE MCConnection ----------------------------
(***************************************************************************)
(* The connection of a client in one run: how it comes and goes (Session)  *)
(* or what passes through one that is up (Subscription). One of them moves *)
(* and the other rests, so that the states are the sum of theirs.          *)
(***************************************************************************)
EXTENDS Session, Subscription

VARIABLE part  \* the one that moves

allVars == <<vars, subVars, part>>

ConnectionInit == part \in {"session", "subscription"} /\ Init /\ SubInit

Comes == part = "session" /\ Next /\ UNCHANGED <<subVars, part>>
Passes == part = "subscription" /\ SubNext /\ UNCHANGED <<vars, part>>

\* Subscription stops when the manager is gone and the queues are empty; nothing else may.
Over ==
  /\ part = "subscription"
  /\ ~Lives /\ reading["signaling"] = "none"
  /\ inbox = <<>> /\ sig = <<>> /\ posted = <<>>
  /\ UNCHANGED allVars

ConnectionNext == Comes \/ Passes \/ Over

ConnectionSpec == ConnectionInit /\ [][ConnectionNext]_allVars

\* The types of both.
ConnectionTypeOK == TypeOK /\ SubTypeOK
=============================================================================
