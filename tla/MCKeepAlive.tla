---------------------------- MODULE MCKeepAlive ----------------------------
(***************************************************************************)
(* KeepAlive for TLC. The intervals are small numbers with the relation    *)
(* that matters between them; Horizon bounds how long a session lasts.     *)
(***************************************************************************)
EXTENDS KeepAlive
=============================================================================
