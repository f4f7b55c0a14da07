------------------------------ MODULE MCScreen ------------------------------
(***************************************************************************)
(* ScreenSource for TLC, alone: two screens and a window, two rates.       *)
(***************************************************************************)
EXTENDS ScreenSource
=============================================================================
