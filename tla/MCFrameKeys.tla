---------------------------- MODULE MCFrameKeys ----------------------------
(* FrameKeys for TLC: the two kinds of providers. *)
EXTENDS FrameKeys, TLC

CONSTANTS p1, p2, k1, Tolerance, Window

\* DefaultKeyProvider, and a provider of the application with the default options.
BothProviders ==
  {[shared |-> TRUE, window |-> 0, tolerance |-> Forever],
   [shared |-> FALSE, window |-> Window, tolerance |-> Tolerance]}

\* The participants are alike, and no property is temporal.
Alike == Permutations(Participants)
=============================================================================
