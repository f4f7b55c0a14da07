------------------------------ MODULE MCClient ------------------------------
(***************************************************************************)
(* Four parts of a client that share no state, explored in one run: one of *)
(* them moves and the others rest, so that the states are the sum of       *)
(* theirs, not the product.                                                *)
(***************************************************************************)
EXTENDS LocalTracks, DataMessages, Statistics, FrameFormat, TLC

CONSTANTS d1, d2

\* An IV that must be escaped and one that need not; both end a frame differently than Sif.
IvChoices == {<<0, 0, 0, 1>>, <<1, 38, 1, 1>>}
SifChoice == <<9, 9>>

VARIABLE part  \* the one that moves

clientVars == <<localVars, dataVars, statsVars, frame, part>>

ClientInit ==
  /\ part \in {"tracks", "data", "statistics", "frame"}
  /\ LocalInit /\ DataInit /\ StatsInit /\ FrameInit

Tracks == part = "tracks" /\ LocalNext /\ UNCHANGED <<dataVars, statsVars, frame, part>>
Data == part = "data" /\ DataNext /\ UNCHANGED <<localVars, statsVars, frame, part>>
Reading == part = "statistics" /\ StatsNext /\ UNCHANGED <<localVars, dataVars, frame, part>>
Framing == part = "frame" /\ FrameNext /\ UNCHANGED <<localVars, dataVars, statsVars, part>>

ClientNext == Tracks \/ Data \/ Reading \/ Framing

ClientSpec == ClientInit /\ [][ClientNext]_clientVars

\* The types of the parts that move.
ClientTypeOK == LocalTypeOK /\ DataTypeOK /\ StatsTypeOK

\* The devices are alike, and of the properties one is temporal: it is not about devices.
AlikeDevices == Permutations(Devices)
=============================================================================
