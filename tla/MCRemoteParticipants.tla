------------------------ MODULE MCRemoteParticipants ------------------------
(***************************************************************************)
(* Small instances of RemoteParticipants: two participants with a track    *)
(* each, two connections, two calls in the queue of the events thread.     *)
(***************************************************************************)
EXTENDS RemoteParticipants, TLC

CONSTANTS p1, p2, t1, t2

OwnTrack == t1 :> p1

OwnTracks == t1 :> p1 @@ t2 :> p2
=============================================================================
