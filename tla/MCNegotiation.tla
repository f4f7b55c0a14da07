---------------------------- MODULE MCNegotiation ----------------------------
(***************************************************************************)
(* Small instances of Negotiation. Each track is published and withdrawn   *)
(* at most once, which bounds the queues, the shots and the offers: no     *)
(* other bound is needed.                                                  *)
(***************************************************************************)
EXTENDS Negotiation, TLC

Symmetry == Permutations(Tracks)

NoFailures == {}

AllFailures == {"dataChannel", "track", "removeTrack", "createOffer", "setLocal",
                "serialize", "send", "parse", "connection"}

PeerFailures == AllFailures \ {"dataChannel"}
=============================================================================
