------------------------------ MODULE Exchange ------------------------------
(***************************************************************************)
(* What the data messages of a room promise to those who use them: on each *)
(* channel what arrives has been sent, once, and in the order of sending.  *)
(* A message may be lost.                                                  *)
(***************************************************************************)
EXTENDS Naturals, Sequences

CONSTANT Labels      \* the channels

VARIABLES
  published,   \* the channel of each message, in the order of sending
  received     \* the numbers of the messages that have arrived, in that order

Init == published = <<>> /\ received = <<>>

Publish(l) == published' = Append(published, l) /\ UNCHANGED received

Receive(n) ==
  /\ n \in DOMAIN published
  /\ \A i \in DOMAIN received : published[received[i]] = published[n] => received[i] < n
  /\ received' = Append(received, n) /\ UNCHANGED published

Next == (\E l \in Labels : Publish(l)) \/ (\E n \in DOMAIN published : Receive(n))

Spec == Init /\ [][Next]_<<published, received>>
=============================================================================
