----------------------------- MODULE LossyFifo -----------------------------
(***************************************************************************)
(* What one may rely on of either direction of the bridge: packets may be  *)
(* lost, but those that arrive were published, and arrive once and in the  *)
(* order in which they were. Packets are named by their turn. The names    *)
(* are those of the downlink, whose receiver is the ground.                *)
(***************************************************************************)
EXTENDS Naturals, Sequences

VARIABLES
  published,  \* number of packets published on the software bus
  received    \* the packets clients received, in order

Init == published = 0 /\ received = <<>>

Increasing(s) == \A i, j \in 1 .. Len(s) : i < j => s[i] < s[j]

Publish == published' = published + 1 /\ UNCHANGED received

\* A frame arrives: one packet or several.
Arrive ==
  /\ Len(received') > Len(received)
  /\ SubSeq(received', 1, Len(received)) = received
  /\ received' \in Seq(1 .. published)
  /\ Increasing(received')
  /\ UNCHANGED published

Next == Publish \/ Arrive

fvars == <<published, received>>

Spec == Init /\ [][Next]_fvars
-----------------------------------------------------------------------------
\* What follows for either end of such a channel. At any time, what has arrived
\* was published before, none of it twice or out of order.
Promises == received \in Seq(1 .. published) /\ Increasing(received)

\* The packets that one of a later turn has overtaken.
PassedOver ==
  {t \in 1 .. published : /\ \A i \in 1 .. Len(received) : received[i] # t
                         /\ \E i \in 1 .. Len(received) : t < received[i]}

\* What has arrived stays, and what was passed over never arrives: the
\* receiver may take a gap for a loss at once, without waiting.
NothingComesLate ==
  [][/\ \A i \in 1 .. Len(received) : received'[i] = received[i]
     /\ PassedOver \subseteq PassedOver']_fvars
=============================================================================
