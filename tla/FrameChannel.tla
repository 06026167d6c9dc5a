---------------------------- MODULE FrameChannel ----------------------------
(***************************************************************************)
(* What a frame bridge promises: two channels that deliver frames in the   *)
(* order they were sent, none lost, repeated or overtaken, for as long as  *)
(* the receiver reads.  A header block counts as one frame.                *)
(***************************************************************************)
EXTENDS Sequences

CONSTANTS Peers, Items

VARIABLE flow   \* by sender: the frames sent and not received

\* A channel may start with its sender's preface.
Init == flow \in [Peers -> {<<>>} \cup {<<x>> : x \in Items}]

Send(d, x) == flow' = [flow EXCEPT ![d] = Append(@, x)]

Deliver(d) == flow[d] # <<>> /\ flow' = [flow EXCEPT ![d] = Tail(@)]

Next == \E d \in Peers : Deliver(d) \/ \E x \in Items : Send(d, x)

Spec == Init /\ [][Next]_flow
=============================================================================
