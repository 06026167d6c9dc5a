----------------------------- MODULE MCH2Bridge -----------------------------
(***************************************************************************)
(* Small instances of H2Bridge.  Frame sizes are 2 (MinFrame) to 5, where  *)
(* a block may have 4, and padding takes 1.                                *)
(***************************************************************************)
EXTENDS H2Bridge

\* A client that sends blocks to an upstream that changes its mind.
RaceBudget == [client |-> 2, upstream |-> 2]
RaceDoes == [client |-> {"headers"}, upstream |-> {"settings"}]

\* Blocks in fragments, other frames and faults.
OrderBudget == [client |-> 3, upstream |-> 1]
OrderDoes == [client |-> {"headers", "other", "close"}, upstream |-> {"settings"}]

\* Both directions, and their ends.
LiveBudget == [client |-> 2, upstream |-> 1]
LiveDoes == [client |-> {"headers", "close"}, upstream |-> {"headers", "settings", "close"}]

ManyFaults == { Frame("push", 1), Settings(0, MinFrame - 1), Headers(0, 0, 0, TRUE, 0),
                Continuation(0, 0, TRUE), Other(1, 0) }
NoFaults == {}
Resizes == {-1, 2}
=============================================================================
