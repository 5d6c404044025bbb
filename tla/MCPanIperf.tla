----------------------------- MODULE MCPanIperf -----------------------------
(***************************************************************************)
(* Instances of PanIperf for TLC: two phones, one of them known from       *)
(* before, a small mailbox, and a budget of two attempts or of none.       *)
(***************************************************************************)
EXTENDS PanIperf

MCTries == {0}
=============================================================================
