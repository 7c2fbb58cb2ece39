---------------------------- MODULE MCPrRegistry ----------------------------
(* Small instances of PrRegistry for TLC. *)
EXTENDS PrRegistry, TLC

CONSTANTS d1, d2, d3, r1, r2, r3

\* Three pushes, each with a workflow run of its own.
ThreeRuns == d1 :> r1 @@ d2 :> r2 @@ d3 :> r3

TwoRuns == d1 :> r1 @@ d2 :> r2
=============================================================================
