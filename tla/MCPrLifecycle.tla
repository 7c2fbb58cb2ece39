---------------------------- MODULE MCPrLifecycle ----------------------------
(* Small instances of PrLifecycle for TLC. *)
EXTENDS PrLifecycle, TLC

CONSTANTS d1, d2, d3, r1, r2, r3

\* Two pushes, each with a workflow run of its own.
TwoRuns == d1 :> r1 @@ d2 :> r2

\* Three pushes.
ThreeRuns == d1 :> r1 @@ d2 :> r2 @@ d3 :> r3

\* A push, a re-run of it, and a later push.
RerunAndPush == d1 :> r1 @@ d2 :> r1 @@ d3 :> r2
=============================================================================
