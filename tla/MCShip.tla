------------------------------- MODULE MCShip -------------------------------
(* A small instance of Ship for TLC: two projects, the name of one the       *)
(* beginning of the other's, and two commits.                                *)
EXTENDS Ship, TLC

CONSTANTS sk, skyworth, c1, c2, x, y

MCPrefixed == [p \in Projects |-> IF p = sk THEN {sk, skyworth} ELSE {p}]

\* The second commit changes the plugin of sk and drops its leg.
MCTree ==
  [c \in Commits |-> [q \in StagedPaths |->
     CASE q = <<sk, "plugin">> -> (IF c = c1 THEN x ELSE y)
       [] q = <<sk, "leg">> -> (IF c = c1 THEN x ELSE None)
       [] OTHER -> IF q[2] = "plugin" THEN x ELSE None]]

MCOperators == Permutations(Operators)

MCRuntime == [c \in Commits |-> c]
=============================================================================
