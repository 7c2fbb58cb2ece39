--------------------------- MODULE MCResultsPointer ---------------------------
(* Small instances of StableBaseline and ResultsPointer for TLC. *)
EXTENDS StableBaseline, TLC

CONSTANTS r1, r2, r3, r4

\* Run ids carry no order: every property is symmetric in them.
RunSymmetry == Permutations(Runs)
=============================================================================
