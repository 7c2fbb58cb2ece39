------------------------------ MODULE Baseline ------------------------------
(***************************************************************************)
(* What current.json promises: after each coordinated run, `latest' is     *)
(* that run, and `lastPassing' is the run coordinated last among those     *)
(* that passed.                                                            *)
(***************************************************************************)
CONSTANTS Runs, NoRun

VARIABLES latest, lastPassing

Init == latest = NoRun /\ lastPassing = NoRun

Record(r, passed) ==
  /\ latest' = r
  /\ lastPassing' = IF passed THEN r ELSE lastPassing

Next == \E r \in Runs, passed \in BOOLEAN : Record(r, passed)

Spec == Init /\ [][Next]_<<latest, lastPassing>>
=============================================================================
