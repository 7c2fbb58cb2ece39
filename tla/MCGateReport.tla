---------------------------- MODULE MCGateReport ----------------------------
(* Small instances of GateReport for TLC: two manifests of two projects,   *)
(* the plugin of the first of which lets a leg with failed cases pass.     *)
EXTENDS GateReport, TLC

CONSTANTS pa, pb, la, lb

TwoManifests == <<la, lb>>
TwoProjects == (la :> pa) @@ (lb :> pb)
OwnFiles == (la :> "la") @@ (lb :> "lb")
\* Project a-b with leg c, project a with leg b-c.
OneFile == (la :> "a-b-c") @@ (lb :> "a-b-c")
FirstTolerant == (la :> TRUE) @@ (lb :> FALSE)

Flat(declared, profile) ==
  [kind |-> "flat", enabled |-> TRUE, declared |-> declared, profile |-> profile, results |-> "own"]
Standard == Flat("unset", "standard")
SamePath(a, b) == (la :> a) @@ (lb :> b)
Both(a, b) == SamePath(a, [b EXCEPT !.results = "other"])
MCStages ==
  {SamePath(Standard, Standard), Both(Standard, Standard), Both(Flat("heavy", "standard"), Standard),
   Both(Standard, Flat("unset", "odd")),
   Both([Standard EXCEPT !.enabled = FALSE], Standard),
   Both([Standard EXCEPT !.enabled = FALSE], [Standard EXCEPT !.kind = "archived"])}
PlainStages == {Both(Standard, Standard)}
\* None, or one of an earlier run out of reach of the search.
MCBefore == {<<>>, <<"other", "other", "passed">>}
MCRequests == {{}, {pa}, Malformed}
=============================================================================
