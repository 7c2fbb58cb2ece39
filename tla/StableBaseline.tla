--------------------------- MODULE StableBaseline ---------------------------
(***************************************************************************)
(* The stable baseline of one results_path: `baseline promote' writes      *)
(* stable_baseline.json from a snapshot that passed, and every later leg   *)
(* is scored against the snapshot it names.  The snapshots themselves are  *)
(* kept and pruned by the coordinators of ResultsPointer, which know       *)
(* current.json only.                                                      *)
(***************************************************************************)
EXTENDS ResultsPointer

CONSTANT MaxPromotions   \* bound: promotions begun

ASSUME PromotionsAssumption == MaxPromotions \in Nat

VARIABLES
  stable,   \* the run stable_baseline.json names
  promo,    \* the promotion: where it is and the run it promotes
  begun,    \* promotions begun
  base      \* the baseline of each leg: what it has read so far

baselineVars == <<stable, promo, begun, base>>
allVars == <<vars, baselineVars>>

NoBase == [at |-> "record", record |-> NoRun, again |-> NoRun, score |-> NoRun]
NoPromo == [at |-> "idle", run |-> NoRun]

BaselineTypeOK ==
  /\ TypeOK
  /\ stable \in Pointers
  /\ promo \in [at : {"idle", "read", "validate", "write"}, run : Pointers]
  /\ begun \in 0 .. MaxPromotions
  /\ base \in [Runs -> [at : {"record", "again", "score", "ready"},
                        record : Pointers, again : Pointers, score : Pointers]]

BaselineInit ==
  /\ Init
  /\ stable = NoRun /\ promo = NoPromo /\ begun = 0
  /\ base = [r \in Runs |-> NoBase]

-----------------------------------------------------------------------------
(* baseline promote, at any time; any call of it may fail                  *)

\* With or without --run-id; nobody names a run that is still under way.
PromoteBegins ==
  /\ promo.at = "idle" /\ begun < MaxPromotions
  /\ begun' = begun + 1
  /\ \E r \in {s \in Runs : Over(s)} \cup {NoRun} : promo' = [at |-> "read", run |-> r]
  /\ UNCHANGED <<vars, stable, base>>

\* current.json has to be there; its last_passing is the run nobody named.
PromoteReads ==
  /\ promo.at = "read"
  /\ LET chosen == IF promo.run = NoRun THEN pointer.lastPassing ELSE promo.run
     IN  promo' = IF pointer.latest = NoRun \/ chosen = NoRun THEN NoPromo
                  ELSE [at |-> "validate", run |-> chosen]
  /\ UNCHANGED <<vars, stable, begun, base>>

\* Mutant of Promotable: any snapshot will do.
PromotableIfThere(s) == s # "none"

\* _validate_promotable_snapshot: pass. (Passing with a warning is a failing
\* call here.)
Promotable(s) == s = "pass"

PromoteValidates ==
  /\ promo.at = "validate"
  /\ promo' = IF Promotable(snapshot[promo.run]) THEN [promo EXCEPT !.at = "write"] ELSE NoPromo
  /\ UNCHANGED <<vars, stable, begun, base>>

PromoteWrites ==
  /\ promo.at = "write"
  /\ stable' = promo.run
  /\ promo' = NoPromo
  /\ UNCHANGED <<vars, begun, base>>

PromoteFails ==
  /\ promo.at # "idle"
  /\ promo' = NoPromo
  /\ UNCHANGED <<vars, stable, begun, base>>

-----------------------------------------------------------------------------
(* resolve_leg_baseline_context: the record decides the mode, is read once *)
(* more, and the snapshot it names gives the score.                        *)

LegReads(r, next) ==
  /\ task[r] = "leg"
  /\ base' = [base EXCEPT ![r] = next]
  /\ UNCHANGED <<vars, stable, promo, begun>>

LoadRecord(r) ==
  /\ base[r].at = "record"
  /\ LegReads(r, [base[r] EXCEPT !.at = "again", !.record = stable])

LoadRecordAgain(r) ==
  /\ base[r].at = "again"
  /\ LegReads(r, [base[r] EXCEPT !.at = "score", !.again = stable])

\* No record or no latest.json: no baseline, whatever the mode.
LoadScore(r) ==
  /\ base[r].at = "score"
  /\ LET s == base[r].again
     IN  LegReads(r, [base[r] EXCEPT !.at = "ready",
                       !.score = IF s # NoRun /\ snapshot[s] # "none" THEN s ELSE NoRun])

LegScored(r) ==
  /\ base[r].at = "ready"
  /\ WriteSnapshot(r)
  /\ base' = [base EXCEPT ![r] = NoBase]
  /\ UNCHANGED <<stable, promo, begun>>

LegDies(r) ==
  /\ TaskDies(r)
  /\ base' = [base EXCEPT ![r] = NoBase]
  /\ UNCHANGED <<stable, promo, begun>>

-----------------------------------------------------------------------------

PipelineStep(r) ==
  /\ \/ TaskStarts(r) \/ WriteSummary(r) \/ TaskEnds(r) \/ Coordinator(r) \/ CoordDies(r) \/ Rerun(r)
  /\ UNCHANGED baselineVars

BaselineNext ==
  \/ PromoteBegins \/ PromoteReads \/ PromoteValidates \/ PromoteWrites \/ PromoteFails
  \/ \E r \in Runs :
       \/ LoadRecord(r) \/ LoadRecordAgain(r) \/ LoadScore(r) \/ LegScored(r) \/ LegDies(r)
       \/ PipelineStep(r)

BaselineSpec == BaselineInit /\ [][BaselineNext]_allVars

-----------------------------------------------------------------------------
(* Properties                                                              *)

\* A leg is never scored against a result that did not pass, whenever the
\* promotion happens, as long as the promoted run is not run again.
BaselineIsPassing ==
  \A r \in Runs :
    base[r].at = "ready" /\ NotRerun(base[r].score) => snapshot[base[r].score] = "pass"

\* A leg that found a stable baseline is scored against it: to be scored
\* without one is for the first run only. (src/runtime/github/presentation.py:33.)
FirstRunHasNoBaseline ==
  \A r \in Runs : base[r].at = "ready" /\ base[r].score = NoRun => base[r].record = NoRun
=============================================================================
