----------------------------- MODULE PrRegistry -----------------------------
(***************************************************************************)
(* The CI side of the pull-request lifecycle, for one pull request: every  *)
(* handoff job that dispatches a BMT run supersedes the run before it,     *)
(* starts a Google Workflows execution and claims the registry object      *)
(* triggers/pr-active/<owner>/<repo>/pr-<n>.json with a compare-and-swap   *)
(* on the object's GCS generation.                                         *)
(*                                                                         *)
(* One step is one remote call.  Several handoffs may be in flight at      *)
(* once (the CAS loop is there for that); a handoff may be killed by       *)
(* `cancel-in-progress' or by an exception between any two calls.          *)
(***************************************************************************)
EXTENDS Naturals

CONSTANTS
  Dispatches,      \* handoff invocations for the pull request
  RunIds,          \* GitHub workflow run ids
  RunOf,           \* the run id of each dispatch (a re-run keeps its id)
  Faulty,          \* the dispatches that may be killed or see calls fail
  Serial,          \* TRUE: the concurrency group serialises the handoffs
  ReadsFail,       \* TRUE: a faulty handoff may fail to download a record
  MaxCas,          \* _MAX_CAS_ATTEMPTS
  MaxCleanups,     \* bound: operator deletions of the registry object
  NoRecord,        \* the object does not exist
  NoCheck          \* github_check_run_id is null

ASSUME RunOfAssumption == RunOf \in [Dispatches -> RunIds]
ASSUME FaultyAssumption == Faulty \subseteq Dispatches
ASSUME SerialAssumption == Serial \in BOOLEAN
ASSUME ReadsFailAssumption == ReadsFail \in BOOLEAN
ASSUME MaxCasAssumption == MaxCas \in Nat \ {0}
ASSUME CleanupsAssumption == MaxCleanups \in Nat
ASSUME NoCheckAssumption == NoCheck \notin Dispatches

\* active_generation, gcp_execution_name (an execution is named after the
\* dispatch that started it, which fixes github_workflow_run_id as well) and
\* github_check_run_id (a check is named after the dispatch that created it).
Record == [gen : Nat, exec : Dispatches, check : Dispatches \cup {NoCheck}]

ASSUME NoRecordAssumption == NoRecord \notin Record

VARIABLES
  registry,    \* the registry object: NoRecord or a Record
  objgen,      \* its GCS generation, 0 when it does not exist
  changes,     \* writes and deletions of the object so far
  cleanups,    \* operator deletions so far
  exec,        \* execution of each dispatch: "none", "active", "ended", "cancelled"
  checkState,  \* GitHub check: "none", "in_progress", "completed", "cancelled"
  pc,          \* where each handoff is in WorkflowDispatchManager.invoke
  prior,       \* the record _supersede_prior_pr_run read
  payloadGen,  \* active_generation handed to the started execution
  seen,        \* expected_generation of the pending CAS write
  claimGen,    \* active_generation of the pending CAS write
  tries,       \* CAS attempts that failed
  base         \* history: changes when the claim loop was entered

registryVars == <<registry, objgen, changes>>
localVars == <<prior, payloadGen, seen, claimGen, tries, base>>
dispatchVars == <<registry, objgen, changes, cleanups, exec, checkState,
                  pc, prior, payloadGen, seen, claimGen, tries, base>>

PCs == {"idle", "supersede", "cancel", "close", "generation", "start",
        "claimGen", "claimBody", "claimWrite", "claimed", "failed"}

Ended == {"claimed", "failed"}
InFlight(d) == pc[d] \notin {"idle"} \cup Ended

NextGeneration(rec) == IF rec = NoRecord \/ rec.gen < 1 THEN 1 ELSE rec.gen + 1

TypeOK ==
  /\ registry \in {NoRecord} \cup Record
  /\ objgen \in Nat
  /\ changes \in Nat
  /\ cleanups \in Nat
  /\ exec \in [Dispatches -> {"none", "active", "ended", "cancelled"}]
  /\ checkState \in [Dispatches -> {"none", "in_progress", "completed", "cancelled"}]
  /\ pc \in [Dispatches -> PCs]
  /\ prior \in [Dispatches -> {NoRecord} \cup Record]
  /\ payloadGen \in [Dispatches -> Nat]
  /\ seen \in [Dispatches -> Nat]
  /\ claimGen \in [Dispatches -> Nat]
  /\ tries \in [Dispatches -> Nat]
  /\ base \in [Dispatches -> Nat]

Init ==
  /\ registry = NoRecord
  /\ objgen = 0
  /\ changes = 0
  /\ cleanups = 0
  /\ exec = [d \in Dispatches |-> "none"]
  /\ checkState = [d \in Dispatches |-> "none"]
  /\ pc = [d \in Dispatches |-> "idle"]
  /\ prior = [d \in Dispatches |-> NoRecord]
  /\ payloadGen = [d \in Dispatches |-> 0]
  /\ seen = [d \in Dispatches |-> 0]
  /\ claimGen = [d \in Dispatches |-> 0]
  /\ tries = [d \in Dispatches |-> 0]
  /\ base = [d \in Dispatches |-> 0]

Goto(d, label) == pc' = [pc EXCEPT ![d] = label]

\* What read_record makes of the object: download_json reports an error as a
\* value, and a record that cannot be downloaded counts as no record.
ReadRecord(d) == {registry} \cup (IF ReadsFail /\ d \in Faulty THEN {NoRecord} ELSE {})

\* The object gets content rec and a generation GCS never used before.
WriteObject(rec) ==
  /\ registry' = rec
  /\ objgen' = changes + 1
  /\ changes' = changes + 1

-----------------------------------------------------------------------------
(* WorkflowDispatchManager.invoke                                          *)

\* A handoff reaches the dispatch step.  A re-run of a workflow run only
\* starts when its earlier attempt is over.
Begin(d) ==
  /\ pc[d] = "idle"
  /\ \A e \in Dispatches : (Serial \/ RunOf[e] = RunOf[d]) => ~InFlight(e)
  /\ Goto(d, "supersede")
  /\ UNCHANGED <<registryVars, cleanups, exec, checkState, localVars>>

\* Mutant of ReadPrior: without a check to close, nothing is cancelled either.
ReadPriorSkipsCancel(d) ==
  /\ pc[d] = "supersede"
  /\ \E rec \in ReadRecord(d) :
       /\ prior' = [prior EXCEPT ![d] = rec]
       /\ Goto(d, IF rec = NoRecord \/ rec.check = NoCheck THEN "generation" ELSE "cancel")
  /\ UNCHANGED <<registryVars, cleanups, exec, checkState,
                 payloadGen, seen, claimGen, tries, base>>

\* _supersede_prior_pr_run reads the record; without one there is nothing to
\* cancel or to close.
ReadPrior(d) ==
  /\ pc[d] = "supersede"
  /\ \E rec \in ReadRecord(d) :
       /\ prior' = [prior EXCEPT ![d] = rec]
       /\ Goto(d, IF rec = NoRecord THEN "generation" ELSE "cancel")
  /\ UNCHANGED <<registryVars, cleanups, exec, checkState,
                 payloadGen, seen, claimGen, tries, base>>

\* cancel_execution: an active execution is cancelled, a terminal one is a
\* benign no-op; when the retries run out the result is "failed" and the
\* handoff goes on.
CancelPrior(d) ==
  /\ pc[d] = "cancel"
  /\ LET e == prior[d].exec IN
       \/ exec' = [exec EXCEPT ![e] = IF @ = "active" THEN "cancelled" ELSE @]
       \/ d \in Faulty /\ UNCHANGED exec
  /\ Goto(d, "close")
  /\ UNCHANGED <<registryVars, cleanups, checkState, localVars>>

\* close_superseded_check_run, when the record carries a check id: a check
\* that is not completed becomes cancelled; an exception is swallowed.
ClosePriorCheck(d) ==
  /\ pc[d] = "close"
  /\ \/ /\ prior[d].check # NoCheck
        /\ checkState' = [checkState EXCEPT
             ![prior[d].check] = IF @ = "in_progress" THEN "cancelled" ELSE @]
     \/ /\ prior[d].check = NoCheck \/ d \in Faulty
        /\ UNCHANGED checkState
  /\ Goto(d, "generation")
  /\ UNCHANGED <<registryVars, cleanups, exec, localVars>>

\* Mutant of ChooseGeneration: the payload carries the prior generation.
ChoosePriorGeneration(d) ==
  /\ pc[d] = "generation"
  /\ \E rec \in ReadRecord(d) :
       payloadGen' = [payloadGen EXCEPT ![d] = NextGeneration(rec) - 1]
  /\ Goto(d, "start")
  /\ UNCHANGED <<registryVars, cleanups, exec, checkState,
                 prior, seen, claimGen, tries, base>>

\* A second, separate read gives the generation that goes into the payload.
ChooseGeneration(d) ==
  /\ pc[d] = "generation"
  /\ \E rec \in ReadRecord(d) :
       payloadGen' = [payloadGen EXCEPT ![d] = NextGeneration(rec)]
  /\ Goto(d, "start")
  /\ UNCHANGED <<registryVars, cleanups, exec, checkState,
                 prior, seen, claimGen, tries, base>>

\* start_execution: the run is live from here on, before it is claimed.
StartExecution(d) ==
  /\ pc[d] = "start"
  /\ exec' = [exec EXCEPT ![d] = "active"]
  /\ base' = [base EXCEPT ![d] = changes]
  /\ Goto(d, "claimGen")
  /\ UNCHANGED <<registryVars, cleanups, checkState,
                 prior, payloadGen, seen, claimGen, tries>>

-----------------------------------------------------------------------------
(* claim_active_run: at most MaxCas rounds of read, read, write.           *)

\* read_object_with_generation: the expected generation of the CAS.
ClaimReadGeneration(d) ==
  /\ pc[d] = "claimGen"
  /\ seen' = [seen EXCEPT ![d] = objgen]
  /\ \/ /\ objgen = 0
        /\ claimGen' = [claimGen EXCEPT ![d] = 1]
        /\ Goto(d, "claimWrite")
     \/ /\ objgen # 0
        /\ Goto(d, "claimBody")
        /\ UNCHANGED claimGen
  /\ UNCHANGED <<registryVars, cleanups, exec, checkState,
                 prior, payloadGen, tries, base>>

\* Mutant of ClaimReadBody: the claim reuses the generation of the payload.
ClaimReusesPayload(d) ==
  /\ pc[d] = "claimBody"
  /\ claimGen' = [claimGen EXCEPT ![d] = payloadGen[d]]
  /\ Goto(d, "claimWrite")
  /\ UNCHANGED <<registryVars, cleanups, exec, checkState,
                 prior, payloadGen, seen, tries, base>>

\* download_json fetches the body again, by name and not by generation.
ClaimReadBody(d) ==
  /\ pc[d] = "claimBody"
  /\ \E rec \in ReadRecord(d) :
       claimGen' = [claimGen EXCEPT ![d] = NextGeneration(rec)]
  /\ Goto(d, "claimWrite")
  /\ UNCHANGED <<registryVars, cleanups, exec, checkState,
                 prior, payloadGen, seen, tries, base>>

\* Mutant of ClaimRecord: an execution without a name is recorded.
ClaimRecordUnnamed(d) == [gen |-> claimGen[d], exec |-> NoCheck, check |-> NoCheck]

ClaimRecord(d) == [gen |-> claimGen[d], exec |-> d, check |-> NoCheck]

\* Mutant of ClaimSucceeds: no if_generation_match on the upload.
ClaimUnconditionally(d) ==
  /\ pc[d] = "claimWrite"
  /\ WriteObject(ClaimRecord(d))
  /\ Goto(d, "claimed")
  /\ UNCHANGED <<cleanups, exec, checkState, localVars>>

\* The precondition on the generation holds and the response arrives.
ClaimSucceeds(d) ==
  /\ pc[d] = "claimWrite"
  /\ objgen = seen[d]
  /\ WriteObject(ClaimRecord(d))
  /\ Goto(d, "claimed")
  /\ UNCHANGED <<cleanups, exec, checkState, localVars>>

\* Mutant of RetryClaim: one attempt short of MaxCas.
RetryOneShort(d) ==
  /\ tries' = [tries EXCEPT ![d] = @ + 1]
  /\ Goto(d, IF tries[d] + 2 < MaxCas THEN "claimGen" ELSE "failed")
  /\ UNCHANGED <<cleanups, exec, checkState, prior, payloadGen, seen, claimGen, base>>

\* Mutant of RetryClaim: the loop has no bound.
RetryForever(d) ==
  /\ Goto(d, "claimGen")
  /\ UNCHANGED <<cleanups, exec, checkState, localVars>>

\* What a failed attempt does: another round, or GcsError out of invoke.
RetryClaim(d) ==
  /\ tries' = [tries EXCEPT ![d] = @ + 1]
  /\ Goto(d, IF tries[d] + 1 < MaxCas THEN "claimGen" ELSE "failed")
  /\ UNCHANGED <<cleanups, exec, checkState, prior, payloadGen, seen, claimGen, base>>

ClaimConflicts(d) ==
  /\ pc[d] = "claimWrite"
  /\ objgen # seen[d]
  /\ RetryClaim(d)
  /\ UNCHANGED registryVars

\* The upload is applied but blob.reload() or the response fails: GcsError,
\* and the next round reads the dispatch's own record as its prior.
ClaimAckLost(d) ==
  /\ d \in Faulty
  /\ pc[d] = "claimWrite"
  /\ objgen = seen[d]
  /\ WriteObject(ClaimRecord(d))
  /\ RetryClaim(d)

\* The upload never reaches the object.
ClaimWriteFails(d) ==
  /\ d \in Faulty
  /\ pc[d] = "claimWrite"
  /\ RetryClaim(d)
  /\ UNCHANGED registryVars

-----------------------------------------------------------------------------
\* cancel-in-progress kills the handoff, or a call raises out of invoke.
HandoffDies(d) ==
  /\ d \in Faulty
  /\ InFlight(d)
  /\ Goto(d, "failed")
  /\ UNCHANGED <<registryVars, cleanups, exec, checkState, localVars>>

\* The execution reaches a terminal state of its own.
ExecutionEnds(d) ==
  /\ exec[d] = "active"
  /\ exec' = [exec EXCEPT ![d] = "ended"]
  /\ UNCHANGED <<registryVars, cleanups, checkState, pc, localVars>>

\* pr_registry_cleanup.py --apply deletes the object, unconditionally.
Cleanup ==
  /\ cleanups < MaxCleanups
  /\ registry # NoRecord
  /\ registry' = NoRecord
  /\ objgen' = 0
  /\ changes' = changes + 1
  /\ cleanups' = cleanups + 1
  /\ UNCHANGED <<exec, checkState, pc, localVars>>

\* One step of the handoff d itself.
Handoff(d) ==
  \/ ReadPrior(d)
  \/ CancelPrior(d)
  \/ ClosePriorCheck(d)
  \/ ChooseGeneration(d)
  \/ StartExecution(d)
  \/ ClaimReadGeneration(d)
  \/ ClaimReadBody(d)
  \/ ClaimSucceeds(d)
  \/ ClaimConflicts(d)
  \/ ClaimAckLost(d)
  \/ ClaimWriteFails(d)
  \/ HandoffDies(d)

Next ==
  \/ Cleanup
  \/ \E d \in Dispatches : Begin(d) \/ Handoff(d) \/ ExecutionEnds(d)

\* The runner executes the handoff job: a handoff that has begun goes on.
Fairness == \A d \in Dispatches : WF_dispatchVars(Handoff(d))

Spec == Init /\ [][Next]_dispatchVars
FairSpec == Spec /\ Fairness

-----------------------------------------------------------------------------
(* The registry implements the atomic register of ActiveRun.               *)

activeGeneration == IF registry = NoRecord THEN 0 ELSE registry.gen
activeOwner == IF registry = NoRecord THEN NoRecord ELSE registry.exec

Atomic == INSTANCE ActiveRun WITH Claimants <- Dispatches, NoOwner <- NoRecord,
                                  generation <- activeGeneration, owner <- activeOwner

(* Every change of the registry is a claim of exactly one more than the    *)
(* generation it replaces, although a claim reads the object's generation  *)
(* and its body in two calls and writes it in a third.  It holds when      *)
(* downloads work (ReadsFail = FALSE).                                     *)
ClaimsAreAtomic == Atomic!Spec

(* A write whose precondition would hold now carries the generation that   *)
(* follows the record it replaces (the double read in read_record cannot   *)
(* pair an old body with a new generation that passes the precondition),   *)
(* as long as downloads work.                                              *)
NoStaleClaim ==
  \A d \in Dispatches :
    (ReadsFail => d \notin Faulty) /\ pc[d] = "claimWrite" /\ seen[d] = objgen
      => claimGen[d] = NextGeneration(registry)

(* A handoff whose calls all work gives up its claim only when the object  *)
(* really changed under it MaxCas times.                                   *)
ExhaustionNeedsContention ==
  \A d \in Dispatches \ Faulty : pc[d] = "failed" => changes - base[d] >= MaxCas

(* With serialised handoffs, no deletion and no failed call, the record a  *)
(* handoff leaves behind carries the generation in its execution's payload *)
(* (otherwise is_authoritative_for_pr rejects the run that just claimed).  *)
ClaimMatchesPayload ==
  \A d \in Dispatches \ Faulty :
    pc[d] = "claimed" /\ registry # NoRecord /\ registry.exec = d
      => registry.gen = payloadGen[d]

(* Once a handoff has claimed the pull request, no other execution of the  *)
(* pull request started before it is still active.                         *)
ClaimantRunsAlone ==
  \A d, e \in Dispatches :
    /\ d # e
    /\ pc[d] = "claimed" /\ registry # NoRecord /\ registry.exec = d
    /\ ~InFlight(e)
    => exec[e] # "active"

(* Every handoff that begins is over after finitely many calls.            *)
HandoffsTerminate == \A d \in Dispatches : pc[d] = "supersede" ~> pc[d] \in Ended
=============================================================================
