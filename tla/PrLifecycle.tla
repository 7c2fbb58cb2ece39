----------------------------- MODULE PrLifecycle -----------------------------
(***************************************************************************)
(* Both sides of the pull-request lifecycle: the handoffs of PrRegistry,   *)
(* and the Cloud Run jobs of the executions they start, which read the     *)
(* registry through the mounted bucket (runtime/pr_lifecycle.py) to decide *)
(* whether their run still speaks for the pull request.                    *)
(*                                                                         *)
(* An execution runs three jobs in order: plan, tasks (one task here), and *)
(* coordinator.  Cancelling the execution stops it from starting the next  *)
(* job and does not stop the job that is running.                          *)
(***************************************************************************)
EXTENDS PrRegistry

CONSTANT
  Calm         \* TRUE: no Cloud Run job runs while a handoff is in flight

ASSUME CalmAssumption == Calm \in BOOLEAN

VARIABLES
  job,        \* where the execution of each dispatch is
  planFile,   \* triggers/plans/<run>.json: the dispatch that wrote it
  metaFile,   \* triggers/reporting/<run>.json: the check it names
  loaded,     \* the plan and the check the coordinator job has loaded
  patch       \* the record patch_registry_check_run_id read

runtimeVars == <<job, planFile, metaFile, loaded, patch>>
vars == <<dispatchVars, runtimeVars>>

\* Between two jobs the Workflows execution decides; inside a job nobody can
\* stop the container.
BetweenJobs == {"none", "planned", "tasked", "finished"}
InsideJobs == {"report", "patchRead", "patchWrite", "task", "publish", "finalize"}

NoDispatch == NoCheck

LifecycleTypeOK ==
  /\ TypeOK
  /\ job \in [Dispatches -> BetweenJobs \cup InsideJobs]
  /\ planFile \in [RunIds -> Dispatches \cup {NoDispatch}]
  /\ metaFile \in [RunIds -> Dispatches \cup {NoCheck}]
  /\ loaded \in [Dispatches -> [plan : Dispatches \cup {NoDispatch},
                                 check : Dispatches \cup {NoCheck}]]
  /\ patch \in [Dispatches -> {NoRecord} \cup Record]

LifecycleInit ==
  /\ Init
  /\ job = [d \in Dispatches |-> "none"]
  /\ planFile = [r \in RunIds |-> NoDispatch]
  /\ metaFile = [r \in RunIds |-> NoCheck]
  /\ loaded = [d \in Dispatches |-> [plan |-> NoDispatch, check |-> NoCheck]]
  /\ patch = [d \in Dispatches |-> NoRecord]

Plan(d) == planFile[RunOf[d]]
Check(d) == metaFile[RunOf[d]]

\* is_authoritative_for_pr: a missing record counts as authority; otherwise
\* run id and generation of the plan must both match the record.
Authoritative(d) ==
  registry # NoRecord
    => RunOf[registry.exec] = RunOf[d] /\ registry.gen = payloadGen[d]

\* In calm conditions a job starts only while no handoff is in flight.
NoHandoffInCalm == Calm => \A e \in Dispatches : ~InFlight(e)

GotoJob(d, stage) == job' = [job EXCEPT ![d] = stage]

-----------------------------------------------------------------------------
(* run_plan_mode                                                           *)

\* The authority check and, when it holds, write_plan.  A superseded plan
\* job exits 0 without a plan; the execution then reads the plan object: a
\* 404 leads to finalize-failure, which finds no plan either and exits.
PlanMode(d) ==
  /\ exec[d] = "active"
  /\ job[d] = "none"
  /\ NoHandoffInCalm
  /\ \/ /\ Authoritative(d)
        /\ planFile' = [planFile EXCEPT ![RunOf[d]] = d]
        /\ GotoJob(d, "report")
     \/ /\ ~Authoritative(d)
        /\ UNCHANGED planFile
        /\ GotoJob(d, IF Plan(d) = NoDispatch THEN "finished" ELSE "planned")
  /\ UNCHANGED <<dispatchVars, metaFile, loaded, patch>>

\* Mutant of EnsureReporting: the check id is not patched into the registry.
EnsureReportingUnpatched(d) ==
  /\ job[d] = "report"
  /\ IF Authoritative(d) /\ Check(d) = NoCheck
     THEN /\ checkState' = [checkState EXCEPT ![d] = "in_progress"]
          /\ metaFile' = [metaFile EXCEPT ![RunOf[d]] = d]
     ELSE UNCHANGED <<checkState, metaFile>>
  /\ GotoJob(d, "planned")
  /\ UNCHANGED <<registryVars, cleanups, exec, pc, localVars, planFile, loaded, patch>>

\* Mutant of EnsureReporting: the reporting metadata is not persisted.
EnsureReportingUnpersisted(d) ==
  /\ job[d] = "report"
  /\ Authoritative(d)
  /\ checkState' = [checkState EXCEPT ![d] = "in_progress"]
  /\ GotoJob(d, "patchRead")
  /\ UNCHANGED <<registryVars, cleanups, exec, pc, localVars, planFile, metaFile, loaded, patch>>

\* ensure_reporting_metadata_for_plan: a second authority check; metadata of
\* an earlier attempt of the run is reused; otherwise an in_progress check is
\* created and its id persisted, unless GitHub fails.
EnsureReporting(d) ==
  /\ job[d] = "report"
  /\ \/ /\ Authoritative(d) /\ Check(d) = NoCheck
        /\ checkState' = [checkState EXCEPT ![d] = "in_progress"]
        /\ metaFile' = [metaFile EXCEPT ![RunOf[d]] = d]
        /\ GotoJob(d, "patchRead")
     \/ /\ ~Authoritative(d) \/ Check(d) # NoCheck \/ d \in Faulty
        /\ UNCHANGED <<checkState, metaFile>>
        /\ GotoJob(d, "planned")
  /\ UNCHANGED <<registryVars, cleanups, exec, pc, localVars, planFile, loaded, patch>>

\* patch_registry_check_run_id reads the record; no record, or a record of
\* another run id, is left alone.
PatchRead(d) ==
  /\ job[d] = "patchRead"
  /\ \/ /\ registry # NoRecord /\ RunOf[registry.exec] = RunOf[d]
        /\ patch' = [patch EXCEPT ![d] = registry]
        /\ GotoJob(d, "patchWrite")
     \/ /\ registry # NoRecord => RunOf[registry.exec] # RunOf[d]
        /\ UNCHANGED patch
        /\ GotoJob(d, "planned")
  /\ UNCHANGED <<dispatchVars, planFile, metaFile, loaded>>

\* Mutant of PatchWrite: the record is rebuilt with the generation of the plan.
PatchWithPlanGeneration(d) ==
  /\ job[d] = "patchWrite"
  /\ WriteObject([patch[d] EXCEPT !.check = d, !.gen = payloadGen[d]])
  /\ GotoJob(d, "planned")
  /\ UNCHANGED <<cleanups, exec, checkState, pc, localVars, planFile, metaFile, loaded, patch>>

\* ... and writes the whole record back, with no precondition.
PatchWrite(d) ==
  /\ job[d] = "patchWrite"
  /\ WriteObject([patch[d] EXCEPT !.check = d])
  /\ GotoJob(d, "planned")
  /\ UNCHANGED <<cleanups, exec, checkState, pc, localVars, planFile, metaFile, loaded, patch>>

-----------------------------------------------------------------------------
(* run_task_mode                                                           *)

\* Mutant of TaskStarts: the task does not ask for authority.
TaskStartsUnasked(d) ==
  /\ exec[d] = "active"
  /\ job[d] = "planned"
  /\ NoHandoffInCalm
  /\ GotoJob(d, IF Plan(d) # NoDispatch THEN "task" ELSE "tasked")
  /\ UNCHANGED <<dispatchVars, planFile, metaFile, loaded, patch>>

\* load_plan and the only authority check of the task; the job starts only
\* when the execution is still active.  Without a plan the job fails and the
\* execution goes on to the coordinator.
TaskStarts(d) ==
  /\ exec[d] = "active"
  /\ job[d] = "planned"
  /\ NoHandoffInCalm
  /\ GotoJob(d, IF Plan(d) # NoDispatch /\ Authoritative(Plan(d)) THEN "task" ELSE "tasked")
  /\ UNCHANGED <<dispatchVars, planFile, metaFile, loaded, patch>>

\* publish_progress, before and after the leg: no authority check, and the
\* check goes (back) to in_progress whatever its state.
TaskProgress(d) ==
  /\ job[d] = "task"
  /\ Check(d) # NoCheck
  /\ checkState' = [checkState EXCEPT ![Check(d)] = "in_progress"]
  /\ \E stage \in {"task", "tasked"} : GotoJob(d, stage)
  /\ UNCHANGED <<registryVars, cleanups, exec, pc, localVars, planFile, metaFile, loaded, patch>>

\* The task ends without another progress update (no check, or GitHub fails).
TaskEnds(d) ==
  /\ job[d] = "task"
  /\ GotoJob(d, "tasked")
  /\ UNCHANGED <<dispatchVars, planFile, metaFile, loaded, patch>>

-----------------------------------------------------------------------------
(* run_coordinator_mode                                                    *)

\* load_plan and the first authority check.  Without a plan the job fails
\* and finalize-failure finds no plan either.
CoordinatorStarts(d) ==
  /\ exec[d] = "active"
  /\ job[d] = "tasked"
  /\ NoHandoffInCalm
  /\ loaded' = [loaded EXCEPT ![d].plan = Plan(d)]
  /\ GotoJob(d, IF Plan(d) # NoDispatch /\ Authoritative(Plan(d)) THEN "publish" ELSE "finished")
  /\ UNCHANGED <<dispatchVars, planFile, metaFile, patch>>

\* publish_final_results asks for authority again and loads the metadata
\* before it calls GitHub; without a check id nothing is finalized here.
PublishStarts(d) ==
  /\ job[d] = "publish"
  /\ loaded' = [loaded EXCEPT ![d].check = Check(d)]
  /\ GotoJob(d, IF Authoritative(loaded[d].plan) /\ Check(d) # NoCheck THEN "finalize" ELSE "finished")
  /\ UNCHANGED <<dispatchVars, planFile, metaFile, patch>>

\* The check is finalized, the publish marked complete and the ephemeral
\* triggers of the run removed.
Finalize(d) ==
  /\ job[d] = "finalize"
  /\ checkState' = [checkState EXCEPT ![loaded[d].check] = "completed"]
  /\ metaFile' = [metaFile EXCEPT ![RunOf[d]] = NoCheck]
  /\ planFile' = [planFile EXCEPT ![RunOf[d]] = NoDispatch]
  /\ GotoJob(d, "finished")
  /\ UNCHANGED <<registryVars, cleanups, exec, pc, localVars, loaded, patch>>

-----------------------------------------------------------------------------
Job(d) ==
  \/ PlanMode(d) \/ EnsureReporting(d) \/ PatchRead(d) \/ PatchWrite(d)
  \/ TaskStarts(d) \/ TaskProgress(d) \/ TaskEnds(d)
  \/ CoordinatorStarts(d) \/ PublishStarts(d) \/ Finalize(d)

NoJobRuns == \A d \in Dispatches : job[d] \notin InsideJobs

LifecycleNext ==
  \/ Cleanup /\ UNCHANGED runtimeVars
  \/ \E d \in Dispatches :
       \/ (Calm => NoJobRuns) /\ Begin(d) /\ UNCHANGED runtimeVars
       \/ Handoff(d) /\ UNCHANGED runtimeVars
       \/ job[d] = "finished" /\ ExecutionEnds(d) /\ UNCHANGED runtimeVars
       \/ Job(d)

\* GitHub runs the handoff job, Workflows starts the next job of an active
\* execution, and Cloud Run runs a container that has started; a task posts
\* progress finitely often.
LifecycleFairness ==
  \A d \in Dispatches :
    /\ WF_vars(Handoff(d) /\ UNCHANGED runtimeVars)
    /\ WF_vars(Job(d))
    /\ WF_vars(TaskEnds(d))

LifecycleSpec == LifecycleInit /\ [][LifecycleNext]_vars
LifecycleFairSpec == LifecycleSpec /\ LifecycleFairness

-----------------------------------------------------------------------------
(* Properties.                                                             *)

(* Whatever races, the registry holds a record that a handoff did claim,   *)
(* with the generation it claimed, and the check in it, which the next     *)
(* handoff closes, is of the run the record belongs to: a stale            *)
(* read-modify-write by a plan job can bring an old claim back, it cannot  *)
(* make one up.                                                            *)
RegistryHoldsAClaim ==
  /\ registry # NoRecord /\ registry.exec \notin Faulty
       => /\ pc[registry.exec] = "claimed"
          /\ registry.gen = claimGen[registry.exec]
  /\ registry # NoRecord /\ registry.check # NoCheck
       => RunOf[registry.check] = RunOf[registry.exec]

(* Stronger than the code: plan mode drops its run as superseded only when *)
(* the registry names a newer generation than the run's own.  A plan job   *)
(* that asks before its handoff has claimed finds the older record.        *)
PlanSkipsOnlyWhenNewer ==
  [][\A d \in Dispatches :
       job[d] = "none" /\ job'[d] \in {"finished", "planned"}
         => registry.gen > payloadGen[d]]_vars

(* Stronger than the code: while the record is not deleted, the active     *)
(* generation of a pull request never goes back.                           *)
GenerationNeverDecreases ==
  [][registry # NoRecord /\ registry' # NoRecord => registry'.gen >= registry.gen]_vars

(* Stronger than the code: a check that a newer handoff closed as          *)
(* cancelled is not reopened or concluded by the superseded run; only a    *)
(* re-run of that run may use the check again.  A task that is already in  *)
(* its container reopens it.                                               *)
ClosedCheckStaysClosed ==
  [][\A d \in Dispatches :
       checkState[d] = "cancelled"
         => \/ checkState'[d] = "cancelled"
            \/ \E e \in Dispatches \ {d} : RunOf[e] = RunOf[d] /\ pc[e] = "claimed"]_vars

\* The pull request is another run's, the check of d is closed, and neither a
\* container nor a handoff of the run of d is at work.
SupersededAndQuiet(d) ==
  /\ registry # NoRecord /\ RunOf[registry.exec] # RunOf[d]
  /\ checkState[d] = "cancelled"
  /\ \A e \in Dispatches :
       RunOf[e] = RunOf[d] => job[e] \notin InsideJobs /\ ~InFlight(e)

(* Once a superseded run has no container at work it never speaks again,   *)
(* even when its execution escaped the cancellation and Workflows starts   *)
(* its remaining jobs: each of them finds the record of the other run,     *)
(* whatever plan jobs of other runs write back meanwhile.  What ends the   *)
(* silence is a re-run, or the deletion of the record at the end of the    *)
(* pull request.                                                           *)
SupersededStaysQuiet ==
  [][\A d \in Dispatches :
       SupersededAndQuiet(d)
         => \/ SupersededAndQuiet(d)'
            \/ registry' = NoRecord
            \/ \E e \in Dispatches : RunOf[e] = RunOf[d] /\ InFlight(e)']_vars

(* Once a handoff has claimed the pull request, the only check left in     *)
(* progress is that of its own run.                                        *)
OnlyActiveRunHasOpenCheck ==
  registry # NoRecord /\ (\A d \in Dispatches : ~InFlight(d))
    => \A d \in Dispatches :
         checkState[d] = "in_progress" => RunOf[d] = RunOf[registry.exec]

\* The jobs of d are over, and the checks of its run are settled with one of
\* them completed.
Decided(d) ==
  LET checks == {checkState[e] : e \in {c \in Dispatches : RunOf[c] = RunOf[d]}}
  IN  job[d] = "finished" /\ "completed" \in checks /\ "in_progress" \notin checks

(* A run that claimed the pull request decides its gate, unless a newer    *)
(* handoff begins.                                                         *)
ActiveRunDecides ==
  \A d \in Dispatches :
    pc[d] = "claimed"
      ~> Decided(d) \/ \E e \in Dispatches : payloadGen[e] > payloadGen[d]
=============================================================================
