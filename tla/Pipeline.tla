------------------------------ MODULE Pipeline ------------------------------
(***************************************************************************)
(* One workflow execution from its plan job to the final GitHub gate, for  *)
(* a run that stays authoritative (PrLifecycle has the runs that do not).  *)
(*                                                                         *)
(*   bmt-workflow   plan job -> standard tasks -> heavy tasks ->           *)
(*                  coordinator job; any failure but that of a task job    *)
(*                  leads to the finalize-failure job                      *)
(*   jobs           containers that share the bucket (plan, reporting      *)
(*                  metadata, summaries) and GitHub (check, commit status) *)
(*                                                                         *)
(* One step is one access to the bucket or one GitHub call (with its       *)
(* retries).  A container may die between any two steps and is started     *)
(* again once; a GitHub call may fail, or be applied and reported failed.  *)
(***************************************************************************)
EXTENDS Naturals, FiniteSets

CONSTANTS
  Legs,           \* the legs of the plan
  Profile,        \* the execution profile of each leg
  Conditions,     \* bound: FALSE for calm executions, TRUE for harsh ones
  MaxRetries,     \* Cloud Run max_retries of a job
  MaxCrashes,     \* bound: containers that die
  MaxFaults,      \* bound: GitHub or bucket calls that fail
  MaxHarshFaults  \* the same in a harsh execution

ASSUME ProfileAssumption == Profile \in [Legs -> {"standard", "heavy"}]
ASSUME ConditionsAssumption == Conditions \subseteq BOOLEAN
ASSUME BoundsAssumption == {MaxRetries, MaxCrashes, MaxFaults, MaxHarshFaults} \subseteq Nat

VARIABLES
  harsh,      \* waiting for a restarted task job may time out, and the
              \* removal of a trigger object may fail
  forced,     \* force_pass, an argument of the execution
  wf,         \* the step of bmt-workflow
  stage,      \* where the running control container is
  round,      \* 1 try, 2 finally, 3 and 4 publish_github_failure
  held,       \* the leg statuses the control container has loaded
  todo,       \* legs whose pointer the coordinator has still to move
  finOk,      \* finalize_check_run reported success in this round
  hasId,      \* the metadata loaded for this round carries a check id
  restarts,   \* restarts of the running control job
  raised,     \* an exception is on its way out of the running container
  planFile,   \* triggers/plans/<run>.json exists
  meta,       \* triggers/reporting/<run>.json: "none", "open", "complete", or
              \* "anonymous": complete with a null check id
  summary,    \* triggers/summaries/<run>/<leg>.json: "none", "pass", "fail"
  recorded,   \* status under which current.json of the leg was last moved
  check,      \* the newest check: "none", "in_progress", "success", "failure"
  strays,     \* older checks left in_progress whose id nobody kept
  status,     \* the commit status: "pending", "success", "failure"
  task,       \* where the task container of each leg is
  taskTries,  \* restarts of each task
  crashes,    \* containers that died so far
  faults      \* calls that failed so far

exits == <<restarts, raised>>
controlVars == <<stage, round, held, todo, finOk, hasId, exits>>
bucketVars == <<planFile, meta, summary, recorded>>
githubVars == <<check, strays, status>>
taskVars == <<task, taskTries>>
argVars == <<harsh, forced>>
vars == <<argVars, wf, controlVars, bucketVars, githubVars, taskVars, crashes, faults>>

Control == {"plan", "coordinator", "failure"}
Stages == {"start", "report", "persistCheck", "pointers", "reload", "finalize",
           "status", "persist", "judge", "sync", "cleanPlan", "cleanMeta",
           "cleanSummaries", "exit"}
TaskStates == {"idle", "retry", "announce", "announcing", "leg",
               "report", "reporting", "done", "dead"}
Concluded == {"success", "failure"}

FaultBound == IF harsh THEN MaxHarshFaults ELSE MaxFaults

TypeOK ==
  /\ harsh \in Conditions /\ forced \in BOOLEAN
  /\ wf \in Control \cup {"standard", "heavy", "done", "failed"}
  /\ stage \in Stages
  /\ round \in {1, 2, 3, 4}
  /\ held \in [Legs -> {"pass", "fail"}]
  /\ todo \subseteq Legs
  /\ finOk \in BOOLEAN
  /\ hasId \in BOOLEAN
  /\ restarts \in 0 .. MaxRetries
  /\ raised \in BOOLEAN
  /\ planFile \in BOOLEAN
  /\ meta \in {"none", "open", "complete", "anonymous"}
  /\ summary \in [Legs -> {"none", "pass", "fail"}]
  /\ recorded \in [Legs -> {"none", "pass", "fail"}]
  /\ check \in {"none", "in_progress"} \cup Concluded
  /\ strays \in Nat
  /\ status \in {"pending"} \cup Concluded
  /\ task \in [Legs -> TaskStates]
  /\ taskTries \in [Legs -> 0 .. MaxRetries]
  /\ crashes \in 0 .. MaxCrashes
  /\ faults \in 0 .. FaultBound

Init ==
  /\ harsh \in Conditions /\ forced \in BOOLEAN
  /\ wf = "plan"
  /\ stage = "start"
  /\ round = 1
  /\ held = [l \in Legs |-> "fail"]
  /\ todo = {}
  /\ finOk = FALSE
  /\ hasId = FALSE
  /\ restarts = 0 /\ raised = FALSE
  /\ planFile = FALSE
  /\ meta = "none"
  /\ summary = [l \in Legs |-> "none"]
  /\ recorded = [l \in Legs |-> "none"]
  /\ check = "none"
  /\ strays = 0
  /\ status = "pending"
  /\ task = [l \in Legs |-> "idle"]
  /\ taskTries = [l \in Legs |-> 0]
  /\ crashes = 0
  /\ faults = 0

\* The metadata names a check; it says that the publish is complete.
NamesCheck == meta \in {"open", "complete"}
PublishComplete == meta \in {"complete", "anonymous"}

At(w, s) == wf = w /\ stage = s
Goto(s) == stage' = s

\* A GitHub or bucket call fails.
Fault == faults < FaultBound /\ faults' = faults + 1

\* load_summary_or_failure for every leg: a missing summary is a failed leg.
LoadedSummaries == [l \in Legs |-> IF summary[l] = "pass" THEN "pass" ELSE "fail"]

\* aggregate_status: no leg at all is a failure.
Verdict(statuses) ==
  IF Legs # {} /\ \A l \in Legs : statuses[l] = "pass" THEN "success" ELSE "failure"

\* What the container publishes: the conclusion of the check and the state.
HeldVerdict == Verdict(held)

-----------------------------------------------------------------------------
(* The GitHub calls.  A call that is reported failed may have been applied. *)

\* A check whose id nobody kept is left behind when another is created.
LeaveBehind == strays' = IF check = "in_progress" THEN strays + 1 ELSE strays

OpenCheck == check' = "in_progress" /\ LeaveBehind
OverrideCheck == check' = "success" /\ LeaveBehind
UpdateCheck(state) == check' = state /\ UNCHANGED strays
CheckCompleted == check \in Concluded

PostStatus(state) ==
  \/ status' = state /\ UNCHANGED faults
  \/ Fault /\ status' \in {status, state}

-----------------------------------------------------------------------------
(* bmt-workflow                                                            *)

EnterJob(w) ==
  /\ wf' = w
  /\ Goto("start")
  /\ restarts' = 0 /\ raised' = FALSE
  /\ UNCHANGED <<round, held, todo, finOk, hasId>>

TasksOver(profile) ==
  \A l \in Legs : Profile[l] = profile => task[l] \in {"done", "dead"}

\* The connector waits for the task job, whatever its outcome ...
TaskJobEnds ==
  /\ \/ /\ wf = "standard" /\ TasksOver("standard")
        /\ wf' = "heavy" /\ UNCHANGED controlVars
     \/ /\ wf = "heavy" /\ TasksOver("heavy")
        /\ EnterJob("coordinator")
  /\ UNCHANGED <<argVars, bucketVars, githubVars, taskVars, crashes, faults>>

\* ... but not longer than its timeout (3900s), which covers one attempt of a
\* task (3600s) and not the second: the exception sets tasks_failed, and the
\* workflow goes on while the container runs.
TaskJobTimesOut ==
  /\ harsh
  /\ \E l \in Legs : /\ Profile[l] = wf
                     /\ taskTries[l] > 0
                     /\ task[l] \notin {"done", "dead"}
  /\ \/ wf = "standard" /\ wf' = "heavy" /\ UNCHANGED controlVars
     \/ wf = "heavy" /\ EnterJob("coordinator")
  /\ UNCHANGED <<argVars, bucketVars, githubVars, taskVars, crashes, faults>>

\* Mutant of ControlFails: one restart too many.
ControlFailsOnceMore ==
  /\ restarts <= MaxRetries
  /\ restarts' = restarts + 1 /\ raised' = FALSE
  /\ Goto("start")
  /\ UNCHANGED <<wf, round, held, todo, finOk, hasId>>

\* Mutant of ControlFails: restarts are not counted.
ControlRestartsForever ==
  /\ Goto("start") /\ raised' = FALSE
  /\ UNCHANGED <<wf, round, held, todo, finOk, hasId, restarts>>

\* A control container is lost or raises: Cloud Run starts it again, or the
\* job fails and with it the try block (or the whole execution).
ControlFails ==
  \/ /\ restarts < MaxRetries
     /\ restarts' = restarts + 1 /\ raised' = FALSE
     /\ Goto("start")
     /\ UNCHANGED <<wf, round, held, todo, finOk, hasId>>
  \/ /\ restarts = MaxRetries
     /\ wf # "failure"
     /\ EnterJob("failure")
  \/ /\ restarts = MaxRetries
     /\ wf = "failure"
     /\ wf' = "failed"
     /\ Goto("exit") /\ raised' = FALSE
     /\ UNCHANGED <<round, held, todo, finOk, hasId, restarts>>

\* A control container exits 0: the next step, or the end.  Reading the plan
\* between plan job and tasks may fail, which ends the try block.
Exits ==
  \/ /\ wf' = IF wf = "plan" THEN "standard" ELSE "done"
     /\ UNCHANGED <<controlVars, faults>>
  \/ wf = "plan" /\ Fault /\ EnterJob("failure")

\* With an exception on its way out it exits non-zero, whatever the finally
\* block has published and removed.
ControlJobEnds ==
  /\ wf \in Control
  /\ stage = "exit"
  /\ \/ ~raised /\ Exits
     \/ raised /\ ControlFails /\ UNCHANGED faults
  /\ UNCHANGED <<argVars, bucketVars, githubVars, taskVars, crashes>>

ControlDies ==
  /\ wf \in Control
  /\ crashes < MaxCrashes
  /\ crashes' = crashes + 1
  /\ ControlFails
  /\ UNCHANGED <<argVars, bucketVars, githubVars, taskVars, faults>>

-----------------------------------------------------------------------------
(* run_plan_mode                                                           *)

WritePlan ==
  /\ At("plan", "start")
  /\ planFile' = TRUE
  /\ Goto("report")
  /\ UNCHANGED <<argVars, wf, round, held, todo, finOk, hasId, exits,
                 meta, summary, recorded, githubVars, taskVars, crashes, faults>>

\* Metadata that names a check is reused; a missing URL is filled in.
ReuseReporting ==
  /\ NamesCheck
  /\ Goto("exit")
  /\ UNCHANGED <<githubVars, faults>>

\* _reporting_preconditions: no token; or GitHub refuses to create the check.
ReportingUnavailable ==
  /\ ~NamesCheck
  /\ Fault
  /\ Goto("exit")
  /\ UNCHANGED githubVars

CreateStartedCheck ==
  /\ ~NamesCheck /\ ~forced
  /\ OpenCheck
  /\ Goto("persistCheck")
  /\ UNCHANGED <<status, faults>>

\* Under force_pass the check is concluded at once and the status posted once.
CreateOverrideCheck ==
  /\ ~NamesCheck /\ forced
  /\ OverrideCheck
  /\ PostStatus("success")
  /\ Goto("persistCheck")

\* ensure_reporting_metadata_for_plan.
EnsureReporting ==
  /\ At("plan", "report")
  /\ \/ ReuseReporting \/ ReportingUnavailable
     \/ CreateStartedCheck \/ CreateOverrideCheck
  /\ UNCHANGED <<argVars, wf, round, held, todo, finOk, hasId, exits,
                 bucketVars, taskVars, crashes>>

PersistReporting ==
  /\ At("plan", "persistCheck")
  /\ meta' = "open"
  /\ Goto("exit")
  /\ UNCHANGED <<argVars, wf, round, held, todo, finOk, hasId, exits,
                 planFile, summary, recorded, githubVars, taskVars, crashes, faults>>
-----------------------------------------------------------------------------
(* run_task_mode                                                           *)

Move(l, state) == task' = [task EXCEPT ![l] = state]

\* load_plan; without a plan the container fails.
TaskStarts(l) ==
  /\ task[l] = "retry" \/ (task[l] = "idle" /\ wf = Profile[l])
  /\ Move(l, IF planFile THEN "announce" ELSE "dead")
  /\ UNCHANGED <<argVars, wf, controlVars, bucketVars, githubVars, taskTries, crashes, faults>>

\* publish_progress, before ("announce") and after ("report") the leg: the
\* metadata is read ...
ReadMetadata(l) ==
  /\ \/ task[l] = "announce" /\ Move(l, IF NamesCheck /\ ~forced THEN "announcing" ELSE "leg")
     \/ task[l] = "report" /\ Move(l, IF NamesCheck /\ ~forced THEN "reporting" ELSE "done")
  /\ UNCHANGED <<argVars, wf, controlVars, bucketVars, githubVars, taskTries, crashes, faults>>

\* ... and then the check it names is updated, to in_progress, whatever it is.
PostProgress(l) ==
  /\ \/ task[l] = "announcing" /\ Move(l, "leg")
     \/ task[l] = "reporting" /\ Move(l, "done")
  /\ \/ UpdateCheck("in_progress") /\ UNCHANGED faults
     \/ Fault /\ UNCHANGED <<check, strays>>
  /\ UNCHANGED <<argVars, wf, controlVars, bucketVars, status, taskTries, crashes>>

\* execute_leg, an exception being a failed leg, and write_summary.
RunLeg(l) ==
  /\ task[l] = "leg"
  /\ \E v \in {"pass", "fail"} : summary' = [summary EXCEPT ![l] = v]
  /\ Move(l, "report")
  /\ UNCHANGED <<argVars, wf, controlVars, planFile, meta, recorded, githubVars,
                 taskTries, crashes, faults>>

TaskDies(l) ==
  /\ task[l] \notin {"idle", "retry", "done", "dead"}
  /\ crashes < MaxCrashes
  /\ crashes' = crashes + 1
  /\ \/ /\ taskTries[l] < MaxRetries
        /\ taskTries' = [taskTries EXCEPT ![l] = @ + 1]
        /\ Move(l, "retry")
     \/ /\ taskTries[l] = MaxRetries
        /\ Move(l, "dead")
        /\ UNCHANGED taskTries
  /\ UNCHANGED <<argVars, wf, controlVars, bucketVars, githubVars, faults>>

-----------------------------------------------------------------------------
(* run_coordinator_mode: pointers, then publish_final_results up to three  *)
(* times and close_check_from_stage once, until the publish is complete.   *)

\* Mutant of LoadSummaries: a missing summary is not a failed leg.
LoadSummariesLenient ==
  /\ At("coordinator", "start")
  /\ planFile
  /\ held' = [l \in Legs |-> IF summary[l] = "fail" THEN "fail" ELSE "pass"]
  /\ todo' = Legs
  /\ Goto("pointers")
  /\ UNCHANGED <<argVars, wf, round, finOk, hasId, exits,
                 bucketVars, githubVars, taskVars, crashes, faults>>

\* load_plan and the summaries of all legs.
LoadSummaries ==
  /\ At("coordinator", "start")
  /\ planFile
  /\ held' = LoadedSummaries
  /\ todo' = Legs
  /\ Goto("pointers")
  /\ UNCHANGED <<argVars, wf, round, finOk, hasId, exits,
                 bucketVars, githubVars, taskVars, crashes, faults>>

\* An earlier container has already removed the plan: FileNotFoundError.
PlanIsGone ==
  /\ At("coordinator", "start")
  /\ ~planFile
  /\ ControlFails
  /\ UNCHANGED <<argVars, bucketVars, githubVars, taskVars, crashes, faults>>

\* One leg of the pointer loop (ResultsPointer has its steps).
RecordPointer(l) ==
  /\ At("coordinator", "pointers")
  /\ l \in todo
  /\ recorded' = [recorded EXCEPT ![l] = held[l]]
  /\ todo' = todo \ {l}
  /\ UNCHANGED <<argVars, wf, stage, round, held, finOk, hasId, exits,
                 planFile, meta, summary, githubVars, taskVars, crashes, faults>>

\* publish_final_results loads the reporting metadata first; without it the
\* check id is null.
EnterPublish(n) ==
  /\ round' = n
  /\ finOk' = FALSE
  /\ hasId' = NamesCheck
  /\ Goto("finalize")

PointersDone ==
  /\ At("coordinator", "pointers")
  /\ todo = {}
  /\ EnterPublish(1)
  /\ UNCHANGED <<argVars, wf, held, todo, exits,
                 bucketVars, githubVars, taskVars, crashes, faults>>

\* An exception in the try block (pointer loop or first publish): on to the
\* finally block, which does not catch it.  There, an exception of the publish
\* is caught and leads to the last resort.
CoordinatorRaises ==
  /\ wf = "coordinator"
  /\ Fault
  /\ \/ /\ \/ stage = "pointers"
           \/ stage \in {"finalize", "status", "persist"} /\ round = 1
        /\ Goto("reload") /\ raised' = TRUE
     \/ /\ stage \in {"finalize", "status", "persist"}
        /\ round = 2
        /\ Goto("sync") /\ UNCHANGED raised
  /\ UNCHANGED <<argVars, wf, round, held, todo, finOk, hasId, restarts,
                 bucketVars, githubVars, taskVars, crashes>>

\* The finally block loads the summaries again for its own publish.
ReloadSummaries ==
  /\ At("coordinator", "reload")
  /\ held' = LoadedSummaries
  /\ EnterPublish(2)
  /\ UNCHANGED <<argVars, wf, todo, exits, bucketVars, githubVars, taskVars, crashes, faults>>

\* publish_final_results sends nothing under force_pass or without a token.
SkipPublish ==
  /\ stage = "finalize"
  /\ round < 4
  /\ \/ forced /\ UNCHANGED faults
     \/ Fault
  /\ Goto("judge")
  /\ UNCHANGED <<argVars, wf, round, held, todo, finOk, hasId, exits,
                 bucketVars, githubVars, taskVars, crashes>>

\* finalize_check_run on the check the metadata name ...
FinalizeNamedCheck ==
  /\ hasId
  /\ \/ UpdateCheck(HeldVerdict) /\ finOk' = TRUE /\ UNCHANGED faults
     \/ /\ Fault
        /\ finOk' = FALSE
        /\ check' \in {check, HeldVerdict}
        /\ UNCHANGED strays

\* ... and without one: a new check is created on every call, then concluded,
\* and its id is not kept.
FinalizeNewCheck ==
  /\ ~hasId
  /\ \/ check' = HeldVerdict /\ LeaveBehind /\ finOk' = TRUE /\ UNCHANGED faults
     \/ /\ Fault
        /\ finOk' = FALSE
        /\ OpenCheck \/ UNCHANGED <<check, strays>>

FinalizeCheck ==
  /\ stage = "finalize"
  /\ round < 4 /\ ~forced
  /\ FinalizeNamedCheck \/ FinalizeNewCheck
  /\ Goto("status")
  /\ UNCHANGED <<argVars, wf, round, held, todo, hasId, exits,
                 bucketVars, status, taskVars, crashes>>

\* close_check_from_stage, under force_pass as well, and only a named check.
CloseCheck ==
  /\ stage = "finalize"
  /\ round = 4
  /\ FinalizeNamedCheck
  /\ Goto("status")
  /\ UNCHANGED <<argVars, wf, round, held, todo, hasId, exits,
                 bucketVars, status, taskVars, crashes>>

\* Mutant of PostFinalStatus: the state of the status is whether the check was
\* finalized.
PostFinalizedStatus ==
  /\ stage = "status"
  /\ status' = IF finOk THEN "success" ELSE "failure"
  /\ Goto(IF finOk THEN "persist" ELSE "judge")
  /\ UNCHANGED <<argVars, wf, round, held, todo, finOk, hasId, exits,
                 bucketVars, check, strays, taskVars, crashes, faults>>

\* _post_final_status_with_retries, whatever became of the check.
PostFinalStatus ==
  /\ stage = "status"
  /\ PostStatus(HeldVerdict)
  /\ Goto(IF finOk /\ faults' = faults THEN "persist" ELSE "judge")
  /\ UNCHANGED <<argVars, wf, round, held, todo, finOk, hasId, exits,
                 bucketVars, check, strays, taskVars, crashes>>

\* _persist_github_publish_complete, only when both calls succeeded.
PersistComplete ==
  /\ stage = "persist"
  /\ meta' = IF hasId THEN "complete" ELSE "anonymous"
  /\ Goto("judge")
  /\ UNCHANGED <<argVars, wf, round, held, todo, finOk, hasId, exits,
                 planFile, summary, recorded, githubVars, taskVars, crashes, faults>>

\* Where publish_github_failure returns to.
AfterFailure == IF wf = "coordinator" THEN "cleanPlan" ELSE "exit"

\* Mutant of Judge: no second publish and no last resort.
JudgeOnce ==
  /\ stage = "judge"
  /\ Goto("cleanPlan")
  /\ UNCHANGED <<argVars, wf, round, held, todo, finOk, hasId, exits,
                 bucketVars, githubVars, taskVars, crashes, faults>>

\* The last resort closes the check of a failing run ...
CloseFailed ==
  /\ ~PublishComplete
  /\ round = 3
  /\ HeldVerdict = "failure"
  /\ EnterPublish(4)

\* ... and gives up on a passing one, rather than close it as failed.
GiveUp ==
  /\ ~PublishComplete
  /\ round = 4 \/ (round = 3 /\ HeldVerdict = "success")
  /\ Goto(AfterFailure)
  /\ UNCHANGED <<round, finOk, hasId>>

\* The metadata is read back: complete, or on to the next resort.
Judge ==
  /\ stage = "judge"
  /\ \/ /\ PublishComplete
        /\ Goto(IF round \in {1, 2} THEN "cleanPlan" ELSE AfterFailure)
        /\ UNCHANGED <<round, finOk, hasId>>
     \/ /\ ~PublishComplete
        /\ \/ round = 1 /\ Goto("reload")
           \/ round = 2 /\ Goto("sync")
        /\ UNCHANGED <<round, finOk, hasId>>
     \/ CloseFailed \/ GiveUp
  /\ UNCHANGED <<argVars, wf, held, todo, exits,
                 bucketVars, githubVars, taskVars, crashes, faults>>

-----------------------------------------------------------------------------
(* publish_github_failure, from the coordinator's finally block and from   *)
(* run_finalize_failure_mode.                                              *)

FailureStarts ==
  /\ At("failure", "start")
  /\ Goto(IF planFile THEN "sync" ELSE "exit")
  /\ UNCHANGED <<argVars, wf, round, held, todo, finOk, hasId, exits,
                 bucketVars, githubVars, taskVars, crashes, faults>>

\* No check to close, or the publish is already complete, or no token.
NothingToClose ==
  /\ \/ meta # "open" /\ UNCHANGED faults
     \/ meta = "open" /\ Fault
  /\ Goto(AfterFailure)
  /\ UNCHANGED <<meta, held, round, finOk, hasId>>

\* A check that GitHub reports as completed counts as published.
CountsAsPublished ==
  /\ meta = "open"
  /\ CheckCompleted
  /\ meta' = "complete"
  /\ Goto(AfterFailure)
  /\ UNCHANGED <<held, round, finOk, hasId, faults>>

\* Otherwise, or when the check cannot be read: publish what is on disk.
PublishFromDisk ==
  /\ meta = "open"
  /\ \/ ~CheckCompleted /\ UNCHANGED faults
     \/ CheckCompleted /\ Fault
  /\ held' = LoadedSummaries
  /\ EnterPublish(3)
  /\ UNCHANGED meta

SyncWithGitHub ==
  /\ stage = "sync"
  /\ NothingToClose \/ CountsAsPublished \/ PublishFromDisk
  /\ UNCHANGED <<argVars, wf, todo, exits, planFile, summary, recorded,
                 githubVars, taskVars, crashes>>

-----------------------------------------------------------------------------
(* cleanup_ephemeral_triggers: plan, metadata, then summaries; an OSError  *)
(* leaves the object and goes on.                                          *)

StaysBehind == harsh /\ Fault

\* Mutant of CleanPlan: the plan is not among the objects removed.
KeepPlan ==
  /\ stage = "cleanPlan"
  /\ Goto(IF PublishComplete THEN "cleanMeta" ELSE "exit")
  /\ UNCHANGED <<argVars, wf, round, held, todo, finOk, hasId, exits,
                 bucketVars, githubVars, taskVars, crashes, faults>>

CleanPlan ==
  /\ stage = "cleanPlan"
  /\ \/ /\ PublishComplete
        /\ \/ planFile' = FALSE /\ UNCHANGED faults
           \/ StaysBehind /\ UNCHANGED planFile
        /\ Goto("cleanMeta")
     \/ /\ ~PublishComplete
        /\ Goto("exit")
        /\ UNCHANGED <<planFile, faults>>
  /\ UNCHANGED <<argVars, wf, round, held, todo, finOk, hasId, exits,
                 meta, summary, recorded, githubVars, taskVars, crashes>>

CleanMeta ==
  /\ stage = "cleanMeta"
  /\ \/ meta' = "none" /\ UNCHANGED faults
     \/ StaysBehind /\ UNCHANGED meta
  /\ Goto("cleanSummaries")
  /\ UNCHANGED <<argVars, wf, round, held, todo, finOk, hasId, exits,
                 planFile, summary, recorded, githubVars, taskVars, crashes>>

CleanSummaries ==
  /\ stage = "cleanSummaries"
  /\ \/ summary' = [l \in Legs |-> "none"] /\ UNCHANGED faults
     \/ StaysBehind /\ UNCHANGED summary
  /\ Goto("exit")
  /\ UNCHANGED <<argVars, wf, round, held, todo, finOk, hasId, exits,
                 planFile, meta, recorded, githubVars, taskVars, crashes>>

-----------------------------------------------------------------------------
Workflow == TaskJobEnds \/ TaskJobTimesOut \/ ControlJobEnds

ControlStep ==
  \/ WritePlan \/ EnsureReporting \/ PersistReporting
  \/ LoadSummaries \/ PlanIsGone \/ (\E l \in Legs : RecordPointer(l))
  \/ PointersDone \/ CoordinatorRaises \/ ReloadSummaries
  \/ SkipPublish \/ FinalizeCheck \/ CloseCheck \/ PostFinalStatus
  \/ PersistComplete \/ Judge
  \/ FailureStarts \/ SyncWithGitHub
  \/ CleanPlan \/ CleanMeta \/ CleanSummaries

TaskStep(l) == TaskStarts(l) \/ ReadMetadata(l) \/ PostProgress(l) \/ RunLeg(l)

Next ==
  \/ Workflow
  \/ ControlStep
  \/ ControlDies
  \/ \E l \in Legs : TaskStep(l) \/ TaskDies(l)

\* Google Workflows takes the next step, and Cloud Run runs every container
\* it has started.
Fairness ==
  /\ WF_vars(Workflow)
  /\ WF_vars(ControlStep)
  /\ \A l \in Legs : WF_vars(TaskStep(l))

Spec == Init /\ [][Next]_vars
FairSpec == Spec /\ Fairness

-----------------------------------------------------------------------------
(* Properties.                                                             *)

\* What the summaries on disk amount to.
LegsVerdict ==
  IF Legs # {} /\ (\A l \in Legs : summary[l] = "pass") THEN "success" ELSE "failure"

(* What is published is the verdict of the summaries of all legs at that   *)
(* moment: green only when each of them passes, red only when one is       *)
(* failing or missing.  (A harsh execution may publish while a task that   *)
(* outlived its connector still runs.)                                     *)
PublishedIsVerdict ==
  [][~forced /\ ~harsh =>
     /\ check' # check /\ check' \in Concluded => check' = LegsVerdict
     /\ status' # status => status' = LegsVerdict]_vars

(* A concluded gate keeps its verdict: no retry of a container, no second  *)
(* publish and no cleanup in between turns it around, and it is reopened   *)
(* only by creating another check where the metadata names none.           *)
VerdictIsFinal ==
  [][~forced /\ ~harsh =>
     /\ check \in Concluded => check' \in {check, "in_progress"}
     /\ check \in Concluded /\ NamesCheck => check' = check
     /\ status \in Concluded => status' = status]_vars

(* The check and the commit status never contradict each other, and        *)
(* current.json of a leg is not moved under the opposite verdict.  Under   *)
(* force_pass the check is never open: no task and no restarted job takes  *)
(* back the override, so that the pull request is not blocked while the    *)
(* legs run.                                                               *)
NoSplitBrain ==
  /\ ~forced /\ ~harsh =>
       /\ check \in Concluded /\ status \in Concluded => check = status
       /\ check = "success" => \A l \in Legs : recorded[l] # "fail"
  /\ forced => check # "in_progress" /\ strays = 0

(* Ephemeral triggers are removed only after the check is finalized and    *)
(* the commit status is posted.                                            *)
CleanupAfterBothPublished ==
  [][~forced /\ planFile /\ ~planFile' => check \in Concluded /\ status \in Concluded]_vars

(* Under force_pass the check turns to failure, later, when legs fail.     *)
ForcedGateIsUpdated ==
  wf = "done" /\ forced /\ (\A l \in Legs : recorded[l] = "fail") => check # "success"

(* The execution comes to an end.                                          *)
ExecutionEnds == <>(wf \in {"done", "failed"})

(* A check that reporting metadata names is concluded in the end, although *)
(* one container dies and one call fails on the way.  (More can defeat all *)
(* the last resorts: a passing run whose publish keeps failing is given up *)
(* on, rather than closed as failed.)                                      *)
OpenCheckIsConcluded ==
  meta = "open" /\ ~harsh ~> check \in Concluded \/ crashes > 1 \/ faults > 1
=============================================================================
