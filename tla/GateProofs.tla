----------------------------- MODULE GateProofs -----------------------------
(***************************************************************************)
(* Theorems about the gate of a pull request: Pipeline, one execution up   *)
(* to the check and the commit status, for any legs and any bound on what  *)
(* fails; and HandoffGate, the commit status over the attempts of a        *)
(* handoff.                                                                *)
(***************************************************************************)
EXTENDS Pipeline, HandoffGate, TLAPS

USE DEF argVars, controlVars, exits, bucketVars, githubVars, taskVars, inputs, runs, ends

-----------------------------------------------------------------------------
(* Pipeline: type correctness.                                             *)

LEMMA LoadedSummariesType == LoadedSummaries \in [Legs -> {"pass", "fail"}]
  BY DEF LoadedSummaries

LEMMA VerdictType == ASSUME NEW statuses PROVE Verdict(statuses) \in Concluded
  BY DEF Verdict, Concluded

LEMMA EnterPublishType ==
  ASSUME NEW n, EnterPublish(n)
  PROVE  round' = n /\ finOk' = FALSE /\ hasId' \in BOOLEAN /\ stage' = "finalize"
  BY DEF EnterPublish, NamesCheck, Goto

\* TypeOK in two parts: the workflow with its control container, and the rest.
ControlTypeOK ==
  /\ wf \in Control \cup {"standard", "heavy", "done", "failed"}
  /\ stage \in Stages
  /\ round \in {1, 2, 3, 4}
  /\ held \in [Legs -> {"pass", "fail"}]
  /\ todo \subseteq Legs
  /\ finOk \in BOOLEAN
  /\ hasId \in BOOLEAN
  /\ restarts \in 0 .. MaxRetries
  /\ raised \in BOOLEAN

DataTypeOK ==
  /\ harsh \in Conditions /\ forced \in BOOLEAN
  /\ planFile \in BOOLEAN
  /\ meta \in {"none", "open", "complete", "anonymous"}
  /\ summary \in [Legs -> {"none", "pass", "fail"}]
  /\ recorded \in [Legs -> {"none", "pass", "fail"}]
  /\ check \in {"none", "in_progress"} \cup Concluded
  /\ strays \in Nat
  /\ status \in {"pending"} \cup Concluded
  /\ task \in [Legs -> TaskStates]
  /\ taskTries \in [Legs -> 0 .. MaxRetries]
  /\ crashes \in 0 .. MaxCrashes
  /\ faults \in 0 .. FaultBound

LEMMA InitTypeOK == Init => TypeOK
<1> SUFFICES ASSUME Init PROVE TypeOK
  OBVIOUS
<1>0. {MaxRetries, MaxCrashes, MaxFaults, MaxHarshFaults} \subseteq Nat
  BY BoundsAssumption
<1>a. 0 \in 0 .. MaxRetries /\ 0 \in 0 .. MaxCrashes /\ 0 \in 0 .. FaultBound
  BY <1>0 DEF FaultBound
<1>1. ControlTypeOK
  BY <1>a DEF Init, ControlTypeOK, Stages, Control
<1>2. DataTypeOK
  BY <1>a DEF Init, DataTypeOK, TaskStates
<1> QED
  BY <1>1, <1>2 DEF TypeOK, ControlTypeOK, DataTypeOK

LEMMA TypeParts == TypeOK <=> ControlTypeOK /\ DataTypeOK
  BY DEF TypeOK, ControlTypeOK, DataTypeOK

\* The steps of the workflow from one container to the next.
LEMMA EnterJobType ==
  ASSUME ControlTypeOK, NEW w \in Control, EnterJob(w) PROVE ControlTypeOK'
<1>1. restarts' \in 0 .. MaxRetries
  BY BoundsAssumption DEF EnterJob
<1> QED
  BY <1>1 DEF EnterJob, Goto, ControlTypeOK, Stages

LEMMA ControlFailsType ==
  ASSUME ControlTypeOK, wf \in Control, ControlFails PROVE ControlTypeOK'
<1>1. CASE restarts < MaxRetries /\ restarts' = restarts + 1 /\ raised' = FALSE
           /\ Goto("start") /\ UNCHANGED <<wf, round, held, todo, finOk, hasId>>
  <2>1. restarts' \in 0 .. MaxRetries
    BY <1>1, BoundsAssumption DEF ControlTypeOK
  <2> QED
    BY <1>1, <2>1 DEF Goto, ControlTypeOK, Stages
<1>2. CASE EnterJob("failure")
  BY <1>2, EnterJobType DEF Control
<1>3. CASE wf' = "failed" /\ Goto("exit") /\ raised' = FALSE
           /\ UNCHANGED <<round, held, todo, finOk, hasId, restarts>>
  BY <1>3 DEF Goto, ControlTypeOK, Stages
<1> QED
  BY <1>1, <1>2, <1>3 DEF ControlFails

LEMMA NextTypeOK == TypeOK /\ [Next]_vars => TypeOK'
<1> SUFFICES ASSUME TypeOK, [Next]_vars PROVE TypeOK'
  OBVIOUS
<1> USE DEF TypeOK, Stages, TaskStates, Control, Concluded, FaultBound
<1>0. harsh \in BOOLEAN /\ {MaxRetries, MaxCrashes, MaxFaults, MaxHarshFaults} \subseteq Nat
  BY BoundsAssumption, ConditionsAssumption
<1>t. ControlTypeOK /\ "coordinator" \in Control /\ "failure" \in Control
  BY TypeParts
<1>1. CASE TaskJobEnds
  <2>1. ControlTypeOK'
    <3>1. CASE wf' = "heavy" /\ UNCHANGED controlVars
      BY <3>1 DEF ControlTypeOK
    <3>2. CASE EnterJob("coordinator")
      BY <3>2, <1>t, EnterJobType
    <3> QED
      BY <1>1, <3>1, <3>2 DEF TaskJobEnds
  <2> QED
    BY <1>1, <2>1, <1>0 DEF TaskJobEnds, ControlTypeOK
<1>2. CASE TaskJobTimesOut
  <2>1. ControlTypeOK'
    <3>1. CASE wf' = "heavy" /\ UNCHANGED controlVars
      BY <3>1 DEF ControlTypeOK
    <3>2. CASE EnterJob("coordinator")
      BY <3>2, <1>t, EnterJobType
    <3> QED
      BY <1>2, <3>1, <3>2 DEF TaskJobTimesOut
  <2> QED
    BY <1>2, <2>1, <1>0 DEF TaskJobTimesOut, ControlTypeOK
<1>3. CASE ControlJobEnds
  <2>1. ControlTypeOK' /\ faults' \in 0 .. FaultBound
    <3>1. CASE raised /\ ControlFails /\ UNCHANGED faults
      BY <1>3, <3>1, <1>t, ControlFailsType DEF ControlJobEnds
    <3>2. CASE wf' \in {"standard", "done"} /\ UNCHANGED <<controlVars, faults>>
      BY <3>2 DEF ControlTypeOK
    <3>3. CASE Fault /\ EnterJob("failure")
      BY <3>3, <1>0, <1>t, EnterJobType DEF Fault
    <3> QED
      BY <1>3, <3>1, <3>2, <3>3 DEF ControlJobEnds, Exits
  <2> QED
    BY <1>3, <2>1 DEF ControlJobEnds, ControlTypeOK
<1>4. CASE ControlDies
  <2>1. ControlTypeOK'
    BY <1>4, <1>t, ControlFailsType DEF ControlDies
  <2> QED
    BY <1>4, <2>1, <1>0 DEF ControlDies, ControlTypeOK
<1>5. CASE WritePlan
  BY <1>5, <1>0 DEF WritePlan, At, Goto
<1>6. CASE EnsureReporting
  BY <1>6, <1>0 DEF EnsureReporting, At, Goto, LeaveBehind, Fault,
       ReuseReporting, ReportingUnavailable, CreateStartedCheck, CreateOverrideCheck, OpenCheck, OverrideCheck, PostStatus
<1>7. CASE PersistReporting
  BY <1>7, <1>0 DEF PersistReporting, At, Goto
<1>8. CASE LoadSummaries
  BY <1>8, LoadedSummariesType DEF LoadSummaries, At, Goto
<1>9. CASE PlanIsGone
  <2>1. ControlTypeOK'
    BY <1>9, <1>t, ControlFailsType DEF PlanIsGone, At
  <2> QED
    BY <1>9, <2>1 DEF PlanIsGone, ControlTypeOK
<1>10. ASSUME NEW l \in Legs, RecordPointer(l) PROVE TypeOK'
  BY <1>10, <1>0 DEF RecordPointer, At
<1>11. CASE PointersDone
  BY <1>11, EnterPublishType DEF PointersDone, At
<1>12. CASE CoordinatorRaises
  <2>1. ControlTypeOK'
    BY <1>12 DEF CoordinatorRaises, Goto, ControlTypeOK
  <2>2. DataTypeOK'
    BY <1>12, <1>0 DEF CoordinatorRaises, Fault, DataTypeOK
  <2> QED
    BY <2>1, <2>2 DEF ControlTypeOK, DataTypeOK
<1>13. CASE ReloadSummaries
  BY <1>13, LoadedSummariesType, EnterPublishType DEF ReloadSummaries, At
<1>14. CASE SkipPublish
  BY <1>14, <1>0 DEF SkipPublish, Goto, Fault
<1>15. CASE FinalizeCheck \/ CloseCheck
  <2>1. ControlTypeOK'
    BY <1>15, <1>0, VerdictType DEF FinalizeCheck, Goto, Fault, LeaveBehind, ControlTypeOK,
       CloseCheck, FinalizeNamedCheck, FinalizeNewCheck, UpdateCheck, OpenCheck, HeldVerdict
  <2>2. DataTypeOK'
    BY <1>15, <1>0, VerdictType DEF FinalizeCheck, Goto, Fault, LeaveBehind, DataTypeOK,
       CloseCheck, FinalizeNamedCheck, FinalizeNewCheck, UpdateCheck, OpenCheck, HeldVerdict
  <2> QED
    BY <2>1, <2>2 DEF ControlTypeOK, DataTypeOK
<1>16. CASE PostFinalStatus
  BY <1>16, <1>0, VerdictType DEF PostFinalStatus, Goto, Fault,
       PostStatus, HeldVerdict
<1>17. CASE PersistComplete
  BY <1>17, <1>0 DEF PersistComplete, Goto
<1>18. CASE Judge
  <2>1. ControlTypeOK'
    BY <1>18, <1>0, EnterPublishType DEF Judge, AfterFailure, Goto, ControlTypeOK,
       CloseFailed, GiveUp
  <2>2. DataTypeOK'
    BY <1>18, <1>0, EnterPublishType DEF Judge, AfterFailure, Goto, DataTypeOK,
       CloseFailed, GiveUp
  <2> QED
    BY <2>1, <2>2 DEF ControlTypeOK, DataTypeOK
<1>19. CASE FailureStarts
  BY <1>19, <1>0 DEF FailureStarts, At, Goto
<1>20. CASE SyncWithGitHub
  <2>1. ControlTypeOK'
    BY <1>20, <1>0, LoadedSummariesType, EnterPublishType
       DEF SyncWithGitHub, AfterFailure, Goto, Fault, ControlTypeOK,
       NothingToClose, CountsAsPublished, PublishFromDisk, CheckCompleted
  <2>2. DataTypeOK'
    BY <1>20, <1>0, LoadedSummariesType, EnterPublishType
       DEF SyncWithGitHub, AfterFailure, Goto, Fault, DataTypeOK,
       NothingToClose, CountsAsPublished, PublishFromDisk, CheckCompleted
  <2> QED
    BY <2>1, <2>2 DEF ControlTypeOK, DataTypeOK
<1>21. CASE CleanPlan
  <2>1. ControlTypeOK'
    BY <1>21 DEF CleanPlan, Goto, ControlTypeOK
  <2>2. planFile' \in BOOLEAN
    BY <1>21 DEF CleanPlan
  <2>3. faults' \in 0 .. FaultBound
    BY <1>21, <1>0 DEF CleanPlan, StaysBehind, Fault
  <2>4. DataTypeOK'
    BY <1>21, <2>2, <2>3 DEF CleanPlan, DataTypeOK
  <2> QED
    BY <2>1, <2>4 DEF ControlTypeOK, DataTypeOK
<1>22. CASE CleanMeta
  BY <1>22, <1>0 DEF CleanMeta, Goto, StaysBehind, Fault
<1>23. CASE CleanSummaries
  BY <1>23, <1>0 DEF CleanSummaries, Goto, StaysBehind, Fault
<1>24. ASSUME NEW l \in Legs, TaskStarts(l) PROVE TypeOK'
  BY <1>24, <1>0 DEF TaskStarts, Move
<1>25. ASSUME NEW l \in Legs, ReadMetadata(l) PROVE TypeOK'
  BY <1>25, <1>0 DEF ReadMetadata, Move
<1>26. ASSUME NEW l \in Legs, PostProgress(l) PROVE TypeOK'
  BY <1>26, <1>0 DEF PostProgress, Move, Fault,
       UpdateCheck
<1>27. ASSUME NEW l \in Legs, RunLeg(l) PROVE TypeOK'
  BY <1>27, <1>0 DEF RunLeg, Move
<1>28. ASSUME NEW l \in Legs, TaskDies(l) PROVE TypeOK'
  BY <1>28, <1>0 DEF TaskDies, Move
<1>29. CASE UNCHANGED vars
  BY <1>29, <1>0 DEF vars
<1> QED
  BY <1>1, <1>2, <1>3, <1>4, <1>5, <1>6, <1>7, <1>8, <1>9, <1>10, <1>11, <1>12, <1>13,
     <1>14, <1>15, <1>16, <1>17, <1>18, <1>19, <1>20, <1>21, <1>22, <1>23, <1>24, <1>25,
     <1>26, <1>27, <1>28, <1>29
     DEF Next, Workflow, ControlStep, TaskStep

-----------------------------------------------------------------------------
(* Pipeline: the inductive invariant.                                      *)

Late == {"coordinator", "failure", "done", "failed"}
Over == {"done", "dead"}
Publishing == {"finalize", "status", "persist", "judge"}

\* A container is where its mode can be.
StageOfJob ==
  /\ wf \in {"standard", "heavy", "done", "failed"} => stage = "exit"
  /\ wf = "plan" => stage \in {"start", "report", "persistCheck", "exit"}
  /\ wf = "failure" => stage \in {"start", "sync", "exit"} \cup Publishing
  /\ wf = "coordinator" => stage \notin {"report", "persistCheck"}
  /\ wf = "failure" /\ stage \in Publishing => round \in {3, 4}

\* No task runs beside the jobs after the tasks, unless its job timed out.
TasksQuiet ==
  /\ wf = "plan" => \A l \in Legs : task[l] = "idle"
  /\ ~harsh /\ wf = "heavy" => \A l \in Legs : Profile[l] = "standard" => task[l] \in Over
  /\ ~harsh /\ wf \in Late => \A l \in Legs : task[l] \in Over \cup {"idle"}
  /\ forced => \A l \in Legs : task[l] \notin {"announcing", "reporting"}

\* A container that publishes holds the summaries on disk and the check id of
\* the metadata on disk, and the plan is there until the cleanup.
WorkingCopy ==
  /\ stage = "finalize" => hasId = NamesCheck
  /\ stage \in Publishing /\ round \in {3, 4} => hasId /\ NamesCheck
  /\ ~harsh /\ stage \in {"pointers", "reload", "sync", "cleanPlan"} \cup Publishing => planFile
  /\ ~harsh /\ stage \in {"cleanMeta", "cleanSummaries"} => ~planFile
  /\ ~harsh /\ stage \in {"pointers"} \cup Publishing => held = LoadedSummaries

\* Without the override nothing is decided before the tasks are over, and
\* what is decided is the verdict of the summaries as long as they are kept.
Decided ==
  ~forced /\ ~harsh =>
    /\ wf \notin Late =>
         check \notin Concluded /\ status = "pending" /\ \A l \in Legs : recorded[l] = "none"
    /\ wf \in Late /\ planFile =>
         /\ check \in Concluded => check = LegsVerdict
         /\ status \in Concluded => status = LegsVerdict
         /\ \A l \in Legs : recorded[l] \in {"none", LoadedSummaries[l]}

PipelineInv ==
  TypeOK /\ StageOfJob /\ TasksQuiet /\ WorkingCopy /\ Decided /\ NoSplitBrain

LEMMA InitPipelineInv == Init => PipelineInv
<1> SUFFICES ASSUME Init PROVE PipelineInv
  OBVIOUS
<1>1. TypeOK
  BY InitTypeOK
<1>2. StageOfJob
  BY DEF Init, StageOfJob, Publishing
<1>3. TasksQuiet
  BY DEF Init, TasksQuiet, Late
<1>4. WorkingCopy
  BY DEF Init, WorkingCopy, Publishing
<1>5. Decided /\ NoSplitBrain
  BY DEF Init, Decided, NoSplitBrain, Late, Concluded
<1> QED
  BY <1>1, <1>2, <1>3, <1>4, <1>5 DEF PipelineInv

LEMMA NextStageOfJob == TypeOK /\ StageOfJob /\ [Next]_vars => StageOfJob'
<1> SUFFICES ASSUME TypeOK /\ StageOfJob, [Next]_vars PROVE StageOfJob'
  OBVIOUS
<1> USE DEF StageOfJob, Publishing, Control
<1>1. CASE TaskJobEnds
  BY <1>1 DEF TaskJobEnds, EnterJob, Goto, TasksOver
<1>2. CASE TaskJobTimesOut
  BY <1>2 DEF TaskJobTimesOut, EnterJob, Goto
<1>3. CASE ControlJobEnds
  BY <1>3 DEF ControlJobEnds, Exits, ControlFails, EnterJob, Goto, Fault, Control
<1>4. CASE ControlDies
  BY <1>4 DEF ControlDies, ControlFails, EnterJob, Goto, Control
<1>5. CASE WritePlan
  BY <1>5 DEF WritePlan, At, Goto
<1>6. CASE EnsureReporting
  BY <1>6 DEF EnsureReporting, At, Goto, LeaveBehind, Fault,
       ReuseReporting, ReportingUnavailable, CreateStartedCheck, CreateOverrideCheck, OpenCheck, OverrideCheck, PostStatus
<1>7. CASE PersistReporting
  BY <1>7 DEF PersistReporting, At, Goto
<1>8. CASE LoadSummaries
  BY <1>8 DEF LoadSummaries, At, Goto, LoadedSummaries
<1>9. CASE PlanIsGone
  BY <1>9 DEF PlanIsGone, At, ControlFails, EnterJob, Goto
<1>10. ASSUME NEW l \in Legs, RecordPointer(l) PROVE StageOfJob'
  BY <1>10 DEF RecordPointer, At
<1>11. CASE PointersDone
  BY <1>11 DEF PointersDone, At, EnterPublish, Goto
<1>12. CASE CoordinatorRaises
  BY <1>12 DEF CoordinatorRaises, Goto, Fault
<1>13. CASE ReloadSummaries
  BY <1>13 DEF ReloadSummaries, At, EnterPublish, Goto, LoadedSummaries
<1>14. CASE SkipPublish
  BY <1>14 DEF SkipPublish, Goto, Fault
<1>15. CASE FinalizeCheck \/ CloseCheck
  BY <1>15 DEF FinalizeCheck, Goto, Fault, LeaveBehind, Verdict,
       CloseCheck, FinalizeNamedCheck, FinalizeNewCheck, UpdateCheck, OpenCheck, HeldVerdict
<1>16. CASE PostFinalStatus
  BY <1>16 DEF PostFinalStatus, Goto, Fault, Verdict,
       PostStatus, HeldVerdict
<1>17. CASE PersistComplete
  BY <1>17 DEF PersistComplete, Goto
<1>18. CASE Judge
  BY <1>18 DEF Judge, EnterPublish, AfterFailure, Goto,
       CloseFailed, GiveUp
<1>19. CASE FailureStarts
  BY <1>19 DEF FailureStarts, At, Goto
<1>20. CASE SyncWithGitHub
  BY <1>20 DEF SyncWithGitHub, EnterPublish, AfterFailure, Goto, Fault, LoadedSummaries,
       NothingToClose, CountsAsPublished, PublishFromDisk, CheckCompleted
<1>21. CASE CleanPlan
  BY <1>21 DEF CleanPlan, Goto, StaysBehind, Fault
<1>22. CASE CleanMeta
  BY <1>22 DEF CleanMeta, Goto, StaysBehind, Fault
<1>23. CASE CleanSummaries
  BY <1>23 DEF CleanSummaries, Goto, StaysBehind, Fault
<1>24. ASSUME NEW l \in Legs, TaskStarts(l) PROVE StageOfJob'
  BY <1>24 DEF TaskStarts, Move
<1>25. ASSUME NEW l \in Legs, ReadMetadata(l) PROVE StageOfJob'
  BY <1>25 DEF ReadMetadata, Move
<1>26. ASSUME NEW l \in Legs, PostProgress(l) PROVE StageOfJob'
  BY <1>26 DEF PostProgress, Move, Fault,
       UpdateCheck
<1>27. ASSUME NEW l \in Legs, RunLeg(l) PROVE StageOfJob'
  BY <1>27 DEF RunLeg, Move
<1>28. ASSUME NEW l \in Legs, TaskDies(l) PROVE StageOfJob'
  BY <1>28 DEF TaskDies, Move
<1>29. CASE UNCHANGED vars
  BY <1>29 DEF vars
<1> QED
  BY <1>1, <1>2, <1>3, <1>4, <1>5, <1>6, <1>7, <1>8, <1>9, <1>10, <1>11, <1>12, <1>13,
     <1>14, <1>15, <1>16, <1>17, <1>18, <1>19, <1>20, <1>21, <1>22, <1>23, <1>24, <1>25,
     <1>26, <1>27, <1>28, <1>29
     DEF Next, Workflow, ControlStep, TaskStep

\* A task that takes a step is waited for, unless its job timed out.
LEMMA RunningTask ==
  ASSUME TypeOK, TasksQuiet, NEW l \in Legs, task[l] \notin Over, task[l] = "idle" => wf = Profile[l]
  PROVE  /\ wf # "plan"
         /\ ~harsh => wf \notin Late /\ (wf = "heavy" => Profile[l] # "standard")
  BY ProfileAssumption DEF TypeOK, TasksQuiet, Late, Over

LEMMA MovedTask ==
  ASSUME TypeOK, TasksQuiet, NEW l \in Legs, task[l] \notin Over, task[l] = "idle" => wf = Profile[l],
         NEW state, Move(l, state), forced => state \notin {"announcing", "reporting"},
         UNCHANGED <<wf, argVars>>
  PROVE  TasksQuiet'
<1>1. \A k \in Legs : task'[k] = IF k = l THEN state ELSE task[k]
  BY DEF Move, TypeOK
<1> QED
  BY <1>1, RunningTask DEF TasksQuiet

LEMMA NextTasksQuiet == TypeOK /\ StageOfJob /\ TasksQuiet /\ [Next]_vars => TasksQuiet'
<1> SUFFICES ASSUME TypeOK /\ StageOfJob /\ TasksQuiet, [Next]_vars PROVE TasksQuiet'
  OBVIOUS
<1> USE DEF TasksQuiet, Late, Over, Control
<1>1. CASE TaskJobEnds
  BY <1>1, ProfileAssumption DEF TaskJobEnds, EnterJob, Goto, TasksOver
<1>2. CASE TaskJobTimesOut
  BY <1>2 DEF TaskJobTimesOut, EnterJob, Goto
<1>3. CASE ControlJobEnds
  BY <1>3 DEF ControlJobEnds, Exits, ControlFails, EnterJob, Goto, Fault, Control
<1>4. CASE ControlDies
  BY <1>4 DEF ControlDies, ControlFails, EnterJob, Goto, Control
<1>5. CASE WritePlan
  BY <1>5 DEF WritePlan, At, Goto
<1>6. CASE EnsureReporting
  BY <1>6 DEF EnsureReporting, At, Goto, LeaveBehind, Fault,
       ReuseReporting, ReportingUnavailable, CreateStartedCheck, CreateOverrideCheck, OpenCheck, OverrideCheck, PostStatus
<1>7. CASE PersistReporting
  BY <1>7 DEF PersistReporting, At, Goto
<1>8. CASE LoadSummaries
  BY <1>8 DEF LoadSummaries, At, Goto, LoadedSummaries
<1>9. CASE PlanIsGone
  BY <1>9 DEF PlanIsGone, At, ControlFails, EnterJob, Goto
<1>10. ASSUME NEW l \in Legs, RecordPointer(l) PROVE TasksQuiet'
  BY <1>10 DEF RecordPointer, At
<1>11. CASE PointersDone
  BY <1>11 DEF PointersDone, At, EnterPublish, Goto
<1>12. CASE CoordinatorRaises
  BY <1>12 DEF CoordinatorRaises, Goto, Fault
<1>13. CASE ReloadSummaries
  BY <1>13 DEF ReloadSummaries, At, EnterPublish, Goto, LoadedSummaries
<1>14. CASE SkipPublish
  BY <1>14 DEF SkipPublish, Goto, Fault
<1>15. CASE FinalizeCheck \/ CloseCheck
  BY <1>15 DEF FinalizeCheck, Goto, Fault, LeaveBehind, Verdict,
       CloseCheck, FinalizeNamedCheck, FinalizeNewCheck, UpdateCheck, OpenCheck, HeldVerdict
<1>16. CASE PostFinalStatus
  BY <1>16 DEF PostFinalStatus, Goto, Fault, Verdict,
       PostStatus, HeldVerdict
<1>17. CASE PersistComplete
  BY <1>17 DEF PersistComplete, Goto
<1>18. CASE Judge
  BY <1>18 DEF Judge, EnterPublish, AfterFailure, Goto,
       CloseFailed, GiveUp
<1>19. CASE FailureStarts
  BY <1>19 DEF FailureStarts, At, Goto
<1>20. CASE SyncWithGitHub
  BY <1>20 DEF SyncWithGitHub, EnterPublish, AfterFailure, Goto, Fault, LoadedSummaries,
       NothingToClose, CountsAsPublished, PublishFromDisk, CheckCompleted
<1>21. CASE CleanPlan
  BY <1>21 DEF CleanPlan, Goto, StaysBehind, Fault
<1>22. CASE CleanMeta
  BY <1>22 DEF CleanMeta, Goto, StaysBehind, Fault
<1>23. CASE CleanSummaries
  BY <1>23 DEF CleanSummaries, Goto, StaysBehind, Fault
<1>24. ASSUME NEW l \in Legs, TaskStarts(l) PROVE TasksQuiet'
  <2>1. PICK state : Move(l, state) /\ (forced => state \notin {"announcing", "reporting"})
    BY <1>24 DEF TaskStarts
  <2> QED
    BY <1>24, <2>1, MovedTask DEF TaskStarts
<1>25. ASSUME NEW l \in Legs, ReadMetadata(l) PROVE TasksQuiet'
  <2>1. PICK state : Move(l, state) /\ (forced => state \notin {"announcing", "reporting"})
    BY <1>25 DEF ReadMetadata
  <2> QED
    BY <1>25, <2>1, MovedTask DEF ReadMetadata
<1>26. ASSUME NEW l \in Legs, PostProgress(l) PROVE TasksQuiet'
  <2>1. PICK state : Move(l, state) /\ (forced => state \notin {"announcing", "reporting"})
    BY <1>26 DEF PostProgress,
       UpdateCheck
  <2> QED
    BY <1>26, <2>1, MovedTask DEF PostProgress,
       UpdateCheck
<1>27. ASSUME NEW l \in Legs, RunLeg(l) PROVE TasksQuiet'
  <2>1. PICK state : Move(l, state) /\ (forced => state \notin {"announcing", "reporting"})
    BY <1>27 DEF RunLeg
  <2> QED
    BY <1>27, <2>1, MovedTask DEF RunLeg
<1>28. ASSUME NEW l \in Legs, TaskDies(l) PROVE TasksQuiet'
  <2>1. PICK state : Move(l, state) /\ (forced => state \notin {"announcing", "reporting"})
    BY <1>28 DEF TaskDies
  <2> QED
    BY <1>28, <2>1, MovedTask DEF TaskDies
<1>29. CASE UNCHANGED vars
  BY <1>29 DEF vars
<1> QED
  BY <1>1, <1>2, <1>3, <1>4, <1>5, <1>6, <1>7, <1>8, <1>9, <1>10, <1>11, <1>12, <1>13,
     <1>14, <1>15, <1>16, <1>17, <1>18, <1>19, <1>20, <1>21, <1>22, <1>23, <1>24, <1>25,
     <1>26, <1>27, <1>28, <1>29
     DEF Next, Workflow, ControlStep, TaskStep

LEMMA SummariesFrame ==
  UNCHANGED summary => LoadedSummaries' = LoadedSummaries /\ LegsVerdict' = LegsVerdict
  BY DEF LoadedSummaries, LegsVerdict

LEMMA NamesFrame == NamesCheck \in BOOLEAN /\ (UNCHANGED meta => NamesCheck' = NamesCheck)
  BY DEF NamesCheck

\* The verdict of the summaries is the same, loaded or on disk.
LEMMA LoadedVerdict ==
  ASSUME TypeOK
  PROVE  Verdict(LoadedSummaries) = LegsVerdict
  BY DEF Verdict, LoadedSummaries, LegsVerdict, TypeOK

LEMMA NextWorkingCopy ==
  TypeOK /\ StageOfJob /\ TasksQuiet /\ WorkingCopy /\ [Next]_vars
    => WorkingCopy'
<1> SUFFICES ASSUME TypeOK /\ StageOfJob /\ TasksQuiet /\ WorkingCopy,
                    [Next]_vars
             PROVE  WorkingCopy'
  OBVIOUS
<1> USE DEF StageOfJob, WorkingCopy, Publishing
<1>1. CASE TaskJobEnds
  BY <1>1, SummariesFrame, NamesFrame DEF TaskJobEnds, EnterJob, Goto, TasksOver
<1>2. CASE TaskJobTimesOut
  BY <1>2, SummariesFrame, NamesFrame DEF TaskJobTimesOut, EnterJob, Goto
<1>3. CASE ControlJobEnds
  BY <1>3, SummariesFrame, NamesFrame DEF ControlJobEnds, Exits, ControlFails, EnterJob, Goto, Fault, Control
<1>4. CASE ControlDies
  BY <1>4, SummariesFrame, NamesFrame
     DEF ControlDies, ControlFails, EnterJob, Goto, Control
<1>5. CASE WritePlan
  BY <1>5, SummariesFrame, NamesFrame DEF WritePlan, At, Goto
<1>6. CASE EnsureReporting
  BY <1>6, SummariesFrame, NamesFrame DEF EnsureReporting, At, Goto, LeaveBehind, Fault,
       ReuseReporting, ReportingUnavailable, CreateStartedCheck, CreateOverrideCheck, OpenCheck, OverrideCheck, PostStatus
<1>7. CASE PersistReporting
  BY <1>7, SummariesFrame, NamesFrame DEF PersistReporting, At, Goto
<1>8. CASE LoadSummaries
  BY <1>8, SummariesFrame, NamesFrame DEF LoadSummaries, At, Goto
<1>9. CASE PlanIsGone
  BY <1>9, SummariesFrame, NamesFrame DEF PlanIsGone, At, ControlFails, EnterJob, Goto
<1>10. ASSUME NEW l \in Legs, RecordPointer(l) PROVE WorkingCopy'
  BY <1>10, SummariesFrame, NamesFrame DEF RecordPointer, At
<1>11. CASE PointersDone
  BY <1>11, SummariesFrame, NamesFrame DEF PointersDone, At, EnterPublish, Goto
<1>12. CASE CoordinatorRaises
  BY <1>12, SummariesFrame, NamesFrame DEF CoordinatorRaises, Goto, Fault
<1>13. CASE ReloadSummaries
  BY <1>13, SummariesFrame, NamesFrame DEF ReloadSummaries, At, EnterPublish, Goto
<1>14. CASE SkipPublish
  BY <1>14, SummariesFrame, NamesFrame DEF SkipPublish, Goto, Fault
<1>15. CASE FinalizeCheck \/ CloseCheck
  BY <1>15, SummariesFrame, NamesFrame
     DEF FinalizeCheck, Goto, Fault, LeaveBehind, Verdict,
       CloseCheck, FinalizeNamedCheck, FinalizeNewCheck, UpdateCheck, OpenCheck, HeldVerdict
<1>16. CASE PostFinalStatus
  BY <1>16, SummariesFrame, NamesFrame DEF PostFinalStatus, Goto, Fault, Verdict,
       PostStatus, HeldVerdict
<1>17. CASE PersistComplete
  BY <1>17, SummariesFrame DEF PersistComplete, Goto, NamesCheck
<1>18. CASE Judge
  BY <1>18, SummariesFrame, NamesFrame DEF Judge, EnterPublish, AfterFailure, Goto,
       CloseFailed, GiveUp
<1>19. CASE FailureStarts
  BY <1>19, SummariesFrame, NamesFrame DEF FailureStarts, At, Goto
<1>20. CASE SyncWithGitHub
  BY <1>20, SummariesFrame
     DEF SyncWithGitHub, EnterPublish, AfterFailure, Goto, Fault, NamesCheck,
       NothingToClose, CountsAsPublished, PublishFromDisk, CheckCompleted
<1>21. CASE CleanPlan
  BY <1>21, SummariesFrame, NamesFrame DEF CleanPlan, Goto, StaysBehind, Fault
<1>22. CASE CleanMeta
  BY <1>22, SummariesFrame, NamesFrame DEF CleanMeta, Goto, StaysBehind, Fault
<1>23. CASE CleanSummaries
  BY <1>23, SummariesFrame, NamesFrame DEF CleanSummaries, Goto, StaysBehind, Fault
<1>24. ASSUME NEW l \in Legs, TaskStarts(l) PROVE WorkingCopy'
  BY <1>24, SummariesFrame, NamesFrame DEF TaskStarts, Move
<1>25. ASSUME NEW l \in Legs, ReadMetadata(l) PROVE WorkingCopy'
  BY <1>25, SummariesFrame, NamesFrame DEF ReadMetadata, Move
<1>26. ASSUME NEW l \in Legs, PostProgress(l) PROVE WorkingCopy'
  BY <1>26, SummariesFrame, NamesFrame DEF PostProgress, Move, Fault,
       UpdateCheck
<1>27. ASSUME NEW l \in Legs, RunLeg(l) PROVE WorkingCopy'
  <2>1. harsh \/ wf \notin Late
    BY <1>27, RunningTask DEF RunLeg, Over
  <2> QED
    BY <1>27, <2>1, NamesFrame DEF RunLeg, Late, TypeOK, Control
<1>28. ASSUME NEW l \in Legs, TaskDies(l) PROVE WorkingCopy'
  BY <1>28, SummariesFrame, NamesFrame DEF TaskDies, Move
<1>29. CASE UNCHANGED vars
  BY <1>29, SummariesFrame, NamesFrame DEF vars
<1> QED
  BY <1>1, <1>2, <1>3, <1>4, <1>5, <1>6, <1>7, <1>8, <1>9, <1>10, <1>11, <1>12, <1>13,
     <1>14, <1>15, <1>16, <1>17, <1>18, <1>19, <1>20, <1>21, <1>22, <1>23, <1>24, <1>25,
     <1>26, <1>27, <1>28, <1>29
     DEF Next, Workflow, ControlStep, TaskStep

\* A container publishes after the tasks, from what is on disk.
LEMMA PublishedFromDisk ==
  ASSUME TypeOK, StageOfJob, WorkingCopy, stage \in {"pointers"} \cup Publishing, ~harsh
  PROVE  wf \in Late /\ planFile /\ held = LoadedSummaries /\ Verdict(held) = LegsVerdict
  BY LoadedVerdict DEF StageOfJob, WorkingCopy, Publishing, Late, TypeOK, Control

LEMMA NextDecided ==
  TypeOK /\ StageOfJob /\ TasksQuiet /\ WorkingCopy /\ Decided /\ [Next]_vars
    => Decided'
<1> SUFFICES ASSUME TypeOK /\ StageOfJob /\ TasksQuiet /\ WorkingCopy /\ Decided,
                    [Next]_vars
             PROVE  Decided'
  OBVIOUS
<1> USE DEF Decided, Late, Concluded
<1>1. CASE TaskJobEnds
  BY <1>1, SummariesFrame DEF TaskJobEnds, EnterJob, Goto, TasksOver
<1>2. CASE TaskJobTimesOut
  BY <1>2, SummariesFrame DEF TaskJobTimesOut, EnterJob, Goto
<1>3. CASE ControlJobEnds
  BY <1>3, SummariesFrame DEF ControlJobEnds, Exits, ControlFails, EnterJob, Goto, Fault, Control
<1>4. CASE ControlDies
  BY <1>4, SummariesFrame DEF ControlDies, ControlFails, EnterJob, Goto, Control
<1>5. CASE WritePlan
  BY <1>5, SummariesFrame DEF WritePlan, At, Goto
<1>6. CASE EnsureReporting
  BY <1>6, SummariesFrame DEF EnsureReporting, At, Goto, LeaveBehind, Fault,
       ReuseReporting, ReportingUnavailable, CreateStartedCheck, CreateOverrideCheck, OpenCheck, OverrideCheck, PostStatus
<1>7. CASE PersistReporting
  BY <1>7, SummariesFrame DEF PersistReporting, At, Goto
<1>8. CASE LoadSummaries
  BY <1>8, SummariesFrame DEF LoadSummaries, At, Goto
<1>9. CASE PlanIsGone
  BY <1>9, SummariesFrame DEF PlanIsGone, At, ControlFails, EnterJob, Goto
<1>10. ASSUME NEW l \in Legs, RecordPointer(l) PROVE Decided'
  BY <1>10, SummariesFrame, PublishedFromDisk DEF RecordPointer, At, Publishing
<1>11. CASE PointersDone
  BY <1>11, SummariesFrame DEF PointersDone, At, EnterPublish, Goto
<1>12. CASE CoordinatorRaises
  BY <1>12, SummariesFrame DEF CoordinatorRaises, Goto, Fault
<1>13. CASE ReloadSummaries
  BY <1>13, SummariesFrame DEF ReloadSummaries, At, EnterPublish, Goto
<1>14. CASE SkipPublish
  BY <1>14, SummariesFrame DEF SkipPublish, Goto, Fault
<1>15. CASE FinalizeCheck \/ CloseCheck
  BY <1>15, SummariesFrame, PublishedFromDisk
     DEF FinalizeCheck, Goto, Fault, LeaveBehind, Publishing,
       CloseCheck, FinalizeNamedCheck, FinalizeNewCheck, UpdateCheck, OpenCheck, HeldVerdict
<1>16. CASE PostFinalStatus
  BY <1>16, SummariesFrame, PublishedFromDisk DEF PostFinalStatus, Goto, Fault, Publishing,
       PostStatus, HeldVerdict
<1>17. CASE PersistComplete
  BY <1>17, SummariesFrame DEF PersistComplete, Goto
<1>18. CASE Judge
  BY <1>18, SummariesFrame DEF Judge, EnterPublish, AfterFailure, Goto,
       CloseFailed, GiveUp
<1>19. CASE FailureStarts
  BY <1>19, SummariesFrame DEF FailureStarts, At, Goto
<1>20. CASE SyncWithGitHub
  BY <1>20, SummariesFrame DEF SyncWithGitHub, EnterPublish, AfterFailure, Goto, Fault,
       NothingToClose, CountsAsPublished, PublishFromDisk, CheckCompleted
<1>21. CASE CleanPlan
  BY <1>21, SummariesFrame DEF CleanPlan, Goto, StaysBehind, Fault
<1>22. CASE CleanMeta
  BY <1>22, SummariesFrame DEF CleanMeta, Goto, StaysBehind, Fault
<1>23. CASE CleanSummaries
  BY <1>23 DEF CleanSummaries, Goto, StaysBehind, Fault, WorkingCopy
<1>24. ASSUME NEW l \in Legs, TaskStarts(l) PROVE Decided'
  BY <1>24, SummariesFrame DEF TaskStarts, Move
<1>25. ASSUME NEW l \in Legs, ReadMetadata(l) PROVE Decided'
  BY <1>25, SummariesFrame DEF ReadMetadata, Move
<1>26. ASSUME NEW l \in Legs, PostProgress(l) PROVE Decided'
  <2>1. harsh \/ wf \notin Late
    BY <1>26, RunningTask DEF PostProgress, Over,
       UpdateCheck
  <2> QED
    BY <1>26, <2>1, SummariesFrame DEF PostProgress, Fault, Concluded,
       UpdateCheck
<1>27. ASSUME NEW l \in Legs, RunLeg(l) PROVE Decided'
  <2>1. harsh \/ wf \notin Late
    BY <1>27, RunningTask DEF RunLeg, Over
  <2> QED
    BY <1>27, <2>1, SummariesFrame DEF RunLeg
<1>28. ASSUME NEW l \in Legs, TaskDies(l) PROVE Decided'
  BY <1>28, SummariesFrame DEF TaskDies, Move
<1>29. CASE UNCHANGED vars
  BY <1>29, SummariesFrame DEF vars
<1> QED
  BY <1>1, <1>2, <1>3, <1>4, <1>5, <1>6, <1>7, <1>8, <1>9, <1>10, <1>11, <1>12, <1>13,
     <1>14, <1>15, <1>16, <1>17, <1>18, <1>19, <1>20, <1>21, <1>22, <1>23, <1>24, <1>25,
     <1>26, <1>27, <1>28, <1>29
     DEF Next, Workflow, ControlStep, TaskStep

LEMMA GreenLegs == LegsVerdict = "success" => \A l \in Legs : LoadedSummaries[l] = "pass"
  BY DEF LegsVerdict, LoadedSummaries

LEMMA NextNoSplitBrain ==
  TypeOK /\ StageOfJob /\ TasksQuiet /\ WorkingCopy /\ Decided /\ NoSplitBrain /\ [Next]_vars
    => NoSplitBrain'
<1> SUFFICES ASSUME TypeOK /\ StageOfJob /\ TasksQuiet /\ WorkingCopy /\ Decided /\ NoSplitBrain,
                    [Next]_vars
             PROVE  NoSplitBrain'
  OBVIOUS
<1> USE DEF NoSplitBrain
<1>1. CASE TaskJobEnds
  BY <1>1 DEF TaskJobEnds, EnterJob, Goto, TasksOver
<1>2. CASE TaskJobTimesOut
  BY <1>2 DEF TaskJobTimesOut, EnterJob, Goto
<1>3. CASE ControlJobEnds
  BY <1>3 DEF ControlJobEnds, Exits, ControlFails, EnterJob, Goto, Fault, Control
<1>4. CASE ControlDies
  BY <1>4 DEF ControlDies, ControlFails, EnterJob, Goto, Control
<1>5. CASE WritePlan
  BY <1>5 DEF WritePlan, At, Goto
<1>6. CASE EnsureReporting
  BY <1>6 DEF EnsureReporting, At, Goto, LeaveBehind, Fault, Decided, Late, Concluded,
       ReuseReporting, ReportingUnavailable, CreateStartedCheck, CreateOverrideCheck, OpenCheck, OverrideCheck, PostStatus
<1>7. CASE PersistReporting
  BY <1>7 DEF PersistReporting, At, Goto
<1>8. CASE LoadSummaries
  BY <1>8 DEF LoadSummaries, At, Goto
<1>9. CASE PlanIsGone
  BY <1>9 DEF PlanIsGone, At, ControlFails, EnterJob, Goto
<1>10. ASSUME NEW l \in Legs, RecordPointer(l) PROVE NoSplitBrain'
  <2>1. ~forced /\ ~harsh /\ LegsVerdict = "success" => \A k \in Legs : recorded'[k] # "fail"
    BY <1>10, GreenLegs, PublishedFromDisk
       DEF RecordPointer, At, Publishing, Decided, TypeOK
  <2>2. ~forced /\ ~harsh => wf \in Late /\ planFile
    BY <1>10, PublishedFromDisk DEF RecordPointer, At
  <2> QED
    BY <1>10, <2>1, <2>2 DEF RecordPointer, Decided, Concluded
<1>11. CASE PointersDone
  BY <1>11 DEF PointersDone, At, EnterPublish, Goto
<1>12. CASE CoordinatorRaises
  BY <1>12 DEF CoordinatorRaises, Goto, Fault
<1>13. CASE ReloadSummaries
  BY <1>13 DEF ReloadSummaries, At, EnterPublish, Goto
<1>14. CASE SkipPublish
  BY <1>14 DEF SkipPublish, Goto, Fault
<1>15. CASE FinalizeCheck \/ CloseCheck
  <2>1. stage = "finalize" /\ UNCHANGED <<argVars, wf, planFile, status, recorded>>
    BY <1>15 DEF FinalizeCheck,
       CloseCheck, FinalizeNamedCheck, FinalizeNewCheck, UpdateCheck, OpenCheck, HeldVerdict
  <2>2. CASE ~forced /\ ~harsh
    <3>1. wf \in Late /\ planFile /\ Verdict(held) = LegsVerdict
      BY <2>1, <2>2, PublishedFromDisk DEF Publishing
    <3>2. check' \in {check, LegsVerdict, "in_progress"}
      BY <1>15, <3>1 DEF FinalizeCheck, LeaveBehind,
       CloseCheck, FinalizeNamedCheck, FinalizeNewCheck, UpdateCheck, OpenCheck, HeldVerdict
    <3>3. check' \in Concluded => check' = LegsVerdict
      BY <2>2, <3>1, <3>2 DEF Decided, Concluded
    <3>4. status \in Concluded => status = LegsVerdict
      BY <2>2, <3>1 DEF Decided
    <3>5. LegsVerdict = "success" => \A l \in Legs : recorded[l] # "fail"
      BY <2>2, <3>1, GreenLegs DEF Decided
    <3> QED
      BY <2>1, <2>2, <3>3, <3>4, <3>5 DEF Concluded
  <2>3. CASE forced
    <3>1. hasId
      BY <1>15, <2>1, <2>3 DEF FinalizeCheck, WorkingCopy, Publishing,
       CloseCheck, FinalizeNamedCheck, FinalizeNewCheck, UpdateCheck, OpenCheck, HeldVerdict
    <3> QED
      BY <1>15, <2>1, <2>3, <3>1, VerdictType DEF FinalizeCheck, Concluded,
       CloseCheck, FinalizeNamedCheck, FinalizeNewCheck, UpdateCheck, OpenCheck, HeldVerdict
  <2> QED
    BY <2>1, <2>2, <2>3
<1>16. CASE PostFinalStatus
  BY <1>16, GreenLegs, PublishedFromDisk
     DEF PostFinalStatus, Goto, Fault, Publishing, Decided, WorkingCopy,
       PostStatus, HeldVerdict
<1>17. CASE PersistComplete
  BY <1>17 DEF PersistComplete, Goto
<1>18. CASE Judge
  BY <1>18 DEF Judge, EnterPublish, AfterFailure, Goto,
       CloseFailed, GiveUp
<1>19. CASE FailureStarts
  BY <1>19 DEF FailureStarts, At, Goto
<1>20. CASE SyncWithGitHub
  BY <1>20 DEF SyncWithGitHub, EnterPublish, AfterFailure, Goto, Fault,
       NothingToClose, CountsAsPublished, PublishFromDisk, CheckCompleted
<1>21. CASE CleanPlan
  BY <1>21 DEF CleanPlan, Goto, StaysBehind, Fault
<1>22. CASE CleanMeta
  BY <1>22 DEF CleanMeta, Goto, StaysBehind, Fault
<1>23. CASE CleanSummaries
  BY <1>23 DEF CleanSummaries, Goto, StaysBehind, Fault
<1>24. ASSUME NEW l \in Legs, TaskStarts(l) PROVE NoSplitBrain'
  BY <1>24 DEF TaskStarts, Move
<1>25. ASSUME NEW l \in Legs, ReadMetadata(l) PROVE NoSplitBrain'
  BY <1>25 DEF ReadMetadata, Move
<1>26. ASSUME NEW l \in Legs, PostProgress(l) PROVE NoSplitBrain'
  BY <1>26, RunningTask DEF PostProgress, Fault, Over, TasksQuiet, Concluded,
       UpdateCheck
<1>27. ASSUME NEW l \in Legs, RunLeg(l) PROVE NoSplitBrain'
  BY <1>27 DEF RunLeg, Move
<1>28. ASSUME NEW l \in Legs, TaskDies(l) PROVE NoSplitBrain'
  BY <1>28 DEF TaskDies, Move
<1>29. CASE UNCHANGED vars
  BY <1>29 DEF vars
<1> QED
  BY <1>1, <1>2, <1>3, <1>4, <1>5, <1>6, <1>7, <1>8, <1>9, <1>10, <1>11, <1>12, <1>13,
     <1>14, <1>15, <1>16, <1>17, <1>18, <1>19, <1>20, <1>21, <1>22, <1>23, <1>24, <1>25,
     <1>26, <1>27, <1>28, <1>29
     DEF Next, Workflow, ControlStep, TaskStep

LEMMA NextPipelineInv == PipelineInv /\ [Next]_vars => PipelineInv'
  BY NextTypeOK, NextStageOfJob, NextTasksQuiet, NextWorkingCopy, NextDecided, NextNoSplitBrain
     DEF PipelineInv

LEMMA PipelineInvariant == Spec => []PipelineInv
<1>1. Init => PipelineInv
  BY InitPipelineInv
<1>2. PipelineInv /\ [Next]_vars => PipelineInv'
  BY NextPipelineInv
<1> QED
  BY <1>1, <1>2, PTL DEF Spec

(* The bounds hold and every variable keeps its type, for any legs and     *)
(* profiles and any number of failures: a job is restarted max_retries     *)
(* times at most.                                                          *)
THEOREM PipelineTypeCorrect == Spec => []TypeOK
<1>1. PipelineInv => TypeOK
  BY DEF PipelineInv
<1> QED
  BY <1>1, PipelineInvariant, PTL

(* The check and the commit status never contradict each other, whatever   *)
(* container dies and whatever call fails between the two posts; the       *)
(* override is not taken back.                                             *)
THEOREM GateSpeaksWithOneVoice == Spec => []NoSplitBrain
<1>1. PipelineInv => NoSplitBrain
  BY DEF PipelineInv
<1> QED
  BY <1>1, PipelineInvariant, PTL

-----------------------------------------------------------------------------
(* Pipeline: what a step may not do.                                       *)

\* One step of PublishedIsVerdict and of VerdictIsFinal.
PublishStep ==
  ~forced /\ ~harsh =>
    /\ check' # check /\ check' \in Concluded => check' = LegsVerdict
    /\ status' # status => status' = LegsVerdict

FinalStep ==
  ~forced /\ ~harsh =>
    /\ check \in Concluded => check' \in {check, "in_progress"}
    /\ check \in Concluded /\ NamesCheck => check' = check
    /\ status \in Concluded => status' = status

LEMMA NextPublishStep == PipelineInv /\ [Next]_vars => PublishStep
<1> SUFFICES ASSUME PipelineInv, [Next]_vars PROVE PublishStep
  OBVIOUS
<1> USE DEF PipelineInv
<1> USE DEF PublishStep
<1>1. CASE TaskJobEnds
  BY <1>1 DEF TaskJobEnds, EnterJob, Goto, TasksOver
<1>2. CASE TaskJobTimesOut
  BY <1>2 DEF TaskJobTimesOut, EnterJob, Goto
<1>3. CASE ControlJobEnds
  BY <1>3 DEF ControlJobEnds, Exits, ControlFails, EnterJob, Goto, Fault, Control
<1>4. CASE ControlDies
  BY <1>4 DEF ControlDies, ControlFails, EnterJob, Goto, Control
<1>5. CASE WritePlan
  BY <1>5 DEF WritePlan, At, Goto
<1>6. CASE EnsureReporting
  BY <1>6 DEF EnsureReporting, At, Goto, LeaveBehind, Fault, Decided, Late, Concluded,
       ReuseReporting, ReportingUnavailable, CreateStartedCheck, CreateOverrideCheck, OpenCheck, OverrideCheck, PostStatus
<1>7. CASE PersistReporting
  BY <1>7 DEF PersistReporting, At, Goto
<1>8. CASE LoadSummaries
  BY <1>8 DEF LoadSummaries, At, Goto
<1>9. CASE PlanIsGone
  BY <1>9 DEF PlanIsGone, At, ControlFails, EnterJob, Goto
<1>10. ASSUME NEW l \in Legs, RecordPointer(l) PROVE PublishStep
  BY <1>10 DEF RecordPointer, At
<1>11. CASE PointersDone
  BY <1>11 DEF PointersDone, At, EnterPublish, Goto
<1>12. CASE CoordinatorRaises
  BY <1>12 DEF CoordinatorRaises, Goto, Fault
<1>13. CASE ReloadSummaries
  BY <1>13 DEF ReloadSummaries, At, EnterPublish, Goto
<1>14. CASE SkipPublish
  BY <1>14 DEF SkipPublish, Goto, Fault
<1>15. CASE FinalizeCheck \/ CloseCheck
  <2>1. ~forced /\ ~harsh => wf \in Late /\ planFile /\ Verdict(held) = LegsVerdict
    BY <1>15, PublishedFromDisk DEF FinalizeCheck, Publishing,
       CloseCheck, FinalizeNamedCheck, FinalizeNewCheck, UpdateCheck, OpenCheck, HeldVerdict
  <2>2. UNCHANGED status /\ (NamesCheck => hasId)
    BY <1>15 DEF FinalizeCheck, WorkingCopy,
       CloseCheck, FinalizeNamedCheck, FinalizeNewCheck, UpdateCheck, OpenCheck, HeldVerdict
  <2>3. check' \in {check, Verdict(held), "in_progress"} /\ (hasId => check' \in {check, Verdict(held)})
    BY <1>15 DEF FinalizeCheck, LeaveBehind,
       CloseCheck, FinalizeNamedCheck, FinalizeNewCheck, UpdateCheck, OpenCheck, HeldVerdict
  <2> QED
    BY <2>1, <2>2, <2>3 DEF Decided, Concluded
<1>16. CASE PostFinalStatus
  BY <1>16, PublishedFromDisk
     DEF PostFinalStatus, Goto, Fault, Publishing, WorkingCopy, Decided,
       PostStatus, HeldVerdict
<1>17. CASE PersistComplete
  BY <1>17 DEF PersistComplete, Goto
<1>18. CASE Judge
  BY <1>18 DEF Judge, EnterPublish, AfterFailure, Goto,
       CloseFailed, GiveUp
<1>19. CASE FailureStarts
  BY <1>19 DEF FailureStarts, At, Goto
<1>20. CASE SyncWithGitHub
  BY <1>20 DEF SyncWithGitHub, EnterPublish, AfterFailure, Goto, Fault,
       NothingToClose, CountsAsPublished, PublishFromDisk, CheckCompleted
<1>21. CASE CleanPlan
  BY <1>21 DEF CleanPlan, Goto, StaysBehind, Fault
<1>22. CASE CleanMeta
  BY <1>22 DEF CleanMeta, Goto, StaysBehind, Fault
<1>23. CASE CleanSummaries
  BY <1>23 DEF CleanSummaries, Goto, StaysBehind, Fault
<1>24. ASSUME NEW l \in Legs, TaskStarts(l) PROVE PublishStep
  BY <1>24 DEF TaskStarts, Move
<1>25. ASSUME NEW l \in Legs, ReadMetadata(l) PROVE PublishStep
  BY <1>25 DEF ReadMetadata, Move
<1>26. ASSUME NEW l \in Legs, PostProgress(l) PROVE PublishStep
  BY <1>26, RunningTask DEF PostProgress, Fault, Over, Concluded, Decided,
       UpdateCheck
<1>27. ASSUME NEW l \in Legs, RunLeg(l) PROVE PublishStep
  BY <1>27 DEF RunLeg, Move
<1>28. ASSUME NEW l \in Legs, TaskDies(l) PROVE PublishStep
  BY <1>28 DEF TaskDies, Move
<1>29. CASE UNCHANGED vars
  BY <1>29 DEF vars
<1> QED
  BY <1>1, <1>2, <1>3, <1>4, <1>5, <1>6, <1>7, <1>8, <1>9, <1>10, <1>11, <1>12, <1>13,
     <1>14, <1>15, <1>16, <1>17, <1>18, <1>19, <1>20, <1>21, <1>22, <1>23, <1>24, <1>25,
     <1>26, <1>27, <1>28, <1>29
     DEF Next, Workflow, ControlStep, TaskStep

LEMMA NextFinalStep == PipelineInv /\ [Next]_vars => FinalStep
<1> SUFFICES ASSUME PipelineInv, [Next]_vars PROVE FinalStep
  OBVIOUS
<1> USE DEF PipelineInv
<1> USE DEF FinalStep
<1>1. CASE TaskJobEnds
  BY <1>1 DEF TaskJobEnds, EnterJob, Goto, TasksOver
<1>2. CASE TaskJobTimesOut
  BY <1>2 DEF TaskJobTimesOut, EnterJob, Goto
<1>3. CASE ControlJobEnds
  BY <1>3 DEF ControlJobEnds, Exits, ControlFails, EnterJob, Goto, Fault, Control
<1>4. CASE ControlDies
  BY <1>4 DEF ControlDies, ControlFails, EnterJob, Goto, Control
<1>5. CASE WritePlan
  BY <1>5 DEF WritePlan, At, Goto
<1>6. CASE EnsureReporting
  BY <1>6 DEF EnsureReporting, At, Goto, LeaveBehind, Fault, Decided, Late, Concluded,
       ReuseReporting, ReportingUnavailable, CreateStartedCheck, CreateOverrideCheck, OpenCheck, OverrideCheck, PostStatus
<1>7. CASE PersistReporting
  BY <1>7 DEF PersistReporting, At, Goto
<1>8. CASE LoadSummaries
  BY <1>8 DEF LoadSummaries, At, Goto
<1>9. CASE PlanIsGone
  BY <1>9 DEF PlanIsGone, At, ControlFails, EnterJob, Goto
<1>10. ASSUME NEW l \in Legs, RecordPointer(l) PROVE FinalStep
  BY <1>10 DEF RecordPointer, At
<1>11. CASE PointersDone
  BY <1>11 DEF PointersDone, At, EnterPublish, Goto
<1>12. CASE CoordinatorRaises
  BY <1>12 DEF CoordinatorRaises, Goto, Fault
<1>13. CASE ReloadSummaries
  BY <1>13 DEF ReloadSummaries, At, EnterPublish, Goto
<1>14. CASE SkipPublish
  BY <1>14 DEF SkipPublish, Goto, Fault
<1>15. CASE FinalizeCheck \/ CloseCheck
  <2>1. ~forced /\ ~harsh => wf \in Late /\ planFile /\ Verdict(held) = LegsVerdict
    BY <1>15, PublishedFromDisk DEF FinalizeCheck, Publishing,
       CloseCheck, FinalizeNamedCheck, FinalizeNewCheck, UpdateCheck, OpenCheck, HeldVerdict
  <2>2. UNCHANGED status /\ (NamesCheck => hasId)
    BY <1>15 DEF FinalizeCheck, WorkingCopy,
       CloseCheck, FinalizeNamedCheck, FinalizeNewCheck, UpdateCheck, OpenCheck, HeldVerdict
  <2>3. check' \in {check, Verdict(held), "in_progress"} /\ (hasId => check' \in {check, Verdict(held)})
    BY <1>15 DEF FinalizeCheck, LeaveBehind,
       CloseCheck, FinalizeNamedCheck, FinalizeNewCheck, UpdateCheck, OpenCheck, HeldVerdict
  <2> QED
    BY <2>1, <2>2, <2>3 DEF Decided, Concluded
<1>16. CASE PostFinalStatus
  BY <1>16, PublishedFromDisk
     DEF PostFinalStatus, Goto, Fault, Publishing, WorkingCopy, Decided,
       PostStatus, HeldVerdict
<1>17. CASE PersistComplete
  BY <1>17 DEF PersistComplete, Goto
<1>18. CASE Judge
  BY <1>18 DEF Judge, EnterPublish, AfterFailure, Goto,
       CloseFailed, GiveUp
<1>19. CASE FailureStarts
  BY <1>19 DEF FailureStarts, At, Goto
<1>20. CASE SyncWithGitHub
  BY <1>20 DEF SyncWithGitHub, EnterPublish, AfterFailure, Goto, Fault,
       NothingToClose, CountsAsPublished, PublishFromDisk, CheckCompleted
<1>21. CASE CleanPlan
  BY <1>21 DEF CleanPlan, Goto, StaysBehind, Fault
<1>22. CASE CleanMeta
  BY <1>22 DEF CleanMeta, Goto, StaysBehind, Fault
<1>23. CASE CleanSummaries
  BY <1>23 DEF CleanSummaries, Goto, StaysBehind, Fault
<1>24. ASSUME NEW l \in Legs, TaskStarts(l) PROVE FinalStep
  BY <1>24 DEF TaskStarts, Move
<1>25. ASSUME NEW l \in Legs, ReadMetadata(l) PROVE FinalStep
  BY <1>25 DEF ReadMetadata, Move
<1>26. ASSUME NEW l \in Legs, PostProgress(l) PROVE FinalStep
  BY <1>26, RunningTask DEF PostProgress, Fault, Over, Concluded, Decided,
       UpdateCheck
<1>27. ASSUME NEW l \in Legs, RunLeg(l) PROVE FinalStep
  BY <1>27 DEF RunLeg, Move
<1>28. ASSUME NEW l \in Legs, TaskDies(l) PROVE FinalStep
  BY <1>28 DEF TaskDies, Move
<1>29. CASE UNCHANGED vars
  BY <1>29 DEF vars
<1> QED
  BY <1>1, <1>2, <1>3, <1>4, <1>5, <1>6, <1>7, <1>8, <1>9, <1>10, <1>11, <1>12, <1>13,
     <1>14, <1>15, <1>16, <1>17, <1>18, <1>19, <1>20, <1>21, <1>22, <1>23, <1>24, <1>25,
     <1>26, <1>27, <1>28, <1>29
     DEF Next, Workflow, ControlStep, TaskStep

(* What is published is the verdict of the summaries of all legs at that   *)
(* moment, through every retry, second publish and last resort.            *)
THEOREM PublishedVerdicts == Spec => PublishedIsVerdict
<1>1. PipelineInv /\ [Next]_vars => PublishStep
  BY NextPublishStep
<1>2. []PipelineInv /\ [][Next]_vars => [][PublishStep]_vars
  BY <1>1, PTL
<1> QED
  BY <1>2, PipelineInvariant, PTL DEF Spec, PublishedIsVerdict, PublishStep

(* A concluded check and a posted status keep their verdict for the rest   *)
(* of the execution.                                                       *)
THEOREM VerdictsAreFinal == Spec => VerdictIsFinal
<1>1. PipelineInv /\ [Next]_vars => FinalStep
  BY NextFinalStep
<1>2. []PipelineInv /\ [][Next]_vars => [][FinalStep]_vars
  BY <1>1, PTL
<1> QED
  BY <1>2, PipelineInvariant, PTL DEF Spec, VerdictIsFinal, FinalStep

-----------------------------------------------------------------------------
(* HandoffGate: type correctness.                                          *)

Posters == {"nobody", "handoff", "force", "skip", "run", "timeout"}

LEMMA PostType ==
  ASSUME NEW state \in States, NEW by \in Posters, NEW a \in 1 .. Attempts,
         GateTypeOK, Post(state, by, a)
  PROVE  /\ shown' \in [state : States, by : Posters, of : 0 .. Attempts]
         /\ drops' \in 0 .. MaxDrops
<1>1. 1 .. Attempts \subseteq 0 .. Attempts /\ MaxDrops \in Nat
  BY AttemptsAssumption
<1> QED
  BY <1>1 DEF GateTypeOK, Post, Posters

LEMMA PlanType ==
  ASSUME GateTypeOK, NEW a \in 1 .. Attempts, NEW x \in 0 .. Attempts, PlanIs(a, x)
  PROVE  plan' \in [1 .. Attempts -> 0 .. Attempts]
<1>1. \A b \in 1 .. Attempts : (IF b \in RunOf(a) THEN x ELSE plan[b]) \in 0 .. Attempts
  BY DEF GateTypeOK
<1> QED
  BY <1>1 DEF PlanIs

\* What TypeOK says of the status and of the lost posts.
StatusType ==
  /\ shown \in [state : States, by : Posters, of : 0 .. Attempts]
  /\ drops \in 0 .. MaxDrops

LEMMA InitGateTypeOK == GateInit => GateTypeOK
<1>1. 1 \in 1 .. Attempts /\ 0 \in 0 .. Attempts /\ 0 \in 0 .. MaxDrops
  BY AttemptsAssumption
<1> QED
  BY <1>1 DEF GateInit, GateTypeOK, Steps, NothingSeen, States, Terminal, Results

LEMMA NextGateTypeOK == GateTypeOK /\ [GateNext]_gateVars => GateTypeOK'
<1> SUFFICES ASSUME GateTypeOK, [GateNext]_gateVars PROVE GateTypeOK'
  OBVIOUS
<1> USE DEF GateTypeOK, Steps, Results
<1>0. Attempts \in Nat \ {0} /\ MaxDrops \in Nat /\ Terminal \subseteq States /\ "pending" \in States
  BY AttemptsAssumption DEF States
<1>1. CASE Prepare
  BY <1>1 DEF Prepare, NothingSeen
<1>2. CASE PostPending
  <2>1. [state |-> "pending", by |-> "handoff", of |-> now]
          \in [state : States, by : Posters, of : 0 .. Attempts]
    BY <1>0 DEF Posters
  <2> QED
    BY <1>2, <2>1 DEF PostPending, Posters
<1>3. CASE Classify
  BY <1>3 DEF Classify
<1>4. CASE ForcePass
  BY <1>4, <1>0, PostType DEF ForcePass, Posters, Terminal
<1>5. CASE Invoke
  BY <1>5 DEF Invoke, HandoffFails
<1>6. CASE Claim
  <2>1. PICK n \in 0 .. 2 : record' = IF n = 0 THEN record ELSE [of |-> now, gen |-> record.gen + n]
    BY <1>6 DEF Claim
  <2>2. record' \in [of : 0 .. Attempts, gen : Nat]
    BY <2>1, <1>0
  <2> QED
    BY <1>6, <2>2 DEF Claim, HandoffFails
<1>7. CASE Report
  BY <1>7 DEF Report
<1>15. CASE Cancel
  BY <1>15 DEF Cancel
<1>8. CASE Fallback
  <2>1. StatusType'
    <3>1. CASE FailureClass = "infra"
      <4>1. Post("success", "skip", now)
        BY <1>8, <3>1 DEF Fallback
      <4> QED
        BY <4>1, <1>0, PostType DEF Posters, Terminal, StatusType
    <3>2. CASE FailureClass # "infra"
      BY <1>8, <3>2 DEF Fallback, StatusType, Posters
    <3> QED
      BY <3>1, <3>2
  <2> QED
    BY <1>8, <2>1 DEF Fallback, StatusType, Posters
<1>9. CASE Rerun
  BY <1>9, <1>0 DEF Rerun, NothingSeen
<1>10. CASE TimeoutReads
  BY <1>10 DEF TimeoutReads, States
<1>11. CASE TimeoutPosts
  <2>1. StatusType'
    <3>1. CASE watch \in Terminal
      BY <1>11, <3>1 DEF TimeoutPosts, StatusType, Posters
    <3>2. CASE watch \notin Terminal
      <4>1. Post("error", "timeout", now)
        BY <1>11, <3>2 DEF TimeoutPosts
      <4>2. "error" \in States /\ "timeout" \in Posters /\ now \in 1 .. Attempts
        BY <1>0 DEF Terminal, Posters
      <4> HIDE DEF GateTypeOK
      <4>3. GateTypeOK
        OBVIOUS
      <4> QED
        BY <4>1, <4>2, <4>3, PostType DEF StatusType
    <3> QED
      BY <3>1, <3>2
  <2> QED
    BY <1>11, <2>1 DEF TimeoutPosts, StatusType, Posters
<1>12. ASSUME NEW a \in 1 .. Attempts, Supersede(a) PROVE GateTypeOK'
  BY <1>12 DEF Supersede
<1>16. ASSUME NEW a \in 1 .. Attempts, PlanMode(a) PROVE GateTypeOK'
  <2>1. a \in 0 .. Attempts /\ GateTypeOK
    BY <1>0
  <2>3. skipped' \subseteq 1 .. Attempts
    <3>1. skipped \subseteq 1 .. Attempts
      OBVIOUS
    <3>2. skipped' = skipped \/ skipped' = skipped \cup {a}
      BY <1>16 DEF PlanMode
    <3> HIDE DEF GateTypeOK
    <3> QED
      BY <3>1, <3>2
  <2>4. \E e \in {"planned", "over"} : exec' = [exec EXCEPT ![a] = e]
    BY <1>16 DEF PlanMode
  <2>5. exec' \in [1 .. Attempts -> {"none", "live", "planned", "over"}]
    BY <2>4
  <2>6. UNCHANGED <<inputs, now, at, seen, gen, record, known, shown, watch, drops, cancelled>>
    BY <1>16 DEF PlanMode
  <2>2. plan' \in [1 .. Attempts -> 0 .. Attempts]
    <3> HIDE DEF GateTypeOK
    <3>1. UNCHANGED plan \/ PlanIs(a, a)
      BY <1>16 DEF PlanMode
    <3>2. CASE UNCHANGED plan
      BY <2>1, <3>2 DEF GateTypeOK
    <3> QED
      BY <2>1, <3>1, <3>2, PlanType
  <2> QED
    BY <2>2, <2>3, <2>5, <2>6
<1>13. ASSUME NEW a \in 1 .. Attempts, RunEnds(a) PROVE GateTypeOK'
  <2>1. StatusType'
    <3>1. CASE Publishes(a)
      <4>1. PICK verdict \in {"success", "failure"} : Post(verdict, "run", a)
        BY <1>13, <3>1 DEF RunEnds
      <4>2. verdict \in States /\ "run" \in Posters
        BY <1>0 DEF Terminal, Posters
      <4> HIDE DEF GateTypeOK
      <4>3. GateTypeOK
        OBVIOUS
      <4> QED
        BY <4>1, <4>2, <4>3, PostType DEF StatusType
    <3>2. CASE ~Publishes(a)
      BY <1>13, <3>2 DEF RunEnds, StatusType, Posters
    <3> QED
      BY <3>1, <3>2
  <2>2. plan' \in [1 .. Attempts -> 0 .. Attempts] /\ skipped' \subseteq 1 .. Attempts
    <3>1. 0 \in 0 .. Attempts /\ GateTypeOK
      BY <1>0
    <3>2. UNCHANGED plan \/ PlanIs(a, 0)
      BY <1>13 DEF RunEnds
    <3>3. skipped' \subseteq 1 .. Attempts
      <4>1. skipped \subseteq 1 .. Attempts
        OBVIOUS
      <4>2. skipped' = skipped \/ skipped' = skipped \cup {a}
        BY <1>13 DEF RunEnds
      <4> HIDE DEF GateTypeOK
      <4> QED
        BY <4>1, <4>2
    <3>4. CASE UNCHANGED plan
      BY <3>1, <3>3, <3>4
    <3> HIDE DEF GateTypeOK
    <3> QED
      BY <3>1, <3>2, <3>3, <3>4, PlanType
  <2> QED
    BY <1>13, <2>1, <2>2 DEF RunEnds, StatusType, Posters
<1>14. CASE UNCHANGED gateVars
  BY <1>14 DEF gateVars
<1> QED
  BY <1>1, <1>2, <1>3, <1>4, <1>5, <1>6, <1>7, <1>8, <1>9, <1>10, <1>11,
     <1>12, <1>13, <1>14, <1>15, <1>16 DEF GateNext, Handoff

(* The gate and its handoff keep to their types: a status is a GitHub state *)
(* and names an attempt that exists.                                        *)
THEOREM GateTypeCorrect == GateSpec => []GateTypeOK
<1>1. GateInit => GateTypeOK
  BY InitGateTypeOK
<1>2. GateTypeOK /\ [GateNext]_gateVars => GateTypeOK'
  BY NextGateTypeOK
<1> QED
  BY <1>1, <1>2, PTL DEF GateSpec
-----------------------------------------------------------------------------
(* The override.  That its gate is not red is not inductive: nothing that  *)
(* could fail must have been started.                                      *)

ForceInv ==
  /\ GateTypeOK
  /\ force =>
       /\ at \notin {"invoke", "claim", "report"}
       /\ \A a \in 1 .. Attempts : exec[a] = "none"
       /\ shown.state # "failure"

LEMMA InitForceInv == GateInit => ForceInv
  BY InitGateTypeOK DEF GateInit, ForceInv

LEMMA PostState ==
  ASSUME NEW state, NEW by, NEW a, Post(state, by, a), state # "failure", shown.state # "failure"
  PROVE  shown'.state # "failure"
  BY DEF Post

LEMMA NextForceInv == ForceInv /\ [GateNext]_gateVars => ForceInv'
<1> SUFFICES ASSUME ForceInv, [GateNext]_gateVars, force' PROVE ForceInv'
  BY NextGateTypeOK DEF ForceInv
<1> USE DEF ForceInv
<1>0. GateTypeOK' /\ force
  <2>1. force' = force
    BY DEF GateNext, Handoff, Prepare, PostPending, Classify, ForcePass, Invoke, Claim, Report,
           Fallback, Cancel, Rerun, Supersede, PlanMode, RunEnds, TimeoutReads, TimeoutPosts, gateVars
  <2> QED
    BY <2>1, NextGateTypeOK
<1>1. CASE Prepare \/ Classify
  BY <1>0, <1>1 DEF Prepare, Classify
<1>2. CASE PostPending
  BY <1>0, <1>2 DEF PostPending
<1>3. CASE ForcePass
  BY <1>0, <1>3, PostState DEF ForcePass
<1>4. CASE Invoke \/ Claim \/ Report
  BY <1>0, <1>4 DEF Invoke, Claim, Report
<1>5. CASE Fallback
  <2>1. shown'.state # "failure"
    BY <1>0, <1>5, PostState DEF Fallback
  <2> QED
    BY <1>0, <1>5, <2>1 DEF Fallback
<1>6. CASE Cancel \/ Rerun \/ TimeoutReads
  BY <1>0, <1>6 DEF Cancel, Rerun, TimeoutReads
<1>7. CASE TimeoutPosts
  <2>1. shown'.state # "failure"
    BY <1>0, <1>7, PostState DEF TimeoutPosts
  <2> QED
    BY <1>0, <1>7, <2>1 DEF TimeoutPosts
<1>8. ASSUME NEW a \in 1 .. Attempts, Supersede(a) \/ PlanMode(a) \/ RunEnds(a) PROVE FALSE
  BY <1>0, <1>8 DEF Supersede, PlanMode, RunEnds
<1>9. CASE UNCHANGED gateVars
  BY <1>0, <1>9 DEF gateVars
<1> QED
  BY <1>1, <1>2, <1>3, <1>4, <1>5, <1>6, <1>7, <1>8, <1>9 DEF GateNext, Handoff

(* The override posts success before the dispatch and returns: whatever    *)
(* fails, is repeated or comes late afterwards, the gate is never red.     *)
THEOREM ForcedGateIsGreen == GateSpec => []ForcedGateNeverFails
<1>1. GateInit => ForceInv
  BY InitForceInv
<1>2. ForceInv /\ [GateNext]_gateVars => ForceInv'
  BY NextForceInv
<1>3. ForceInv => ForcedGateNeverFails
  BY DEF ForceInv, ForcedGateNeverFails
<1> QED
  BY <1>1, <1>2, <1>3, PTL DEF GateSpec

-----------------------------------------------------------------------------
(* HandoffGate: verdicts and skips.  What an attempt can still do is       *)
(* told by where it is: it has no execution before it invokes one, and its *)
(* dispatch is known only from its report on.  An execution finds no plan  *)
(* of another workflow run, and the record of the registry is not older    *)
(* than the run that has posted.                                           *)

BeforeInvoke == {"prepare", "pending", "classify", "forced", "invoke"}

Attempted ==
  /\ \A a \in 1 .. Attempts : a > now => exec[a] = "none"
  /\ at \in BeforeInvoke => exec[now] = "none"
  /\ \A a \in known : a <= now
  /\ now \in known => seen.reason = "ok" /\ at \in {"fallback", "done"}
  /\ at \in {"pending", "classify"} => seen.pex
  /\ at \in {"invoke", "claim", "report"} \/ now \in known => seen.pex /\ seen.legs
  /\ ~isPr => record.gen = 0 /\ at # "claim"
  /\ record.of <= now
  /\ ~oneRun => \A a \in 1 .. Attempts : plan[a] \in {0, a}

Posted ==
  /\ shown.of <= now
  /\ shown.by = "run" => shown.of >= 1 /\ exec[shown.of] = "over"
  /\ shown.by = "run" /\ ~oneRun /\ record.gen # 0 => record.of >= shown.of
  /\ shown.by = "skip" => shown.of >= 1
  /\ shown.by = "skip" /\ shown.of = now => at = "done"
  /\ NoSkipOverConfirmedRun

GateInv == GateTypeOK /\ Attempted /\ Posted

LEMMA InitGateInv == GateInit => GateInv
<1> SUFFICES ASSUME GateInit PROVE GateInv
  OBVIOUS
<1>1. GateTypeOK
  BY InitGateTypeOK
<1>2. Attempted
  BY AttemptsAssumption DEF GateInit, Attempted, BeforeInvoke
<1>3. Posted
  BY AttemptsAssumption DEF GateInit, Posted, NoSkipOverConfirmedRun
<1> QED
  BY <1>1, <1>2, <1>3 DEF GateInv

LEMMA NextAttempted == GateInv /\ [GateNext]_gateVars => Attempted'
<1> SUFFICES ASSUME GateInv, [GateNext]_gateVars PROVE Attempted'
  OBVIOUS
<1>0. /\ GateTypeOK /\ Attempted /\ GateTypeOK' /\ Attempts \in Nat \ {0}
      /\ isPr' = isPr /\ oneRun' = oneRun
  <2>1. isPr' = isPr /\ oneRun' = oneRun
    BY DEF GateNext, Handoff, Prepare, PostPending, Classify, ForcePass, Invoke, Claim, Report,
           Fallback, Cancel, Rerun, Supersede, PlanMode, RunEnds, TimeoutReads, TimeoutPosts, gateVars
  <2> QED
    BY <2>1, NextGateTypeOK, AttemptsAssumption DEF GateInv
<1> USE DEF Attempted, BeforeInvoke, GateTypeOK
<1>1. CASE Prepare
  BY <1>0, <1>1 DEF Prepare, NothingSeen
<1>2. CASE PostPending
  BY <1>0, <1>2 DEF PostPending
<1>3. CASE Classify
  <2>1. PICK legs \in {seen.legs, FALSE} :
          /\ seen' = [seen EXCEPT !.legs = legs]
          /\ at' = IF ~legs THEN "fallback" ELSE IF force THEN "forced" ELSE "invoke"
    BY <1>3 DEF Classify
  <2>2. at = "classify" /\ UNCHANGED <<isPr, oneRun, now, exec, known, record, plan>>
    BY <1>3 DEF Classify
  <2>3. seen.pex /\ seen'.pex = seen.pex /\ seen'.legs = legs /\ now \notin known
    BY <1>0, <2>1, <2>2
  <2> QED
    BY <1>0, <2>1, <2>2, <2>3
<1>4. CASE ForcePass
  BY <1>0, <1>4 DEF ForcePass
<1>5. CASE Invoke
  BY <1>0, <1>5 DEF Invoke, HandoffFails
<1>6. CASE Claim
  BY <1>0, <1>6 DEF Claim, HandoffFails
<1>7. CASE Report
  BY <1>0, <1>7 DEF Report
<1>8. CASE Fallback
  BY <1>0, <1>8 DEF Fallback
<1>13. CASE Cancel
  BY <1>0, <1>13 DEF Cancel
<1>9. CASE Rerun
  BY <1>0, <1>9 DEF Rerun
<1>10. CASE TimeoutReads \/ TimeoutPosts
  BY <1>0, <1>10 DEF TimeoutReads, TimeoutPosts
<1>11. ASSUME NEW a \in 1 .. Attempts, Supersede(a) \/ PlanMode(a) \/ RunEnds(a) PROVE Attempted'
  <2>1. UNCHANGED <<isPr, oneRun, now, at, seen, known, record>>
    BY <1>11 DEF Supersede, PlanMode, RunEnds
  <2>2. /\ exec[a] # "none"
        /\ \E e \in {"live", "planned", "over"} : exec' = [exec EXCEPT ![a] = e]
    BY <1>0, <1>11 DEF Supersede, PlanMode, RunEnds
  <2>3. \A b \in 1 .. Attempts : exec[b] = "none" => exec'[b] = "none"
    BY <1>0, <2>2
  <2>4. ~oneRun => \A b \in 1 .. Attempts : plan'[b] \in {0, b}
    <3>1. ASSUME NEW b \in 1 .. Attempts, ~oneRun, NEW x \in {0, a}, PlanIs(a, x)
          PROVE  plan'[b] \in {0, b}
      <4>1. RunOf(a) = {a} /\ plan[b] \in {0, b}
        BY <1>0, <3>1 DEF RunOf
      <4> QED
        BY <3>1, <4>1 DEF PlanIs
    <3>2. UNCHANGED plan \/ \E x \in {0, a} : PlanIs(a, x)
      BY <1>11 DEF Supersede, PlanMode, RunEnds
    <3> QED
      BY <1>0, <3>1, <3>2
  <2> QED
    BY <1>0, <2>1, <2>3, <2>4
<1>12. CASE UNCHANGED gateVars
  BY <1>0, <1>12 DEF gateVars
<1> QED
  BY <1>1, <1>2, <1>3, <1>4, <1>5, <1>6, <1>7, <1>8, <1>9, <1>10, <1>11, <1>12, <1>13
     DEF GateNext, Handoff

\* A confirmed dispatch is not an infrastructure failure.
LEMMA KnownIsNoInfra ==
  ASSUME GateInv, now \in known
  PROVE  FailureClass = "runtime"
  BY DEF GateInv, Attempted, FailureClass

\* Where run ids tell the attempts apart, only the execution the record names
\* publishes.
LEMMA PublishesOwnRecord ==
  ASSUME GateTypeOK, Attempted, NEW a \in 1 .. Attempts, Publishes(a), ~oneRun, record.gen # 0
  PROVE  record.of = a
<1>1. plan[a] = a /\ isPr
  BY DEF Attempted, Publishes
<1> QED
  BY <1>1 DEF Publishes, Authoritative

LEMMA NextPosted == GateInv /\ [GateNext]_gateVars => Posted'
<1> SUFFICES ASSUME GateInv, [GateNext]_gateVars PROVE Posted'
  OBVIOUS
<1>0. /\ GateTypeOK /\ Attempted /\ Posted /\ Attempted' /\ Attempts \in Nat \ {0}
      /\ oneRun' = oneRun
  <2>1. oneRun' = oneRun
    BY DEF GateNext, Handoff, Prepare, PostPending, Classify, ForcePass, Invoke, Claim, Report,
           Fallback, Cancel, Rerun, Supersede, PlanMode, RunEnds, TimeoutReads, TimeoutPosts, gateVars
  <2> QED
    BY <2>1, NextAttempted, AttemptsAssumption DEF GateInv
<1> USE DEF Posted, NoSkipOverConfirmedRun, GateTypeOK
<1>1. CASE Prepare
  BY <1>0, <1>1 DEF Prepare
<1>2. CASE PostPending
  BY <1>0, <1>2 DEF PostPending
<1>3. CASE Classify
  BY <1>0, <1>3 DEF Classify
<1>4. CASE ForcePass
  BY <1>0, <1>4 DEF ForcePass, Post
<1>5. CASE Invoke
  BY <1>0, <1>5 DEF Invoke, HandoffFails, Attempted, BeforeInvoke
<1>6. CASE Claim
  BY <1>0, <1>6 DEF Claim, HandoffFails
<1>7. CASE Report
  BY <1>0, <1>7 DEF Report
<1>15. CASE Cancel
  BY <1>0, <1>15 DEF Cancel
<1>8. CASE Fallback
  <2>1. CASE now \in known
    BY <1>0, <1>8, <2>1, KnownIsNoInfra DEF Fallback
  <2>2. CASE now \notin known
    BY <1>0, <1>8, <2>2 DEF Fallback, Post
  <2> QED
    BY <2>1, <2>2
<1>9. CASE Rerun
  BY <1>0, <1>9 DEF Rerun
<1>10. CASE TimeoutReads
  BY <1>0, <1>10 DEF TimeoutReads
<1>11. CASE TimeoutPosts
  BY <1>0, <1>11 DEF TimeoutPosts, Post
<1>12. ASSUME NEW a \in 1 .. Attempts, Supersede(a) PROVE Posted'
  BY <1>0, <1>12 DEF Supersede
<1>16. ASSUME NEW a \in 1 .. Attempts, PlanMode(a) PROVE Posted'
  <2>1. exec[a] = "live" /\ \E e \in {"planned", "over"} : exec' = [exec EXCEPT ![a] = e]
    BY <1>16 DEF PlanMode
  <2>2. UNCHANGED <<now, at, known, shown, record>>
    BY <1>16 DEF PlanMode
  <2> QED
    BY <1>0, <2>1, <2>2
<1>13. ASSUME NEW a \in 1 .. Attempts, RunEnds(a) PROVE Posted'
  <2>1. exec[a] = "planned" /\ exec' = [exec EXCEPT ![a] = "over"] /\ a <= now
    BY <1>0, <1>13 DEF RunEnds, Attempted
  <2>2. UNCHANGED <<now, at, known, record>>
    BY <1>13 DEF RunEnds
  <2>3. \/ UNCHANGED shown
        \/ shown'.by = "run" /\ shown'.of = a /\ Publishes(a)
    <3>1. CASE Publishes(a)
      <4>1. PICK verdict \in {"success", "failure"} : Post(verdict, "run", a)
        BY <1>13, <3>1 DEF RunEnds
      <4> QED
        BY <3>1, <4>1 DEF Post
    <3>2. CASE ~Publishes(a)
      BY <1>13, <3>2 DEF RunEnds
    <3> QED
      BY <3>1, <3>2
  <2>4. Publishes(a) /\ ~oneRun /\ record.gen # 0 => record.of = a
    BY <1>0, PublishesOwnRecord DEF GateInv
  <2> QED
    BY <1>0, <2>1, <2>2, <2>3, <2>4
<1>14. CASE UNCHANGED gateVars
  BY <1>0, <1>14 DEF gateVars
<1> QED
  BY <1>1, <1>2, <1>3, <1>4, <1>5, <1>6, <1>7, <1>8, <1>9, <1>10, <1>11, <1>12, <1>13, <1>14,
     <1>15, <1>16 DEF GateNext, Handoff

LEMMA GateInvariant == GateSpec => []GateInv
<1>1. GateInit => GateInv
  BY InitGateInv
<1>2. GateInv /\ [GateNext]_gateVars => GateInv'
  BY NextGateTypeOK, NextAttempted, NextPosted DEF GateInv
<1> QED
  BY <1>1, <1>2, PTL DEF GateSpec

(* The fallback never paints the gate green over an execution whose        *)
(* dispatch the handoff had confirmed, however the attempts follow one     *)
(* another.                                                                *)
THEOREM SkipSparesConfirmedRuns == GateSpec => []NoSkipOverConfirmedRun
<1>1. GateInv => NoSkipOverConfirmedRun
  BY DEF GateInv, Posted
<1> QED
  BY <1>1, GateInvariant, PTL

(* One step of VerdictStands.                                              *)
VerdictStep ==
  shown.by = "run" /\ shown' # shown =>
    \/ shown'.of > shown.of
    \/ shown'.by = "skip" /\ shown'.of \notin known
    \/ shown'.by = "run" /\ (record.gen = 0 \/ oneRun)
    \/ shown'.by = "timeout" /\ watch \notin Terminal

LEMMA NextVerdictStep == GateInv /\ [GateNext]_gateVars => VerdictStep
<1> SUFFICES ASSUME GateInv, [GateNext]_gateVars, shown.by = "run", shown' # shown PROVE VerdictStep
  BY DEF VerdictStep
<1>0. /\ GateTypeOK /\ Attempts \in Nat \ {0}
      /\ 1 <= shown.of /\ shown.of <= now /\ exec[shown.of] = "over"
  BY AttemptsAssumption DEF GateInv, Posted
<1>1. at \in BeforeInvoke => shown.of < now
  BY <1>0 DEF GateInv, Attempted, GateTypeOK
<1>2. CASE PostPending
  BY <1>0, <1>1, <1>2 DEF PostPending, VerdictStep, BeforeInvoke, GateTypeOK
<1>3. CASE ForcePass
  BY <1>0, <1>1, <1>3 DEF ForcePass, Post, VerdictStep, BeforeInvoke, GateTypeOK
<1>4. CASE Fallback
  <2>1. FailureClass = "infra" /\ Post("success", "skip", now)
    BY <1>4 DEF Fallback
  <2>2. now \notin known
    BY <2>1, KnownIsNoInfra
  <2> QED
    BY <2>1, <2>2 DEF Post, VerdictStep
<1>5. CASE TimeoutPosts
  BY <1>5 DEF TimeoutPosts, Post, VerdictStep
<1>6. ASSUME NEW a \in 1 .. Attempts, RunEnds(a) PROVE VerdictStep
  <2>1. exec[a] = "planned" /\ Publishes(a) /\ shown'.by = "run" /\ shown'.of = a
    BY <1>6 DEF RunEnds, Post
  <2>2. a # shown.of
    BY <1>0, <2>1
  <2>3. CASE a > shown.of
    BY <2>1, <2>3 DEF VerdictStep
  <2>4. CASE a < shown.of
    <3>1. SUFFICES ASSUME ~oneRun, record.gen # 0 PROVE FALSE
      BY <2>1 DEF VerdictStep
    <3>2. record.of = a
      BY <2>1, <3>1, PublishesOwnRecord DEF GateInv
    <3>3. record.of >= shown.of
      BY <3>1 DEF GateInv, Posted
    <3> QED
      BY <1>0, <2>4, <3>2, <3>3 DEF GateTypeOK
  <2> QED
    BY <1>0, <2>2, <2>3, <2>4 DEF GateTypeOK
<1> QED
  BY <1>2, <1>3, <1>4, <1>5, <1>6
     DEF GateNext, Handoff, Prepare, Classify, Invoke, Claim, Report,
     Cancel, Rerun, Supersede, PlanMode, TimeoutReads, gateVars

(* A verdict of the runtime stays on the commit: for any number of         *)
(* attempts, late executions and timeouts it gives way only to what the    *)
(* property names.                                                         *)
THEOREM VerdictsStand == GateSpec => VerdictStands
<1>1. GateInv /\ [GateNext]_gateVars => VerdictStep
  BY NextVerdictStep
<1>2. [](GateInv) /\ [][GateNext]_gateVars => [][VerdictStep]_gateVars
  BY <1>1, PTL
<1> QED
  BY <1>2, GateInvariant, PTL DEF GateSpec, VerdictStands, VerdictStep
=============================================================================
