---------------------------- MODULE ReportProofs ----------------------------
(***************************************************************************)
(* Theorems about GateReport and the plan and tasks of LegRun under it,    *)
(* for any stage, any plugins and any number of retries.                   *)
(***************************************************************************)
EXTENDS GateReport, FiniteSetTheorems, TLAPS

-----------------------------------------------------------------------------
(* The positions of a sequence where something holds, in their order: Nth  *)
(* enumerates them, each once.                                             *)

Rank(S, i) == Cardinality({j \in S : j <= i})

LEMMA FiniteBelow ==
  ASSUME NEW S \in SUBSET Nat, IsFiniteSet(S), NEW i \in S
  PROVE  /\ IsFiniteSet({j \in S : j <= i})
         /\ Rank(S, i) \in 1 .. Cardinality(S)
<1> DEFINE T == {j \in S : j <= i}
<1>1. T \in SUBSET S /\ i \in T
  OBVIOUS
<1>2. IsFiniteSet(T) /\ Cardinality(T) <= Cardinality(S)
  BY <1>1, FS_Subset
<1>3. Cardinality(T) \in Nat /\ Cardinality(S) \in Nat
  BY <1>2, FS_CardinalityType
<1>4. Cardinality(T) # 0
  BY <1>1, <1>2, FS_EmptySet
<1> HIDE DEF T
<1>5. Cardinality(T) \in 1 .. Cardinality(S)
  BY <1>2, <1>3, <1>4
<1> QED
  BY <1>2, <1>5 DEF Rank, T

LEMMA RankGrows ==
  ASSUME NEW S \in SUBSET Nat, IsFiniteSet(S), NEW i \in S, NEW k \in S, i < k
  PROVE  Rank(S, i) # Rank(S, k)
<1> DEFINE A == {j \in S : j <= i}
           B == {j \in S : j <= k}
<1>1. A \in SUBSET B /\ k \in B /\ k \notin A
  <2>1. i \in Nat /\ k \in Nat /\ \A j \in S : j \in Nat
    OBVIOUS
  <2>2. ~(k <= i) /\ \A j \in Nat : j <= i => j <= k
    BY <2>1
  <2>3. k \in B /\ k \notin A
    BY <2>1, <2>2
  <2>4. ASSUME NEW j \in A PROVE j \in B
    BY <2>1, <2>2
  <2> HIDE DEF A, B
  <2> QED
    BY <2>3, <2>4
<1>2. IsFiniteSet(B)
  BY FiniteBelow
<1>3. Cardinality(B) = Cardinality(A) => B = A
  BY <1>1, <1>2, FS_Subset
<1> QED
  BY <1>1, <1>3 DEF Rank

LEMMA RankInjective ==
  ASSUME NEW S \in SUBSET Nat, IsFiniteSet(S), NEW i \in S, NEW k \in S, Rank(S, i) = Rank(S, k)
  PROVE  i = k
<1>1. i < k \/ k < i \/ i = k
  OBVIOUS
<1> QED
  BY <1>1, RankGrows

LEMMA RankOnto ==
  ASSUME NEW S \in SUBSET Nat, IsFiniteSet(S), NEW n \in 1 .. Cardinality(S)
  PROVE  \E i \in S : Rank(S, i) = n
<1> DEFINE N == 1 .. Cardinality(S)
           f == [i \in S |-> Rank(S, i)]
<1>1. f \in Injection(S, N)
  <2>1. f \in [S -> N]
    BY FiniteBelow
  <2>2. \A i, k \in S : f[i] = f[k] => i = k
    BY RankInjective
  <2> QED
    BY <2>1, <2>2 DEF Injection, IsInjective
<1>2. Cardinality(S) \in Nat
  BY FS_CardinalityType
<1>3. IsFiniteSet(N) /\ Cardinality(N) = Cardinality(S)
  BY <1>2, FS_Interval
<1>4. f \in Surjection(S, N)
  BY <1>1, <1>3, FS_Injection
<1>5. \E i \in S : f[i] = n
  BY <1>4 DEF Surjection
<1> QED
  BY <1>5

LEMMA NthIsAt ==
  ASSUME NEW S \in SUBSET Nat, IsFiniteSet(S), NEW n \in 1 .. Cardinality(S)
  PROVE  Nth(S, n) \in S /\ Rank(S, Nth(S, n)) = n
<1>1. \E i \in S : Cardinality({j \in S : j <= i}) = n
  BY RankOnto DEF Rank
<1> QED
  BY <1>1 DEF Nth, Rank

LEMMA NthOfRank ==
  ASSUME NEW S \in SUBSET Nat, IsFiniteSet(S), NEW i \in S
  PROVE  Nth(S, Rank(S, i)) = i
<1>1. Rank(S, i) \in 1 .. Cardinality(S)
  BY FiniteBelow
<1> DEFINE k == Nth(S, Rank(S, i))
<1>2. k \in S /\ Rank(S, k) = Rank(S, i)
  BY <1>1, NthIsAt
<1> HIDE DEF k
<1>3. k = i
  BY <1>2, RankInjective
<1> QED
  BY <1>3 DEF k

-----------------------------------------------------------------------------
(* The plan: the legs are those of the stage, each at most once.           *)

PlanLeg == [leg : Legs, profile : Profiles]

PlanInv ==
  /\ plan \in Seq(PlanLeg) /\ Len(plan) <= Len(Manifests)
  /\ \A i, j \in DOMAIN plan : plan[i].leg = plan[j].leg => i = j
  /\ planned # "yes" => plan = <<>>

LEMMA ManifestsType ==
  /\ Manifests \in Seq(Legs) /\ Len(Manifests) \in Nat
  /\ DOMAIN Manifests = 1 .. Len(Manifests) /\ \A i \in DOMAIN Manifests : Manifests[i] \in Legs
  BY ManifestsAssumption

\* The positions in a sequence are finitely many.
LEMMA PositionsFinite ==
  ASSUME NEW n \in Nat, NEW S \in SUBSET (1 .. n)
  PROVE  /\ IsFiniteSet(S) /\ S \in SUBSET Nat
         /\ Cardinality(S) \in Nat /\ Cardinality(S) <= n
<1>1. IsFiniteSet(1 .. n) /\ Cardinality(1 .. n) = n
  BY FS_Interval
<1>2. IsFiniteSet(S) /\ Cardinality(S) <= n
  BY <1>1, FS_Subset
<1> QED
  BY <1>2, FS_CardinalityType

LEMMA PlannedLegsType ==
  ASSUME ~PlanRaises
  PROVE  /\ PlannedLegs \in Seq(PlanLeg) /\ Len(PlannedLegs) <= Len(Manifests)
         /\ \A i, j \in DOMAIN PlannedLegs : PlannedLegs[i].leg = PlannedLegs[j].leg => i = j
<1> DEFINE chosen == {i \in DOMAIN Manifests : Selected(Manifests[i])}
           n == Cardinality(chosen)
<1>1. /\ IsFiniteSet(chosen) /\ chosen \in SUBSET Nat
      /\ n \in Nat /\ n <= Len(Manifests)
  BY ManifestsType, PositionsFinite
<1>2. PlannedLegs = [k \in 1 .. n |-> [leg |-> Manifests[Nth(chosen, k)],
                                       profile |-> ResolveProfile(Manifests[Nth(chosen, k)])]]
  BY DEF PlannedLegs
<1>3. \A k \in 1 .. n : Nth(chosen, k) \in chosen /\ Rank(chosen, Nth(chosen, k)) = k
  BY <1>1, NthIsAt
<1> HIDE DEF chosen, n
<1>4. \A k \in 1 .. n : PlannedLegs[k] = [leg |-> Manifests[Nth(chosen, k)],
                                          profile |-> ResolveProfile(Manifests[Nth(chosen, k)])]
  BY <1>2
<1>5. DOMAIN PlannedLegs = 1 .. n
  BY <1>2
<1>6. \A k \in 1 .. n : Nth(chosen, k) \in DOMAIN Manifests
  BY <1>3 DEF chosen
<1>7. \A k \in 1 .. n : PlannedLegs[k] \in PlanLeg
  <2> TAKE k \in 1 .. n
  <2> DEFINE l == Manifests[Nth(chosen, k)]
  <2>1. PlannedLegs[k].profile \in Profiles
    BY <1>5 DEF PlanRaises
  <2>2. l \in Legs
    BY <1>6, ManifestsType
  <2>3. PlannedLegs[k] = [leg |-> l, profile |-> ResolveProfile(l)]
    BY <1>4
  <2> HIDE DEF l
  <2>4. ResolveProfile(l) \in Profiles
    BY <2>1, <2>3
  <2> QED
    BY <2>2, <2>3, <2>4 DEF PlanLeg
<1>8. PlannedLegs \in Seq(PlanLeg) /\ Len(PlannedLegs) = n
  <2>1. PlannedLegs \in [1 .. n -> PlanLeg]
    BY <1>2, <1>5, <1>7
  <2> QED
    BY <1>1, <2>1
<1>9. \A i, j \in 1 .. n : PlannedLegs[i].leg = PlannedLegs[j].leg => i = j
  <2> TAKE i, j \in 1 .. n
  <2> HAVE PlannedLegs[i].leg = PlannedLegs[j].leg
  <2>1. Manifests[Nth(chosen, i)] = Manifests[Nth(chosen, j)]
    <3>1. ASSUME NEW k \in 1 .. n PROVE PlannedLegs[k].leg = Manifests[Nth(chosen, k)]
      <4> DEFINE l == Manifests[Nth(chosen, k)]
      <4>1. PlannedLegs[k] = [leg |-> l, profile |-> ResolveProfile(l)]
        BY <1>4
      <4> HIDE DEF l
      <4> QED
        BY <4>1 DEF l
    <3> QED
      BY <3>1
  <2>2. Nth(chosen, i) = Nth(chosen, j)
    BY <1>6, <2>1, ManifestsAssumption
  <2> QED
    BY <1>3, <2>2
<1> QED
  BY <1>1, <1>5, <1>8, <1>9

-----------------------------------------------------------------------------
(* The tasks of a plan.                                                    *)

\* Where the leg at a position of the plan is executed.
SlotOf(i) == <<plan[i].profile, Rank(TasksOf(plan[i].profile), i) - 1>>

LEMMA PlanType ==
  ASSUME PlanInv, NEW i \in DOMAIN plan
  PROVE  plan[i].leg \in Legs /\ plan[i].profile \in Profiles
<1>1. plan[i] \in PlanLeg
  BY DEF PlanInv
<1> QED
  BY <1>1 DEF PlanLeg

LEMMA TasksFinite ==
  ASSUME PlanInv, NEW p \in Profiles
  PROVE  /\ TasksOf(p) \in SUBSET (DOMAIN plan) /\ TasksOf(p) \in SUBSET Nat
         /\ IsFiniteSet(TasksOf(p)) /\ TaskCount(p) \in Nat /\ TaskCount(p) <= Len(Manifests)
<1>1. Len(plan) \in Nat /\ DOMAIN plan = 1 .. Len(plan) /\ Len(Manifests) \in Nat
  BY ManifestsType DEF PlanInv
<1>2. TasksOf(p) \in SUBSET (1 .. Len(plan))
  BY <1>1 DEF TasksOf
<1>3. /\ IsFiniteSet(TasksOf(p)) /\ TasksOf(p) \in SUBSET Nat
      /\ Cardinality(TasksOf(p)) \in Nat /\ Cardinality(TasksOf(p)) <= Len(plan)
  BY <1>1, <1>2, PositionsFinite
<1> QED
  BY <1>1, <1>2, <1>3 DEF TaskCount, PlanInv

\* A counted task has a position of the plan, and it is the one it counts.
LEMMA TaskHasLeg ==
  ASSUME PlanInv, NEW s \in Counted
  PROVE  \E i \in DOMAIN plan : TaskLeg(s) = plan[i].leg /\ s = SlotOf(i)
<1> DEFINE S == TasksOf(s[1])
           i == Nth(S, s[2] + 1)
<1>1. s = <<s[1], s[2]>> /\ s[1] \in Profiles /\ s[2] \in Nat /\ s[2] < TaskCount(s[1])
  BY ManifestsType DEF Counted, Slots
<1>2. S \in SUBSET (DOMAIN plan) /\ S \in SUBSET Nat /\ IsFiniteSet(S) /\ Cardinality(S) \in Nat
  BY <1>1, TasksFinite DEF TaskCount
<1>3. s[2] + 1 \in 1 .. Cardinality(S)
  BY <1>1, <1>2 DEF TaskCount
<1>4. i \in S /\ Rank(S, i) = s[2] + 1
  BY <1>2, <1>3, NthIsAt
<1>5. plan[i].profile = s[1] /\ i \in DOMAIN plan
  BY <1>4 DEF TasksOf
<1>6. SlotOf(i) = <<s[1], s[2]>>
  BY <1>1, <1>4, <1>5 DEF SlotOf
<1> QED
  BY <1>1, <1>5, <1>6 DEF TaskLeg

\* A position of the plan has a counted task.
LEMMA LegHasTask ==
  ASSUME PlanInv, NEW i \in DOMAIN plan
  PROVE  SlotOf(i) \in Counted /\ TaskLeg(SlotOf(i)) = plan[i].leg
<1> DEFINE p == plan[i].profile
           S == TasksOf(p)
<1>1. p \in Profiles /\ i \in S
  BY PlanType DEF TasksOf
<1>2. /\ S \in SUBSET Nat /\ IsFiniteSet(S)
      /\ Cardinality(S) \in Nat /\ Cardinality(S) <= Len(Manifests)
  BY <1>1, TasksFinite DEF TaskCount
<1>3. Rank(S, i) \in 1 .. Cardinality(S) /\ Nth(S, Rank(S, i)) = i
  BY <1>1, <1>2, FiniteBelow, NthOfRank
<1>4. Rank(S, i) - 1 \in 0 .. Len(Manifests) - 1 /\ Rank(S, i) - 1 < TaskCount(p)
  BY <1>2, <1>3, ManifestsType DEF TaskCount
<1>5. SlotOf(i) = <<p, Rank(S, i) - 1>>
  BY DEF SlotOf
<1>6. (Rank(S, i) - 1) + 1 = Rank(S, i)
  BY <1>2, <1>3
<1> QED
  BY <1>1, <1>3, <1>4, <1>5, <1>6 DEF Counted, Slots, TaskLeg

\* Two tasks never have the same leg.
LEMMA TasksDiffer ==
  ASSUME PlanInv, NEW s \in Counted, NEW t \in Counted, TaskLeg(s) = TaskLeg(t)
  PROVE  s = t
<1>1. PICK i \in DOMAIN plan : TaskLeg(s) = plan[i].leg /\ s = SlotOf(i)
  BY TaskHasLeg
<1>2. PICK j \in DOMAIN plan : TaskLeg(t) = plan[j].leg /\ t = SlotOf(j)
  BY TaskHasLeg
<1> QED
  BY <1>1, <1>2 DEF PlanInv

LEMMA TaskLegType ==
  ASSUME PlanInv, NEW s \in Counted
  PROVE  TaskLeg(s) \in PlanLegs /\ TaskLeg(s) \in Legs /\ FileOf[TaskLeg(s)] \in Files
<1>1. PICK i \in DOMAIN plan : TaskLeg(s) = plan[i].leg
  BY TaskHasLeg
<1>2. plan[i].leg \in Legs
  BY PlanType
<1> QED
  BY <1>1, <1>2 DEF PlanLegs, Files

LEMMA TasksHaveLegs ==
  /\ PlanInv => \A s \in Counted : TaskLeg(s) \in Legs
  /\ PlanInv' => (\A s \in Counted : TaskLeg(s) \in Legs)'
<1>1. PlanInv => \A s \in Counted : TaskLeg(s) \in Legs
  BY TaskLegType
<1> QED
  BY <1>1, PTL

LEMMA OneTaskEach == PlanInv => LegsHaveTasks
<1> SUFFICES ASSUME PlanInv, NEW l \in PlanLegs
             PROVE  Cardinality({s \in Counted : TaskLeg(s) = l}) = 1
  BY DEF LegsHaveTasks
<1>1. PICK i \in DOMAIN plan : l = plan[i].leg
  BY DEF PlanLegs
<1>2. SlotOf(i) \in Counted /\ TaskLeg(SlotOf(i)) = l
  BY <1>1, LegHasTask
<1>3. {s \in Counted : TaskLeg(s) = l} = {SlotOf(i)}
  BY <1>2, TasksDiffer
<1> QED
  BY <1>3, FS_Singleton

-----------------------------------------------------------------------------
(* Only tasks that the plan counts are ever started, after the plan is     *)
(* frozen, and the publisher comes after all of them.                      *)

Places == {"none", "start", "render", "post", "run", "digest", "latest", "verdict",
           "logs", "summary", "progress", "rerender", "repost", "done", "dead"}

StageInv ==
  /\ \A s \in Slots : at[s] # "none" => s \in Counted
  /\ planned # "yes" => opener = "idle"
  /\ opener # "done" => report = "idle"
  /\ report # "idle" => \A s \in Counted : at[s] \in {"done", "dead"}

\* Before there is a plan no task is counted.
LEMMA NoPlanNoTasks ==
  ASSUME PlanInv, planned # "yes"
  PROVE  Counted = {}
<1>1. plan = <<>>
  BY DEF PlanInv
<1>2. ASSUME NEW s \in Counted PROVE FALSE
  <2>1. s[1] \in Profiles /\ s[2] \in Nat /\ s[2] < TaskCount(s[1])
    BY <1>2, ManifestsType DEF Counted, Slots
  <2>2. TasksOf(s[1]) = {}
    BY <1>1 DEF TasksOf
  <2>3. TaskCount(s[1]) = 0
    BY <2>2, FS_EmptySet DEF TaskCount
  <2> QED
    BY <2>1, <2>3
<1> QED
  BY <1>2

\* The plan and its tasks stay as they were frozen.
LEMMA PlanKept ==
  ASSUME UNCHANGED <<plan, planned>>
  PROVE  /\ PlanInv => PlanInv'
         /\ Counted' = Counted /\ PlanLegs' = PlanLegs
         /\ \A s : TaskLeg(s)' = TaskLeg(s)
  BY DEF PlanInv, Counted, PlanLegs, TaskLeg, TaskCount, TasksOf

LEMMA BuildPlanKeeps ==
  ASSUME PlanInv, BuildPlan
  PROVE  PlanInv'
<1>1. CASE PlanRaises
  BY <1>1, ManifestsType DEF BuildPlan, PlanInv
<1>2. CASE ~PlanRaises
  BY <1>2, PlannedLegsType DEF BuildPlan, PlanInv
<1> QED
  BY <1>1, <1>2

\* One task moves, from a place to a place.
Moves(s) == \E to \in Places \ {"none"} : at[s] # "none" /\ at' = [at EXCEPT ![s] = to]

LEMMA TaskStepMoves ==
  ASSUME NEW s \in Slots, TaskStep(s)
  PROVE  /\ Moves(s) /\ at[s] \notin {"done", "dead"}
         /\ UNCHANGED <<stage, accepted, planned, plan, opener, report, rows, comments, known>>
<1>1. ASSUME TaskWrites(s), UNCHANGED reportVars
      PROVE  Moves(s) /\ at[s] \notin {"done", "dead"} /\ UNCHANGED <<stage, accepted, planned, plan>>
  BY <1>1 DEF TaskWrites, TaskStarts, RunLeg, WriteDigest, WriteLatest, WriteVerdict, WriteSnap, CopyLogs,
     WriteSummary, WriteProgress, Goes, LegKeeps, Moves, Places
<1>2. ASSUME TaskDies(s)
      PROVE  Moves(s) /\ at[s] \notin {"done", "dead"} /\ UNCHANGED <<stage, accepted, planned, plan>>
  <2>1. PICK to \in {"start", "dead"} : at' = [at EXCEPT ![s] = to]
    BY <1>2 DEF TaskDies
  <2> QED
    BY <1>2, <2>1 DEF TaskDies, Moves, Places
<1>3. ASSUME RenderProgress(s) \/ PostProgress(s)
      PROVE  Moves(s) /\ at[s] \notin {"done", "dead"} /\ UNCHANGED <<stage, accepted, planned, plan>>
  BY <1>3 DEF RenderProgress, PostProgress, Goes, LegKeeps, Moves, Places
<1>4. UNCHANGED <<opener, report, rows, comments, known>>
  BY DEF TaskStep, reportVars, RenderProgress, PostProgress
<1> QED
  BY <1>1, <1>2, <1>3, <1>4 DEF TaskStep

LEMMA InitPlan == Init => PlanInv /\ StageInv
  BY ManifestsType DEF Init, LegInit, PlanInv, StageInv

LEMMA NextPlan ==
  ASSUME PlanInv, StageInv, at \in [Slots -> Places], [Next]_vars
  PROVE  PlanInv' /\ StageInv'
<1>1. CASE OpenGate
  <2>1. BuildPlan /\ planned = "no" /\ UNCHANGED <<at, report>>
    BY <1>1 DEF OpenGate, BuildPlan, taskVars
  <2>2. Counted = {} /\ opener = "idle"
    BY <2>1, NoPlanNoTasks DEF StageInv
  <2>3. \A s \in Slots : at'[s] = "none"
    BY <2>1, <2>2 DEF StageInv
  <2>4. report' = "idle"
    BY <2>1, <2>2 DEF StageInv
  <2>5. planned' # "yes" => opener' = "idle"
    BY <1>1 DEF OpenGate
  <2> QED
    BY <2>1, <2>3, <2>4, <2>5, BuildPlanKeeps DEF StageInv
<1>2. CASE CreateCheck \/ StartedComment \/ PersistStarted
  <2>1. /\ UNCHANGED <<plan, planned, at, report>> /\ opener \in {"create", "comment", "persist"}
        /\ opener' \in {"comment", "persist", "done"}
    BY <1>2 DEF CreateCheck, StartedComment, PersistStarted, legVars, taskVars
  <2> QED
    BY <2>1, PlanKept DEF StageInv
<1>3. CASE Launch
  <2>1. UNCHANGED <<plan, planned, opener, report>> /\ opener = "done"
    BY <1>3 DEF Launch, RunJob, reportVars
  <2>2. PICK p \in Profiles : RunJob(p)
    BY <1>3 DEF Launch
  <2>3. PICK t \in Counted : at[t] = "none"
    BY <2>2 DEF RunJob
  <2>4. report = "idle"
    BY <2>3 DEF StageInv
  <2>5. \A s \in Slots : at'[s] # "none" => s \in Counted
    BY <2>2 DEF RunJob, StageInv
  <2> QED
    BY <2>1, <2>4, <2>5, PlanKept DEF StageInv
<1>4. ASSUME NEW s \in Slots, TaskStep(s) PROVE PlanInv' /\ StageInv'
  <2>1. /\ Moves(s) /\ at[s] \notin {"done", "dead"}
        /\ UNCHANGED <<planned, plan, opener, report>>
    BY <1>4, TaskStepMoves
  <2>2. s \in Counted
    BY <2>1 DEF Moves, StageInv
  <2>3. report = "idle"
    BY <2>1, <2>2 DEF StageInv
  <2>4. \A t \in Slots : t # s => at'[t] = at[t]
    BY <2>1 DEF Moves
  <2> QED
    BY <2>1, <2>2, <2>3, <2>4, PlanKept DEF StageInv
<1>5. CASE LoadSummaries
  <2>1. UNCHANGED <<plan, planned, at, opener>> /\ opener = "done"
    BY <1>5 DEF LoadSummaries, legVars, taskVars
  <2>2. \A s \in Counted : at[s] \in {"done", "dead"}
    BY <1>5 DEF LoadSummaries, JobOver, Counted, Slots
  <2> QED
    BY <2>1, <2>2, PlanKept DEF StageInv
<1>6. CASE FinalizeCheck \/ FinalComment
  <2>1. UNCHANGED <<plan, planned, at, opener>> /\ report # "idle"
    BY <1>6 DEF FinalizeCheck, FinalComment, legVars, taskVars
  <2> QED
    BY <2>1, PlanKept DEF StageInv
<1>7. CASE UNCHANGED vars
  <2>1. UNCHANGED <<plan, planned, at, opener, report>>
    BY <1>7 DEF vars, legVars, taskVars, reportVars
  <2> QED
    BY <2>1, PlanKept DEF StageInv
<1> QED
  BY <1>1, <1>2, <1>3, <1>4, <1>5, <1>6, <1>7 DEF Next, Finished

-----------------------------------------------------------------------------
(* Type correctness.                                                       *)

LEMMA LegsFinite == IsFiniteSet(Legs)
<1>1. Manifests \in Surjection(1 .. Len(Manifests), Legs)
  <2>1. Manifests \in [1 .. Len(Manifests) -> Legs]
    BY ManifestsAssumption
  <2>2. \A l \in Legs : \E i \in 1 .. Len(Manifests) : Manifests[i] = l
    BY ManifestsType DEF Legs
  <2> QED
    BY <2>1, <2>2 DEF Surjection
<1>2. IsFiniteSet(1 .. Len(Manifests))
  BY ManifestsType, FS_Interval
<1> QED
  BY <1>1, <1>2, FS_Surjection

LEMMA LegResultType ==
  ASSUME NEW l, NEW h \in Hooks
  PROVE  LegResult(l, h) \in Results
<1>1. h.failed \in {0, 1}
  BY DEF Hooks
<1>2. Scored(Executed(h)).failed \in {0, 1}
  BY <1>1 DEF Scored, Executed
<1>3. Evaluated(l, Scored(Executed(h))) \in Results
  BY <1>2 DEF Evaluated, Results, Reasons
<1> QED
  BY <1>3 DEF LegResult, ExecuteFailure, Results, Reasons

TaskType ==
  /\ at \in [Slots -> Places]
  /\ tries \in [Slots -> 0 .. MaxRetries] /\ deaths \in 0 .. MaxDeaths
  /\ out \in [Slots -> {NoResult} \cup Outcomes]

Snapshots == [digest : Results \cup {NoResult}, latest : Results \cup {NoResult},
              verdict : Results \cup {NoResult}, logs : BOOLEAN]

BucketType ==
  /\ progress \in [Files -> {"none", "running", "pass", "fail"}]
  /\ summary \in [Files -> Results \cup {NoResult}]
  /\ snap \in [Legs -> Snapshots]
  /\ wrote \in [Legs -> Hooks \cup {NoResult}]

InputType == stage \in Stages /\ accepted \in Requests /\ planned \in {"no", "yes", "failed"}

CheckType ==
  check \in [state : {"none", "open"} \cup Conclusions, rows : [Legs -> Statuses], scores : SUBSET Legs,
             lists : [named : SUBSET Legs, warned : SUBSET Legs,
                      annotated : 0 .. MaxAnnotations, dumped : SUBSET Legs]]
Views == [rows : [Legs -> Statuses], scores : SUBSET Legs]

PublisherType ==
  /\ known \in BOOLEAN /\ comments \in Seq(Gate \cup {"other"})
  /\ opener \in {"idle", "create", "comment", "persist", "done"}
  /\ report \in {"idle", "check", "comment", "done"}
  /\ rows \in [Legs -> Results \cup {NoResult}]

TypeParts ==
  /\ InputType /\ plan \in Seq(PlanLeg) /\ TaskType /\ BucketType
  /\ CheckType /\ view \in [Slots -> Views] /\ PublisherType
  /\ faults \in 0 .. MaxTroubles

LEMMA TypeInParts == (TypeOK <=> TypeParts) /\ (TypeOK' <=> TypeParts')
  BY DEF TypeParts, TypeOK, LegTypeOK, InputType, TaskType, BucketType, PlanLeg, Places, Snapshots, CheckType, Views,
     PublisherType

\* What a task has got from its leg while it still needs it.
Holding == {"digest", "latest", "verdict", "logs", "summary", "progress"}
OutInv == \A s \in Slots : at[s] \in Holding => out[s] \in Outcomes

\* Renderings of the bucket.
LEMMA ProgressTableType ==
  ASSUME BucketType
  PROVE  ProgressTable \in [Legs -> Statuses] /\ ProgressScores \in SUBSET PlanLegs
<1>1. ASSUME NEW l \in Legs PROVE ProgressRow(l) \in Statuses
  <2>1. FileOf[l] \in Files
    BY DEF Files
  <2> QED
    BY <2>1, NoResultAssumption DEF BucketType, ProgressRow, Statuses, Results
<1> QED
  BY <1>1 DEF ProgressTable, ProgressScores

LEMMA FinalBodyType ==
  ASSUME PublisherType
  PROVE  FinalBody \in [state : Conclusions, rows : [Legs -> Statuses], scores : SUBSET Legs,
                         lists : [named : SUBSET Legs, warned : SUBSET Legs,
                                  annotated : 0 .. MaxAnnotations, dumped : SUBSET Legs]]
<1>1. FinalTable \in [Legs -> Statuses]
  <2>1. ASSUME NEW l \in Legs PROVE FinalRow(l) \in Statuses
    BY DEF FinalRow, Reported, PublisherType, Results, Statuses
  <2> QED
    BY <2>1 DEF FinalTable
<1>2. Annotations \in 0 .. MaxAnnotations
  <2> DEFINE S == {l \in Reported : rows[l].failed > 0}
  <2>1. S \in SUBSET Legs
    BY DEF Reported
  <2>2. IsFiniteSet(S)
    BY <2>1, LegsFinite, FS_Subset
  <2>3. Cardinality(S) \in Nat /\ MaxAnnotations \in Nat
    BY <2>2, FS_CardinalityType, ReportBoundsAssumption
  <2> HIDE DEF S
  <2>4. (IF Cardinality(S) > MaxAnnotations THEN MaxAnnotations ELSE Cardinality(S)) \in 0 .. MaxAnnotations
    BY <2>3
  <2> QED
    BY <2>4 DEF Annotations, S
<1>3. Failing \in SUBSET Legs /\ Warned \in SUBSET Legs /\ Dumped \in SUBSET Legs /\ FinalScores \in SUBSET Legs
  BY DEF Failing, Warned, Dumped, Reported, FinalScores
<1>4. Aggregate \in Conclusions
  BY DEF Aggregate, Conclusions
<1> QED
  BY <1>1, <1>2, <1>3, <1>4 DEF FinalBody

LEMMA UpsertType ==
  ASSUME comments \in Seq(Gate \cup {"other"}), NEW body \in Gate, Upsert(body)
  PROVE  comments' \in Seq(Gate \cup {"other"})
<1>1. CASE Create(body)
  BY <1>1 DEF Create
<1>2. CASE Edit(body)
  BY <1>2 DEF Edit, Found, Marked
<1> QED
  BY <1>1, <1>2 DEF Upsert

LEMMA FaultsType ==
  ASSUME faults \in 0 .. MaxTroubles, deaths \in 0 .. MaxDeaths, CallWorks \/ CallFails
  PROVE  faults' \in 0 .. MaxTroubles
<1>1. MaxTroubles \in Nat /\ MaxDeaths \in Nat
  BY ReportBoundsAssumption, RetriesAssumption
<1> QED
  BY <1>1 DEF CallWorks, CallFails

LEMMA ProgressBodyType ==
  ASSUME NEW v \in Views
  PROVE  ProgressBody(v) \in [state : {"none", "open"} \cup Conclusions, rows : [Legs -> Statuses],
                              scores : SUBSET Legs,
                              lists : [named : SUBSET Legs, warned : SUBSET Legs,
                                       annotated : 0 .. MaxAnnotations, dumped : SUBSET Legs]]
<1>1. MaxAnnotations \in Nat
  BY ReportBoundsAssumption
<1>2. ProgressBody(v) = [state |-> "open", rows |-> v.rows, scores |-> v.scores, lists |-> NoLists]
  BY DEF ProgressBody
<1>3. NoLists \in [named : SUBSET Legs, warned : SUBSET Legs, annotated : 0 .. MaxAnnotations, dumped : SUBSET Legs]
  BY <1>1 DEF NoLists
<1> QED
  BY <1>2, <1>3 DEF Views

LEMMA NoViewType == NoView \in Views
  BY DEF NoView, NoRows, Views, Statuses

\* The writes of a task, one by one.
LEMMA TaskWritesType ==
  ASSUME TaskType, BucketType, OutInv, PlanInv, NEW s \in Counted, TaskWrites(s)
  PROVE  TaskType' /\ BucketType' /\ OutInv'
<1> DEFINE l == TaskLeg(s)
<1>0. s \in Slots /\ l \in Legs /\ FileOf[l] \in Files
  BY TaskLegType DEF Counted
<1>1. CASE TaskStarts(s)
  <2>1. BucketType'
    BY <1>0, <1>1 DEF TaskStarts, BucketType
  <2>2. TaskType' /\ OutInv'
    BY <1>0, <1>1 DEF TaskStarts, Goes, LegKeeps, TaskType, OutInv, Holding, Places
  <2> QED
    BY <2>1, <2>2
<1>2. CASE RunLeg(s)
  <2>1. PICK h \in Hooks : out' = [out EXCEPT ![s] = [hooks |-> h, result |-> LegResult(l, h)]]
    BY <1>2 DEF RunLeg
  <2>2. [hooks |-> h, result |-> LegResult(l, h)] \in Outcomes
    BY LegResultType DEF Outcomes
  <2>3. at' = [at EXCEPT ![s] = "digest"] /\ UNCHANGED <<tries, deaths, bucketVars>>
    BY <1>2 DEF RunLeg, Goes, LegKeeps
  <2>4. out' \in [Slots -> {NoResult} \cup Outcomes] /\ at' \in [Slots -> Places]
    BY <2>1, <2>2, <2>3 DEF TaskType, Places
  <2>5. TaskType'
    BY <2>3, <2>4 DEF TaskType
  <2>6. BucketType'
    BY <2>3 DEF BucketType, bucketVars
  <2>7. out'[s] \in Outcomes /\ \A t \in Slots \ {s} : out'[t] = out[t] /\ at'[t] = at[t]
    BY <1>0, <2>1, <2>2, <2>3 DEF TaskType
  <2> QED
    BY <2>5, <2>6, <2>7 DEF OutInv
<1>3. ASSUME NEW field \in {"digest", "latest", "verdict"}, NEW from \in Holding, NEW to \in Holding,
             WriteSnap(s, field, from, to)
      PROVE  TaskType' /\ BucketType' /\ OutInv'
  <2>1. out[s].result \in Results
    BY <1>0, <1>3 DEF WriteSnap, Goes, OutInv, Outcomes
  <2>2. [snap[l] EXCEPT ![field] = out[s].result] \in Snapshots
    <3>1. snap[l] \in Snapshots
      BY <1>0 DEF BucketType
    <3> QED
      BY <2>1, <3>1 DEF Snapshots
  <2>3. snap' \in [Legs -> Snapshots]
    BY <1>0, <1>3, <2>2 DEF WriteSnap, BucketType
  <2>4. UNCHANGED <<progress, summary, wrote, out, tries, deaths>> /\ at' = [at EXCEPT ![s] = to] /\ at[s] = from
    BY <1>3 DEF WriteSnap, Goes, LegKeeps
  <2>5. BucketType'
    BY <2>3, <2>4 DEF BucketType
  <2>6. to \in Places
    BY DEF Holding, Places
  <2> QED
    BY <1>0, <2>4, <2>5, <2>6 DEF TaskType, OutInv
<1>4. CASE CopyLogs(s)
  <2>1. [snap[l] EXCEPT !.logs = @ \/ Loads(out[s].hooks)] \in Snapshots
    <3>1. snap[l] \in Snapshots
      BY <1>0 DEF BucketType
    <3> QED
      BY <3>1 DEF Snapshots, Loads
  <2>2. snap' = [snap EXCEPT ![l] = [snap[l] EXCEPT !.logs = @ \/ Loads(out[s].hooks)]]
    BY <1>0, <1>4 DEF CopyLogs, BucketType
  <2>3. snap' \in [Legs -> Snapshots]
    BY <1>0, <2>1, <2>2 DEF BucketType
  <2>4. UNCHANGED <<progress, summary, wrote, out, tries, deaths>> /\ at' = [at EXCEPT ![s] = "summary"] /\ at[s] = "logs"
    BY <1>4 DEF CopyLogs, Goes, LegKeeps
  <2> QED
    BY <1>0, <2>3, <2>4 DEF BucketType, TaskType, OutInv, Holding, Places
<1>5. CASE WriteSummary(s)
  <2>1. out[s].result \in Results /\ out[s].hooks \in Hooks
    BY <1>0, <1>5 DEF WriteSummary, Goes, OutInv, Outcomes, Holding
  <2>2. BucketType'
    BY <1>0, <1>5, <2>1 DEF WriteSummary, BucketType
  <2>3. UNCHANGED <<out, tries, deaths>> /\ at' = [at EXCEPT ![s] = "progress"] /\ at[s] = "summary"
    BY <1>5 DEF WriteSummary, Goes, LegKeeps
  <2> QED
    BY <1>0, <2>2, <2>3 DEF TaskType, OutInv, Holding, Places
<1>6. CASE WriteProgress(s)
  <2>1. out[s].result.status \in {"pass", "fail"}
    BY <1>0, <1>6 DEF WriteProgress, Goes, OutInv, Outcomes, Holding, Results
  <2>2. BucketType'
    BY <1>0, <1>6, <2>1 DEF WriteProgress, BucketType
  <2>3. /\ UNCHANGED <<tries, deaths>> /\ at' = [at EXCEPT ![s] = "rerender"]
        /\ out' = [out EXCEPT ![s] = NoResult]
    BY <1>6 DEF WriteProgress, Goes, LegKeeps
  <2> QED
    BY <1>0, <2>2, <2>3 DEF TaskType, OutInv, Holding, Places
<1>7. WriteDigest(s) \/ WriteLatest(s) \/ WriteVerdict(s) => TaskType' /\ BucketType' /\ OutInv'
  BY <1>3 DEF WriteDigest, WriteLatest, WriteVerdict, Holding
<1> QED
  BY <1>1, <1>2, <1>4, <1>5, <1>6, <1>7 DEF TaskWrites

LEMMA TaskDiesType ==
  ASSUME TaskType, BucketType, OutInv, NEW s \in Slots, TaskDies(s)
  PROVE  TaskType' /\ BucketType' /\ OutInv'
<1>1. MaxRetries \in Nat /\ MaxDeaths \in Nat
  BY RetriesAssumption
<1>2. tries' \in [Slots -> 0 .. MaxRetries] /\ deaths' \in 0 .. MaxDeaths
  <2>1. tries[s] \in 0 .. MaxRetries
    BY DEF TaskType
  <2>2. (IF tries[s] < MaxRetries THEN tries[s] + 1 ELSE tries[s]) \in 0 .. MaxRetries
    BY <1>1, <2>1
  <2> QED
    BY <1>1, <2>2 DEF TaskDies, TaskType
<1>3. PICK to \in {"start", "dead"} : at' = [at EXCEPT ![s] = to]
  BY DEF TaskDies
<1>4. out' = [out EXCEPT ![s] = NoResult] /\ UNCHANGED bucketVars
  BY DEF TaskDies
<1>5. TaskType'
  BY <1>2, <1>3, <1>4 DEF TaskType, Places
<1>6. BucketType'
  BY <1>4 DEF BucketType, bucketVars
<1>7. OutInv'
  BY <1>3, <1>4 DEF OutInv, TaskType, Holding
<1> QED
  BY <1>5, <1>6, <1>7

LEMMA TaskStepType ==
  ASSUME TypeOK, PlanInv, StageInv, OutInv, NEW s \in Slots, TaskStep(s)
  PROVE  TypeOK' /\ OutInv'
<1>0. /\ InputType /\ TaskType /\ BucketType /\ CheckType /\ PublisherType
      /\ view \in [Slots -> Views] /\ faults \in 0 .. MaxTroubles
  BY TypeInParts DEF TypeParts
<1>1. /\ Moves(s) /\ UNCHANGED <<stage, accepted, planned, plan, opener, report, rows, comments, known>>
  BY TaskStepMoves
<1>2. s \in Counted
  BY <1>1 DEF Moves, StageInv
<1>3. plan' \in Seq(PlanLeg) /\ InputType' /\ PublisherType'
  BY <1>0, <1>1 DEF InputType, PublisherType, PlanInv
<1>4. CASE TaskWrites(s) /\ UNCHANGED reportVars
  <2>1. TaskType' /\ BucketType' /\ OutInv'
    BY <1>0, <1>2, <1>4, TaskWritesType
  <2>2. CheckType' /\ view' \in [Slots -> Views] /\ faults' \in 0 .. MaxTroubles
    BY <1>0, <1>4 DEF reportVars, CheckType
  <2> QED
    BY <1>3, <2>1, <2>2, TypeInParts DEF TypeParts
<1>5. CASE TaskDies(s) /\ UNCHANGED reportVars
  <2>1. TaskType' /\ BucketType' /\ OutInv'
    BY <1>0, <1>5, TaskDiesType
  <2>2. CheckType' /\ view' \in [Slots -> Views] /\ faults' \in 0 .. MaxTroubles
    BY <1>0, <1>5 DEF reportVars, CheckType
  <2> QED
    BY <1>3, <2>1, <2>2, TypeInParts DEF TypeParts
<1>6. CASE RenderProgress(s)
  <2>1. /\ UNCHANGED <<tries, deaths, out, bucketVars, check, faults>>
        /\ view' = [view EXCEPT ![s] = IF known THEN [rows |-> ProgressTable, scores |-> ProgressScores] ELSE NoView]
    BY <1>6 DEF RenderProgress, LegKeeps
  <2>2. PICK to \in {"post", "run", "repost", "done"} : at' = [at EXCEPT ![s] = to]
    BY <1>6 DEF RenderProgress, Goes
  <2>3. [rows |-> ProgressTable, scores |-> ProgressScores] \in Views
    <3>1. PlanLegs \in SUBSET Legs
      BY PlanType DEF PlanLegs
    <3> QED
      BY <1>0, <3>1, ProgressTableType DEF Views
  <2>4. view' \in [Slots -> Views]
    BY <1>0, <2>1, <2>3, NoViewType
  <2>5. TaskType' /\ OutInv'
    BY <1>0, <2>1, <2>2 DEF TaskType, OutInv, Holding, Places
  <2>6. BucketType' /\ CheckType' /\ faults' \in 0 .. MaxTroubles
    BY <1>0, <2>1 DEF BucketType, CheckType, bucketVars
  <2> QED
    BY <1>3, <2>4, <2>5, <2>6, TypeInParts DEF TypeParts
<1>7. CASE PostProgress(s)
  <2>1. /\ UNCHANGED <<tries, deaths, out, bucketVars>>
        /\ check' \in {check, ProgressBody(view[s])}
        /\ view' = [view EXCEPT ![s] = NoView] /\ (CallWorks \/ CallFails)
    BY <1>7 DEF PostProgress, LegKeeps
  <2>2. PICK to \in {"run", "done"} : at' = [at EXCEPT ![s] = to]
    BY <1>7 DEF PostProgress, Goes
  <2>3. view' \in [Slots -> Views] /\ view[s] \in Views
    BY <1>0, <2>1, NoViewType
  <2>4. CheckType'
    BY <1>0, <2>1, <2>3, ProgressBodyType DEF CheckType
  <2>5. faults' \in 0 .. MaxTroubles
    BY <1>0, <1>7, FaultsType DEF TaskType, PostProgress
  <2>6. TaskType' /\ OutInv'
    BY <1>0, <2>1, <2>2 DEF TaskType, OutInv, Holding, Places
  <2>7. BucketType'
    BY <1>0, <2>1 DEF BucketType, bucketVars
  <2> QED
    BY <1>3, <2>3, <2>4, <2>5, <2>6, <2>7, TypeInParts DEF TypeParts
<1> QED
  BY <1>4, <1>5, <1>6, <1>7 DEF TaskStep

LEMMA InitType == Init => TypeOK /\ OutInv
<1> SUFFICES ASSUME Init PROVE TypeOK /\ OutInv
  OBVIOUS
<1>1. /\ MaxRetries \in Nat /\ MaxDeaths \in Nat /\ MaxTroubles \in Nat /\ MaxAnnotations \in Nat
  BY RetriesAssumption, ReportBoundsAssumption
<1>2. InputType /\ plan \in Seq(PlanLeg)
  BY DEF Init, LegInit, InputType
<1>3. TaskType /\ OutInv
  BY <1>1 DEF Init, LegInit, TaskType, OutInv, Holding, Places
<1>4. BucketType
  BY DEF Init, LegInit, BucketType, Snapshots, NoSnapshot
<1>5. CheckType
  BY <1>1 DEF Init, CheckType, NoCheck, NoLists, NoRows, Statuses
<1>6. PublisherType
  BY BeforeAssumption DEF Init, PublisherType
<1> QED
  BY <1>1, <1>2, <1>3, <1>4, <1>5, <1>6, TypeInParts, NoViewType DEF TypeParts, Init

LEMMA NextType == TypeOK /\ PlanInv /\ StageInv /\ OutInv /\ [Next]_vars => TypeOK' /\ OutInv'
<1> SUFFICES ASSUME TypeOK, PlanInv, StageInv, OutInv, [Next]_vars PROVE TypeOK' /\ OutInv'
  OBVIOUS
<1>0. /\ InputType /\ TaskType /\ BucketType /\ CheckType /\ PublisherType
      /\ view \in [Slots -> Views] /\ faults \in 0 .. MaxTroubles /\ plan \in Seq(PlanLeg)
  BY TypeInParts DEF TypeParts
<1>p. plan' \in Seq(PlanLeg)
  <2>1. at \in [Slots -> Places]
    BY <1>0 DEF TaskType
  <2> QED
    BY <2>1, NextPlan DEF PlanInv
<1>1. CASE OpenGate
  <2>1. /\ UNCHANGED <<stage, accepted, taskVars, bucketVars, check, known, view, comments, report, rows, faults>>
        /\ planned' \in {"yes", "failed"} /\ opener' \in {"create", "idle"}
    BY <1>1 DEF OpenGate, BuildPlan
  <2> QED
    BY <1>0, <1>p, <2>1, TypeInParts
    DEF TypeParts, InputType, TaskType, BucketType, CheckType, PublisherType, OutInv, taskVars, bucketVars
<1>2. CASE CreateCheck
  <2>1. /\ UNCHANGED <<legVars, known, view, comments, report, rows>>
        /\ opener' \in {"comment", "done"} /\ (CallWorks \/ CallFails)
        /\ check' \in {check, ProgressBody([NoView EXCEPT !.rows = Pending])}
    BY <1>2 DEF CreateCheck
  <2>2. [NoView EXCEPT !.rows = Pending] \in Views
    <3>1. Pending \in [Legs -> Statuses]
      BY DEF Pending, Statuses
    <3> QED
      BY <3>1 DEF NoView, Views
  <2>3. CheckType'
    BY <1>0, <2>1, <2>2, ProgressBodyType DEF CheckType
  <2>4. faults' \in 0 .. MaxTroubles
    BY <1>0, <2>1, FaultsType DEF TaskType
  <2>5. PublisherType'
    BY <1>0, <2>1 DEF PublisherType
  <2> QED
    BY <1>0, <1>p, <2>1, <2>3, <2>4, <2>5, TypeInParts
    DEF TypeParts, InputType, TaskType, BucketType, OutInv, legVars, taskVars, bucketVars
<1>3. CASE StartedComment \/ FinalComment
  <2>1. /\ UNCHANGED <<legVars, check, known, view, rows>> /\ opener' \in {opener, "persist"}
        /\ report' \in {report, "done"}
        /\ \E body \in Gate : Upsert(body)
    BY <1>3 DEF StartedComment, FinalComment, Gate, FinalWord
  <2>2. comments' \in Seq(Gate \cup {"other"})
    BY <1>0, <2>1, UpsertType DEF PublisherType
  <2>3. PublisherType'
    BY <1>0, <2>1, <2>2 DEF PublisherType
  <2>4. CallWorks \/ CallFails
    BY <2>1 DEF Upsert
  <2>5. faults' \in 0 .. MaxTroubles
    BY <1>0, <2>4, FaultsType DEF TaskType
  <2> QED
    BY <1>0, <1>p, <2>1, <2>3, <2>5, TypeInParts
    DEF TypeParts, InputType, TaskType, BucketType, CheckType, OutInv, legVars, taskVars, bucketVars
<1>4. CASE PersistStarted
  <2>1. /\ UNCHANGED <<legVars, check, view, comments, report, rows, faults>>
        /\ known' = TRUE /\ opener' = "done"
    BY <1>4 DEF PersistStarted
  <2> QED
    BY <1>0, <1>p, <2>1, TypeInParts
    DEF TypeParts, InputType, TaskType, BucketType, CheckType, PublisherType, OutInv, legVars, taskVars, bucketVars
<1>5. CASE Launch
  <2>1. /\ UNCHANGED <<reportVars, stage, accepted, planned, tries, deaths, out, bucketVars>>
        /\ \E S : at' = [s \in Slots |-> IF s \in S THEN "start" ELSE at[s]]
    <3>1. PICK p \in Profiles : RunJob(p)
      BY <1>5 DEF Launch
    <3>2. at' = [s \in Slots |-> IF s \in {t \in Counted : t[1] = p} THEN "start" ELSE at[s]]
      BY <3>1 DEF RunJob
    <3> QED
      BY <1>5, <3>1, <3>2 DEF Launch, RunJob
  <2>2. TaskType' /\ OutInv'
    BY <1>0, <2>1 DEF TaskType, OutInv, Holding, Places
  <2> QED
    BY <1>0, <1>p, <2>1, <2>2, TypeInParts
    DEF TypeParts, InputType, BucketType, CheckType, PublisherType, reportVars, bucketVars
<1>6. ASSUME NEW s \in Slots, TaskStep(s) PROVE TypeOK' /\ OutInv'
  BY <1>6, TaskStepType
<1>7. CASE LoadSummaries
  <2>1. /\ UNCHANGED <<legVars, check, known, view, comments, opener, faults>>
        /\ report' = "check" /\ rows' = [l \in Legs |-> Loaded(l)]
    BY <1>7 DEF LoadSummaries
  <2>2. rows' \in [Legs -> Results \cup {NoResult}]
    <3>1. ASSUME NEW l \in Legs PROVE Loaded(l) \in Results \cup {NoResult}
      <4>1. FileOf[l] \in Files
        BY DEF Files
      <4>2. Missing \in Results
        BY DEF Missing, Results, Reasons
      <4> QED
        BY <1>0, <4>1, <4>2 DEF Loaded, BucketType
    <3> QED
      BY <2>1, <3>1
  <2> QED
    BY <1>0, <1>p, <2>1, <2>2, TypeInParts
    DEF TypeParts, InputType, TaskType, BucketType, CheckType, PublisherType, OutInv, legVars, taskVars, bucketVars
<1>8. CASE FinalizeCheck
  <2>1. /\ UNCHANGED <<legVars, known, view, comments, opener, rows>> /\ report' = "comment"
        /\ check' \in {check, FinalBody} /\ (CallWorks \/ CallFails)
    BY <1>8 DEF FinalizeCheck
  <2>2. CheckType'
    BY <1>0, <2>1, FinalBodyType DEF CheckType
  <2>3. faults' \in 0 .. MaxTroubles
    BY <1>0, <2>1, FaultsType DEF TaskType
  <2> QED
    BY <1>0, <1>p, <2>1, <2>2, <2>3, TypeInParts
    DEF TypeParts, InputType, TaskType, BucketType, PublisherType, OutInv, legVars, taskVars, bucketVars
<1>9. CASE UNCHANGED vars
  BY <1>0, <1>9, <1>p, TypeInParts
  DEF TypeParts, InputType, TaskType, BucketType, CheckType, PublisherType, OutInv, vars, reportVars,
      legVars, taskVars, bucketVars
<1> QED
  BY <1>1, <1>2, <1>3, <1>4, <1>5, <1>6, <1>7, <1>8, <1>9 DEF Next, Finished

-----------------------------------------------------------------------------
(* What a reader of the other sections may take for granted.               *)

CoreInv == TypeOK /\ PlanInv /\ StageInv /\ OutInv

LEMMA InitCore == Init => CoreInv
BY InitType, InitPlan DEF CoreInv

LEMMA NextCore == CoreInv /\ [Next]_vars => CoreInv'
<1> SUFFICES ASSUME CoreInv, [Next]_vars PROVE CoreInv'
  OBVIOUS
<1>1. at \in [Slots -> Places]
  BY TypeInParts DEF CoreInv, TypeParts, TaskType
<1> QED
  BY <1>1, NextType, NextPlan DEF CoreInv

LEMMA AlwaysCore == Spec => []CoreInv
BY InitCore, NextCore, PTL DEF Spec

\* Every reachable state of plan, tasks, bucket and publisher is well formed.
THEOREM ReportTypeCorrect == Spec => []TypeOK
<1>1. CoreInv => TypeOK
  BY DEF CoreInv
<1> QED
  BY <1>1, AlwaysCore, PTL

\* The frozen plan, the counts of the two jobs and the index of _task_leg fit
\* for any number of manifests: a leg of the plan has one task and no more.
THEOREM EveryLegHasItsTask == Spec => []LegsHaveTasks
<1>1. CoreInv => LegsHaveTasks
  BY OneTaskEach, TypeInParts DEF CoreInv, PlanInv, TypeParts
<1> QED
  BY <1>1, AlwaysCore, PTL

-----------------------------------------------------------------------------
(* What a task leaves in the bucket.  The files are those of its leg alone *)
(* when no two legs have one summary name, which the code does not check:  *)
(* "a-b" with leg "c" and "a" with leg "b-c" share one.                    *)

OwnNames == \A k, l \in Legs : FileOf[k] = FileOf[l] => k = l

\* Where task s is, and which files of leg l are those of its attempt.
LeftBy(s, l) ==
  /\ at[s] \in Holding => out[s].result = LegResult(l, out[s].hooks)
  /\ summary[FileOf[l]] # NoResult => NoResult \notin {snap[l].digest, snap[l].latest, snap[l].verdict}
  /\ at[s] \in {"latest", "verdict", "logs", "summary", "progress"} => snap[l].digest = out[s].result
  /\ at[s] \in {"verdict", "logs", "summary", "progress"} => snap[l].latest = out[s].result
  /\ at[s] \in {"logs", "summary", "progress"} => snap[l].verdict = out[s].result
  /\ at[s] = "progress" => summary[FileOf[l]] = out[s].result
  /\ at[s] \in {"rerender", "repost", "done"} =>
       /\ summary[FileOf[l]] # NoResult
       /\ {snap[l].digest, snap[l].latest, snap[l].verdict} = {summary[FileOf[l]]}

SnapInv == \A s \in Counted : LeftBy(s, TaskLeg(s))

\* A summary is what the hooks of the attempt that wrote it made of the leg,
\* and only legs of the plan have one.
WroteInv ==
  \A l \in Legs :
    /\ l \notin PlanLegs => wrote[l] = NoResult
    /\ wrote[l] = NoResult => summary[FileOf[l]] = NoResult
    /\ wrote[l] # NoResult => summary[FileOf[l]] = LegResult(l, wrote[l])

LEMMA LeftKept ==
  ASSUME NEW s, NEW l, LeftBy(s, l), at'[s] = at[s], out'[s] = out[s], snap'[l] = snap[l],
         summary'[FileOf[l]] = summary[FileOf[l]]
  PROVE  LeftBy(s, l)'
BY DEF LeftBy, LegResult, Evaluated, Scored, Executed, Accepts

\* The writes of a task leave its leg's files in step with where it is.
LEMMA TaskLeaves ==
  ASSUME OwnNames, TypeOK, PlanInv, OutInv, SnapInv, WroteInv,
         NEW s \in Counted, NEW l \in Legs, l = TaskLeg(s), TaskWrites(s)
  PROVE  LeftBy(s, l)' /\ WroteInv'
<1> DEFINE F == FileOf[l]
           r == out[s].result
<1>0. s \in Slots /\ F \in Files /\ LeftBy(s, l)
  BY DEF Files, Counted, SnapInv
<1>t. /\ at \in [Slots -> Places] /\ out \in [Slots -> {NoResult} \cup Outcomes]
      /\ snap \in [Legs -> Snapshots] /\ summary \in [Files -> Results \cup {NoResult}]
      /\ wrote \in [Legs -> Hooks \cup {NoResult}]
  BY TypeInParts DEF TypeParts, TaskType, BucketType
<1>r. at[s] \in Holding => /\ r \in Results /\ r # NoResult /\ out[s].hooks \in Hooks
                           /\ r = LegResult(l, out[s].hooks)
  BY <1>0, NoResultAssumption DEF OutInv, Outcomes, LeftBy
<1>p. PlanLegs' = PlanLegs /\ l \in PlanLegs
  <2>1. UNCHANGED <<plan, planned>>
    BY DEF TaskWrites, TaskStarts, RunLeg, WriteDigest, WriteLatest, WriteVerdict, WriteSnap, CopyLogs,
       WriteSummary, WriteProgress, LegKeeps
  <2> QED
    BY <2>1, PlanKept, TaskLegType
<1>w. ASSUME UNCHANGED <<summary, wrote>> PROVE WroteInv'
  BY <1>p, <1>w DEF WroteInv
<1>1. CASE TaskStarts(s)
  <2>1. at'[s] = "render" /\ UNCHANGED <<out, snap, summary, wrote>>
    BY <1>0, <1>t, <1>1 DEF TaskStarts, Goes
  <2>2. LeftBy(s, l)'
    BY <1>0, <2>1 DEF LeftBy, Holding
  <2> QED
    BY <1>w, <2>1, <2>2
<1>2. CASE RunLeg(s)
  <2>1. at'[s] = "digest" /\ UNCHANGED <<snap, summary, wrote>>
    BY <1>0, <1>t, <1>2 DEF RunLeg, Goes, bucketVars
  <2>2. PICK h \in Hooks : out'[s] = [hooks |-> h, result |-> LegResult(l, h)]
    BY <1>0, <1>t, <1>2 DEF RunLeg
  <2>3. LeftBy(s, l)'
    BY <1>0, <2>1, <2>2 DEF LeftBy, Holding
  <2> QED
    BY <1>w, <2>1, <2>3
<1>3. CASE WriteDigest(s)
  <2>1. at[s] = "digest" /\ at'[s] = "latest" /\ UNCHANGED <<out, summary, wrote>>
    BY <1>0, <1>t, <1>3 DEF WriteDigest, WriteSnap, Goes
  <2>2. snap'[l].digest = r /\ snap'[l].latest = snap[l].latest /\ snap'[l].verdict = snap[l].verdict
    BY <1>0, <1>t, <1>3 DEF WriteDigest, WriteSnap, Snapshots
  <2>3. LeftBy(s, l)'
    BY <1>0, <1>r, <2>1, <2>2 DEF LeftBy, Holding
  <2> QED
    BY <1>w, <2>1, <2>3
<1>4. CASE WriteLatest(s)
  <2>1. at[s] = "latest" /\ at'[s] = "verdict" /\ UNCHANGED <<out, summary, wrote>>
    BY <1>0, <1>t, <1>4 DEF WriteLatest, WriteSnap, Goes
  <2>2. snap'[l].latest = r /\ snap'[l].digest = snap[l].digest /\ snap'[l].verdict = snap[l].verdict
    BY <1>0, <1>t, <1>4 DEF WriteLatest, WriteSnap, Snapshots
  <2>3. LeftBy(s, l)'
    BY <1>0, <1>r, <2>1, <2>2 DEF LeftBy, Holding
  <2> QED
    BY <1>w, <2>1, <2>3
<1>5. CASE WriteVerdict(s)
  <2>1. at[s] = "verdict" /\ at'[s] = "logs" /\ UNCHANGED <<out, summary, wrote>>
    BY <1>0, <1>t, <1>5 DEF WriteVerdict, WriteSnap, Goes
  <2>2. snap'[l].verdict = r /\ snap'[l].digest = snap[l].digest /\ snap'[l].latest = snap[l].latest
    BY <1>0, <1>t, <1>5 DEF WriteVerdict, WriteSnap, Snapshots
  <2>3. LeftBy(s, l)'
    BY <1>0, <1>r, <2>1, <2>2 DEF LeftBy, Holding
  <2> QED
    BY <1>w, <2>1, <2>3
<1>6. CASE CopyLogs(s)
  <2>1. at[s] = "logs" /\ at'[s] = "summary" /\ UNCHANGED <<out, summary, wrote>>
    BY <1>0, <1>t, <1>6 DEF CopyLogs, Goes
  <2>2. snap'[l].verdict = snap[l].verdict /\ snap'[l].digest = snap[l].digest /\ snap'[l].latest = snap[l].latest
    BY <1>0, <1>t, <1>6 DEF CopyLogs, Snapshots
  <2>3. LeftBy(s, l)'
    BY <1>0, <1>r, <2>1, <2>2 DEF LeftBy, Holding
  <2> QED
    BY <1>w, <2>1, <2>3
<1>7. CASE WriteSummary(s)
  <2>1. at[s] = "summary" /\ at'[s] = "progress" /\ UNCHANGED <<out, snap>>
    BY <1>0, <1>t, <1>7 DEF WriteSummary, Goes
  <2>2. /\ summary'[F] = r /\ wrote'[l] = out[s].hooks
        /\ \A k \in Legs : k # l => wrote'[k] = wrote[k] /\ summary'[FileOf[k]] = summary[FileOf[k]]
    <3>1. \A k \in Legs : FileOf[k] \in Files /\ (k # l => FileOf[k] # F)
      BY <1>0 DEF OwnNames, Files
    <3>2. summary' = [summary EXCEPT ![F] = r] /\ wrote' = [wrote EXCEPT ![l] = out[s].hooks]
      BY <1>7 DEF WriteSummary
    <3> QED
      BY <1>0, <1>t, <3>1, <3>2
  <2>3. r \in Results /\ r # NoResult /\ out[s].hooks \in Hooks /\ r = LegResult(l, out[s].hooks)
    BY <1>r, <2>1 DEF Holding
  <2>4. LeftBy(s, l)'
    BY <1>0, <2>1, <2>2, <2>3 DEF LeftBy, Holding
  <2>5. WroteInv'
    BY <1>p, <2>2, <2>3, NoResultAssumption DEF WroteInv
  <2> QED
    BY <2>4, <2>5
<1>8. CASE WriteProgress(s)
  <2>1. at[s] = "progress" /\ at'[s] = "rerender" /\ UNCHANGED <<summary, snap, wrote>>
    BY <1>0, <1>t, <1>8 DEF WriteProgress, Goes
  <2>2. r # NoResult
    BY <1>r, <2>1 DEF Holding
  <2>3. LeftBy(s, l)'
    BY <1>0, <2>1, <2>2 DEF LeftBy, Holding
  <2> QED
    BY <1>w, <2>1, <2>3
<1> QED
  BY <1>1, <1>2, <1>3, <1>4, <1>5, <1>6, <1>7, <1>8 DEF TaskWrites

\* The files of other legs stay as they are.
LEMMA OthersKept ==
  ASSUME OwnNames, TypeOK, PlanInv, NEW s \in Counted, TaskWrites(s), NEW k \in Legs, k # TaskLeg(s)
  PROVE  snap'[k] = snap[k] /\ summary'[FileOf[k]] = summary[FileOf[k]]
<1>1. TaskLeg(s) \in Legs /\ FileOf[TaskLeg(s)] \in Files /\ FileOf[k] \in Files /\ FileOf[k] # FileOf[TaskLeg(s)]
  BY TaskLegType DEF OwnNames, Files
<1>2. snap \in [Legs -> Snapshots] /\ summary \in [Files -> Results \cup {NoResult}]
  BY TypeInParts DEF TypeParts, BucketType
<1>3. snap' = snap \/ \E x : snap' = [snap EXCEPT ![TaskLeg(s)] = x]
  BY DEF TaskWrites, TaskStarts, RunLeg, WriteDigest, WriteLatest, WriteVerdict, WriteSnap, CopyLogs,
     WriteSummary, WriteProgress, bucketVars
<1>4. summary' = summary \/ \E x : summary' = [summary EXCEPT ![FileOf[TaskLeg(s)]] = x]
  BY DEF TaskWrites, TaskStarts, RunLeg, WriteDigest, WriteLatest, WriteVerdict, WriteSnap, CopyLogs,
     WriteSummary, WriteProgress, bucketVars
<1> QED
  BY <1>1, <1>2, <1>3, <1>4

LEMMA TaskWritesStep ==
  ASSUME OwnNames, CoreInv, SnapInv, WroteInv, NEW s \in Counted, TaskWrites(s)
  PROVE  SnapInv' /\ WroteInv'
<1>0. TypeOK /\ PlanInv /\ OutInv /\ at \in [Slots -> Places] /\ out \in [Slots -> {NoResult} \cup Outcomes]
  BY TypeInParts DEF CoreInv, TypeParts, TaskType
<1>1. TaskLeg(s) \in Legs /\ LeftBy(s, TaskLeg(s))' /\ WroteInv'
  <2>1. PICK l \in Legs : l = TaskLeg(s)
    BY <1>0, TaskLegType
  <2>2. UNCHANGED <<plan, planned>>
    BY DEF TaskWrites, TaskStarts, RunLeg, WriteDigest, WriteLatest, WriteVerdict, WriteSnap, CopyLogs,
       WriteSummary, WriteProgress, LegKeeps
  <2>3. LeftBy(s, l)' /\ WroteInv'
    BY <1>0, <2>1, TaskLeaves
  <2> QED
    BY <2>1, <2>2, <2>3, PlanKept
<1>2. /\ \A t \in Slots \ {s} : at'[t] = at[t] /\ out'[t] = out[t]
      /\ UNCHANGED <<plan, planned>>
  <2>1. out' = out \/ \E x : out' = [out EXCEPT ![s] = x]
    BY DEF TaskWrites, TaskStarts, RunLeg, WriteDigest, WriteLatest, WriteVerdict, WriteSnap, CopyLogs,
       WriteSummary, WriteProgress
  <2>2. \E to : at' = [at EXCEPT ![s] = to]
    BY DEF TaskWrites, TaskStarts, RunLeg, WriteDigest, WriteLatest, WriteVerdict, WriteSnap, CopyLogs,
       WriteSummary, WriteProgress, Goes
  <2>3. UNCHANGED <<plan, planned>>
    BY DEF TaskWrites, TaskStarts, RunLeg, WriteDigest, WriteLatest, WriteVerdict, WriteSnap, CopyLogs,
       WriteSummary, WriteProgress, LegKeeps
  <2> QED
    BY <1>0, <2>1, <2>2, <2>3
<1>3. ASSUME NEW t \in Counted, t # s PROVE LeftBy(t, TaskLeg(t))'
  <2>1. PICK k \in Legs : k = TaskLeg(t)
    BY <1>0, TaskLegType
  <2>2. k # TaskLeg(s)
    BY <1>0, <1>3, <2>1, TasksDiffer
  <2>3. snap'[k] = snap[k] /\ summary'[FileOf[k]] = summary[FileOf[k]]
    BY <1>0, <2>2, OthersKept
  <2>4. at'[t] = at[t] /\ out'[t] = out[t] /\ LeftBy(t, k)
    BY <1>2, <1>3, <2>1 DEF Counted, SnapInv
  <2>5. LeftBy(t, k)'
    BY <2>3, <2>4, LeftKept
  <2> QED
    BY <1>2, <2>1, <2>5, PlanKept
<1> QED
  BY <1>1, <1>2, <1>3, PlanKept DEF SnapInv

\* A step that leaves the files alone.
LEMMA FilesKept ==
  ASSUME CoreInv, SnapInv, WroteInv, UNCHANGED <<plan, planned, snap, summary, wrote>>,
         \A t \in Counted :
           \/ at'[t] \in {"start", "dead", "post", "run"}
           \/ at'[t] = at[t] /\ out'[t] = out[t]
           \/ at[t] \in {"rerender", "repost"} /\ at'[t] \in {"repost", "done"}
  PROVE  SnapInv' /\ WroteInv'
<1>1. ASSUME NEW t \in Counted PROVE LeftBy(t, TaskLeg(t))'
  <2>1. PICK k \in Legs : k = TaskLeg(t)
    BY TaskLegType DEF CoreInv
  <2>2. LeftBy(t, k)
    BY <2>1 DEF SnapInv
  <2> SUFFICES LeftBy(t, k)'
    BY <2>1, PlanKept
  <2>3. CASE at'[t] \in {"start", "dead", "post", "run"}
    BY <2>2, <2>3 DEF LeftBy, Holding
  <2>4. CASE at'[t] = at[t] /\ out'[t] = out[t]
    BY <2>2, <2>4, LeftKept
  <2>5. CASE at[t] \in {"rerender", "repost"} /\ at'[t] \in {"repost", "done"}
    BY <2>2, <2>5 DEF LeftBy, Holding
  <2> QED
    BY <2>3, <2>4, <2>5
<1> QED
  BY <1>1, PlanKept DEF SnapInv, WroteInv

LEMMA InitSnap == Init => SnapInv /\ WroteInv
<1> SUFFICES ASSUME Init PROVE SnapInv /\ WroteInv
  OBVIOUS
<1>1. \A l \in Legs : FileOf[l] \in Files
  BY DEF Files
<1>2. Counted = {}
  BY InitPlan, NoPlanNoTasks DEF Init, LegInit
<1> QED
  BY <1>1, <1>2 DEF Init, LegInit, SnapInv, WroteInv

LEMMA NextSnap ==
  ASSUME OwnNames, CoreInv, SnapInv, WroteInv, [Next]_vars
  PROVE  SnapInv' /\ WroteInv'
<1>0. PlanInv /\ StageInv /\ at \in [Slots -> Places] /\ out \in [Slots -> {NoResult} \cup Outcomes]
  BY TypeInParts DEF CoreInv, TypeParts, TaskType
<1>1. CASE OpenGate
  <2>1. UNCHANGED <<at, out, snap, summary, wrote>> /\ planned = "no"
    BY <1>1 DEF OpenGate, BuildPlan, taskVars, bucketVars
  <2>2. Counted = {} /\ PlanLegs = {}
    BY <1>0, <2>1, NoPlanNoTasks DEF PlanInv, PlanLegs
  <2>3. \A l \in Legs : wrote[l] = NoResult /\ summary[FileOf[l]] = NoResult
    BY <2>2 DEF WroteInv
  <2>4. \A s \in Slots : at[s] = "none"
    BY <1>0, <2>2 DEF StageInv
  <2>5. PlanInv'
    BY <1>0, <1>1, BuildPlanKeeps DEF OpenGate
  <2>6. (\A s \in Counted : TaskLeg(s) \in Legs)'
    BY <2>5, TasksHaveLegs
  <2>7. WroteInv'
    BY <2>1, <2>3 DEF WroteInv
  <2>8. SnapInv'
    BY <2>1, <2>3, <2>4, <2>6 DEF SnapInv, LeftBy, Holding, Counted
  <2> QED
    BY <2>7, <2>8
<1>2. CASE CreateCheck \/ StartedComment \/ PersistStarted \/ LoadSummaries \/ FinalizeCheck \/ FinalComment
           \/ UNCHANGED vars
  <2>1. UNCHANGED <<plan, planned, at, out, snap, summary, wrote>>
    BY <1>2 DEF CreateCheck, StartedComment, PersistStarted, LoadSummaries, FinalizeCheck, FinalComment, vars,
       legVars, taskVars, bucketVars
  <2> QED
    BY <2>1, FilesKept
<1>3. CASE Launch
  <2>1. PICK p \in Profiles : RunJob(p)
    BY <1>3 DEF Launch
  <2>2. /\ at' = [s \in Slots |-> IF s \in Counted /\ s[1] = p THEN "start" ELSE at[s]]
        /\ UNCHANGED <<plan, planned, out, snap, summary, wrote>>
    BY <2>1 DEF RunJob, bucketVars
  <2>3. \A t \in Counted : at'[t] = "start" \/ at'[t] = at[t]
    BY <2>2 DEF Counted
  <2> QED
    BY <2>2, <2>3, FilesKept
<1>4. ASSUME NEW s \in Slots, TaskStep(s) PROVE SnapInv' /\ WroteInv'
  <2>0. s \in Counted
    BY <1>0, <1>4, TaskStepMoves DEF StageInv, Moves
  <2>1. CASE TaskWrites(s)
    BY <2>0, <2>1, TaskWritesStep
  <2>2. CASE TaskDies(s)
    <3>1. PICK to \in {"start", "dead"} : at' = [at EXCEPT ![s] = to]
      BY <2>2 DEF TaskDies
    <3>2. out' = [out EXCEPT ![s] = NoResult] /\ UNCHANGED <<plan, planned, snap, summary, wrote>>
      BY <2>2 DEF TaskDies, bucketVars
    <3>3. \A t \in Counted : at'[t] \in {"start", "dead"} \/ (at'[t] = at[t] /\ out'[t] = out[t])
      BY <1>0, <3>1, <3>2 DEF Counted
    <3> QED
      BY <3>2, <3>3, FilesKept
  <2>3. CASE RenderProgress(s) \/ PostProgress(s)
    <3>1. UNCHANGED <<plan, planned, out, snap, summary, wrote>>
      BY <2>3 DEF RenderProgress, PostProgress, LegKeeps, bucketVars
    <3>2. \E to : /\ at' = [at EXCEPT ![s] = to]
                  /\ to \in {"post", "run"} \/ (at[s] \in {"rerender", "repost"} /\ to \in {"repost", "done"})
      BY <2>3 DEF RenderProgress, PostProgress, Goes
    <3>3. \A t \in Counted : \/ at'[t] \in {"post", "run"}
                             \/ at'[t] = at[t] /\ out'[t] = out[t]
                             \/ at[t] \in {"rerender", "repost"} /\ at'[t] \in {"repost", "done"}
      BY <1>0, <3>1, <3>2 DEF Counted
    <3> QED
      BY <3>1, <3>3, FilesKept
  <2> QED
    BY <1>4, <2>1, <2>2, <2>3 DEF TaskStep
<1> QED
  BY <1>1, <1>2, <1>3, <1>4 DEF Next, Finished

LEMMA AlwaysSnap ==
  ASSUME OwnNames
  PROVE  Spec => [](CoreInv /\ SnapInv /\ WroteInv)
<1>1. Init => CoreInv /\ SnapInv /\ WroteInv
  BY InitCore, InitSnap
<1>2. CoreInv /\ SnapInv /\ WroteInv /\ [Next]_vars => CoreInv' /\ SnapInv' /\ WroteInv'
  BY OwnNames, NextCore, NextSnap
<1> QED
  BY <1>1, <1>2, PTL DEF Spec

\* After any number of deaths and retries a summary has its whole snapshot
\* beside it, and at the end of the task they say the same, if no two legs
\* have one summary name (entrypoint.py:199).  GateReport_collision shows
\* what becomes of the report when two have.
THEOREM SummaryPromisesSnapshot ==
  ASSUME OwnNames
  PROVE  Spec => []SnapshotMatchesSummary
<1>1. SnapInv => SnapshotMatchesSummary
  BY DEF SnapInv, LeftBy, SnapshotMatchesSummary
<1> QED
  BY <1>1, AlwaysSnap, PTL

-----------------------------------------------------------------------------
(* The publisher: it comes after every task, so what it loaded is what the *)
(* bucket holds from then on, and its check is the last word.              *)

PublishInv ==
  /\ report \in {"idle", "check"} => ~Concluded
  /\ report # "idle" => \A l \in Legs : rows[l] = Loaded(l)
  /\ Concluded => check = FinalBody

LEMMA BodiesOpen ==
  ASSUME NEW v, check' = ProgressBody(v)
  PROVE  ~Concluded'
BY DEF ProgressBody, Concluded, Conclusions

\* Nothing the publisher reads has changed.
LEMMA PublishKept ==
  ASSUME PublishInv, UNCHANGED <<report, rows, check, plan, summary, snap>>
  PROVE  PublishInv'
<1>1. \A l \in Legs : Loaded(l)' = Loaded(l)
  BY DEF Loaded, PlanLegs, Missing
<1>2. FinalBody' = FinalBody
  BY DEF FinalBody, FinalTable, FinalRow, FinalScores, FileScores, HasCases, Aggregate, Reported, Failing, Warned,
     Annotations, Dumped
<1> QED
  BY <1>1, <1>2 DEF PublishInv, Concluded

\* Before the publisher starts the check is open, whatever is posted to it.
LEMMA PublishOpen ==
  ASSUME PublishInv, report = "idle", report' = "idle",
         check' = check \/ \E v : check' = ProgressBody(v)
  PROVE  PublishInv'
<1>1. ~Concluded'
  BY BodiesOpen DEF PublishInv, Concluded
<1> QED
  BY <1>1 DEF PublishInv

LEMMA InitPublish == Init => PublishInv
BY DEF Init, PublishInv, Concluded, Conclusions, NoCheck

LEMMA NextPublish ==
  ASSUME CoreInv, PublishInv, [Next]_vars
  PROVE  PublishInv'
<1>0. PlanInv /\ StageInv
  BY DEF CoreInv
<1>1. CASE OpenGate
  <2>1. planned = "no" /\ UNCHANGED <<check, report>>
    BY <1>1 DEF OpenGate, BuildPlan
  <2>2. report = "idle"
    BY <1>0, <2>1, NoPlanNoTasks DEF StageInv
  <2> QED
    BY <2>1, <2>2, PublishOpen
<1>2. CASE CreateCheck
  <2>1. report = "idle" /\ UNCHANGED report
    BY <1>0, <1>2 DEF CreateCheck, StageInv
  <2>2. check' = check \/ \E v : check' = ProgressBody(v)
    BY <1>2 DEF CreateCheck
  <2> QED
    BY <2>1, <2>2, PublishOpen
<1>3. CASE StartedComment \/ PersistStarted \/ UNCHANGED vars
  <2>1. UNCHANGED <<report, rows, check, plan, summary, snap>>
    BY <1>3 DEF StartedComment, PersistStarted, vars, reportVars, legVars, bucketVars
  <2> QED
    BY <2>1, PublishKept
<1>4. CASE Launch
  <2>1. UNCHANGED <<report, rows, check, plan, summary, snap>>
    BY <1>4 DEF Launch, RunJob, reportVars, bucketVars
  <2> QED
    BY <2>1, PublishKept
<1>5. ASSUME NEW s \in Slots, TaskStep(s) PROVE PublishInv'
  <2>1. Moves(s) /\ at[s] \notin {"done", "dead"} /\ UNCHANGED report
    BY <1>5, TaskStepMoves
  <2>2. report = "idle"
    BY <1>0, <2>1 DEF StageInv, Moves
  <2>3. check' = check \/ \E v : check' = ProgressBody(v)
    BY <1>5 DEF TaskStep, RenderProgress, PostProgress, reportVars
  <2> QED
    BY <2>1, <2>2, <2>3, PublishOpen
<1>6. CASE LoadSummaries
  <2>1. report = "idle" /\ report' = "check" /\ UNCHANGED <<plan, summary, check>>
    BY <1>6 DEF LoadSummaries, legVars, bucketVars
  <2>2. \A l \in Legs : rows'[l] = Loaded(l)'
    <3>1. \A l \in Legs : rows'[l] = Loaded(l)
      BY <1>6 DEF LoadSummaries
    <3> QED
      BY <2>1, <3>1 DEF Loaded, PlanLegs, Missing
  <2>3. ~Concluded'
    BY <2>1 DEF PublishInv, Concluded
  <2> QED
    BY <2>1, <2>2, <2>3 DEF PublishInv
<1>7. CASE FinalizeCheck
  <2>1. report = "check" /\ report' = "comment" /\ UNCHANGED <<plan, summary, snap, rows>>
    BY <1>7 DEF FinalizeCheck, legVars, bucketVars
  <2>2. check' = FinalBody \/ check' = check
    BY <1>7 DEF FinalizeCheck
  <2>3. FinalBody' = FinalBody
    BY <2>1 DEF FinalBody, FinalTable, FinalRow, FinalScores, FileScores, HasCases, Aggregate, Reported, Failing,
       Warned, Annotations, Dumped
  <2>4. \A l \in Legs : rows'[l] = Loaded(l)'
    BY <2>1 DEF PublishInv, Loaded, PlanLegs, Missing
  <2>5. Concluded' => check' = FinalBody'
    BY <2>1, <2>2, <2>3 DEF PublishInv, Concluded
  <2> QED
    BY <2>1, <2>4, <2>5 DEF PublishInv
<1>8. CASE FinalComment
  <2>1. report = "comment" /\ report' = "done" /\ UNCHANGED <<plan, summary, snap, rows, check>>
    BY <1>8 DEF FinalComment, legVars, bucketVars
  <2>2. FinalBody' = FinalBody
    BY <2>1 DEF FinalBody, FinalTable, FinalRow, FinalScores, FileScores, HasCases, Aggregate, Reported, Failing,
       Warned, Annotations, Dumped
  <2>3. \A l \in Legs : rows'[l] = Loaded(l)'
    BY <2>1 DEF PublishInv, Loaded, PlanLegs, Missing
  <2> QED
    BY <2>1, <2>2, <2>3 DEF PublishInv, Concluded
<1> QED
  BY <1>1, <1>2, <1>3, <1>4, <1>5, <1>6, <1>7, <1>8 DEF Next, Finished

LEMMA AlwaysPublished ==
  ASSUME OwnNames
  PROVE  Spec => [](CoreInv /\ SnapInv /\ WroteInv /\ PublishInv)
<1>1. Init => CoreInv /\ SnapInv /\ WroteInv /\ PublishInv
  BY InitCore, InitSnap, InitPublish
<1>2. /\ CoreInv /\ SnapInv /\ WroteInv /\ PublishInv /\ [Next]_vars
      => CoreInv' /\ SnapInv' /\ WroteInv' /\ PublishInv'
  BY OwnNames, NextCore, NextSnap, NextPublish
<1> QED
  BY <1>1, <1>2, PTL DEF Spec

\* A leg passes exactly when its hooks deserve it.
LEMMA PassesIffDeserved ==
  ASSUME NEW l \in Legs, WroteInv, CoreInv, l \in PlanLegs, NEW r, r = Loaded(l)
  PROVE  /\ r \in Results /\ r # NoResult
         /\ r.status = Deserved(l)
         /\ Deserved(l) = "pass" => r.failed = wrote[l].failed
         /\ HasCases(r) <=> wrote[l] # NoResult /\ wrote[l].raises \in {"no", "execute"}
<1>1. Missing \in Results /\ Missing.status = "fail" /\ ~HasCases(Missing)
  BY DEF Missing, Results, Reasons, HasCases
<1>2. CASE wrote[l] = NoResult
  <2>1. r = Missing /\ Deserved(l) = "fail"
    BY <1>2 DEF WroteInv, Loaded, Deserved
  <2> QED
    BY <1>1, <1>2, <2>1, NoResultAssumption
<1>3. CASE wrote[l] # NoResult
  <2> DEFINE h == wrote[l]
  <2>1. h \in Hooks
    BY <1>3, TypeInParts DEF CoreInv, TypeParts, BucketType
  <2>2. LegResult(l, h) \in Results /\ summary[FileOf[l]] = LegResult(l, h)
    BY <1>3, <2>1, LegResultType DEF WroteInv
  <2>3. r = LegResult(l, h)
    BY <2>2, NoResultAssumption DEF Loaded
  <2>4. h.failed \in {0, 1}
    BY <2>1 DEF Hooks
  <2>5. CASE h.raises = "no"
    <3>1. r = Evaluated(l, [failed |-> h.failed, flag |-> FALSE])
      BY <2>3, <2>5 DEF LegResult, Scored, Executed
    <3>2. r.status = (IF h.failed = 0 \/ Tolerant[l] THEN "pass" ELSE "fail") /\ r.failed = h.failed /\ HasCases(r)
      BY <3>1 DEF Evaluated, Accepts, HasCases
    <3> QED
      BY <1>3, <2>2, <2>3, <2>5, <3>2, NoResultAssumption DEF Deserved
  <2>6. CASE h.raises = "execute"
    <3>1. r = Evaluated(l, [failed |-> 1, flag |-> TRUE])
      BY <2>3, <2>6 DEF LegResult, Scored, Executed
    <3>2. r.status = "fail" /\ HasCases(r)
      BY <3>1 DEF Evaluated, HasCases
    <3> QED
      BY <1>3, <2>2, <2>3, <2>6, <3>2, NoResultAssumption DEF Deserved
  <2>7. CASE h.raises \notin {"no", "execute"}
    <3>1. r.status = "fail" /\ ~HasCases(r)
      BY <2>3, <2>7 DEF LegResult, ExecuteFailure, HasCases
    <3> QED
      BY <1>3, <2>2, <2>3, <2>7, <3>1, NoResultAssumption DEF Deserved
  <2> QED
    BY <2>5, <2>6, <2>7
<1> QED
  BY <1>2, <1>3

LEMMA TruthFollows ==
  ASSUME CoreInv, WroteInv, PublishInv
  PROVE  ReportIsTruthful
<1> SUFFICES ASSUME Concluded PROVE ReportIsTruthful
  BY DEF ReportIsTruthful
<1>0. PlanInv /\ PublisherType
  BY TypeInParts DEF CoreInv, TypeParts
<1>1. PlanLegs \in SUBSET Legs
  BY <1>0, PlanType DEF PlanLegs
<1>2. check = FinalBody /\ report # "idle"
  BY DEF PublishInv
<1>3. \A l \in Legs : rows[l] = Loaded(l)
  BY <1>2 DEF PublishInv
<1>4. \A l \in PlanLegs : /\ rows[l] \in Results /\ rows[l] # NoResult
                          /\ rows[l].status = Deserved(l)
                          /\ Deserved(l) = "pass" => rows[l].failed = wrote[l].failed
                          /\ HasCases(rows[l]) <=> wrote[l] # NoResult /\ wrote[l].raises \in {"no", "execute"}
  BY <1>1, <1>3, PassesIffDeserved
<1>5. \A l \in Legs \ PlanLegs : rows[l] = NoResult
  BY <1>3 DEF Loaded
<1>6. Reported = PlanLegs
  BY <1>1, <1>4, <1>5 DEF Reported
<1>7. check.state = "success" <=> PlanLegs # {} /\ \A l \in PlanLegs : Deserved(l) = "pass"
  <2>1. Failing = {} <=> \A l \in PlanLegs : Deserved(l) = "pass"
    BY <1>4, <1>6 DEF Failing
  <2>2. check.state = Aggregate
    BY <1>2 DEF FinalBody
  <2> QED
    BY <1>6, <2>1, <2>2 DEF Aggregate
<1>8. ASSUME NEW l \in PlanLegs
      PROVE  /\ check.rows[l] = Deserved(l)
             /\ l \in check.lists.named <=> Deserved(l) = "fail"
             /\ Deserved(l) = "pass" /\ wrote[l].failed > 0 => l \in check.lists.warned
             /\ l \in check.scores <=> wrote[l] # NoResult /\ wrote[l].raises \in {"no", "execute"}
  <2>1. /\ check.rows = FinalTable /\ check.scores = FinalScores
        /\ check.lists.named = Failing /\ check.lists.warned = Warned
    BY <1>2 DEF FinalBody
  <2>2. FinalTable[l] = rows[l].status
    BY <1>1, <1>6, <1>8 DEF FinalTable, FinalRow
  <2>3. Deserved(l) \in {"pass", "fail"}
    BY DEF Deserved
  <2>4. l \in Failing <=> Deserved(l) = "fail"
    BY <1>4, <1>6, <1>8, <2>3 DEF Failing
  <2>5. Deserved(l) = "pass" /\ wrote[l].failed > 0 => l \in Warned
    BY <1>4, <1>6, <1>8, <2>4 DEF Warned
  <2>6. l \in FinalScores <=> HasCases(rows[l])
    BY <1>1, <1>4, <1>8 DEF FinalScores, FileScores
  <2> QED
    BY <1>4, <1>8, <2>1, <2>2, <2>4, <2>5, <2>6
<1> QED
  BY <1>7, <1>8 DEF ReportIsTruthful

\* Green if and only if every leg of the plan deserves it, and for each leg
\* what the check lists of it: for any number of legs, any plugins, any deaths
\* and any order of the tasks (github_reporting.py:375, presentation.py:862).
THEOREM TheCheckIsTruthful ==
  ASSUME OwnNames
  PROVE  Spec => []ReportIsTruthful
<1>1. CoreInv /\ WroteInv /\ PublishInv => ReportIsTruthful
  BY TruthFollows
<1> QED
  BY <1>1, AlwaysPublished, PTL

\* So the architecture's promise, which a run with one file for two legs
\* breaks, holds when their names differ (docs/architecture.md:320).
THEOREM GreenMeansAllPassed ==
  ASSUME OwnNames
  PROVE  Spec => []GreenHidesNoLeg
<1>1. CoreInv => (check.state = "success" => Concluded)
  BY DEF Concluded, Conclusions
<1>2. ReportIsTruthful /\ (check.state = "success" => Concluded) => GreenHidesNoLeg
  BY DEF ReportIsTruthful, GreenHidesNoLeg
<1>3. CoreInv /\ WroteInv /\ PublishInv => GreenHidesNoLeg
  BY <1>1, <1>2, TruthFollows
<1> QED
  BY <1>3, AlwaysPublished, PTL

-----------------------------------------------------------------------------
(* The comment of the gate.  The search looks at the first ScanLimit       *)
(* comments only, and is right if a comment of the gate within its reach   *)
(* is the last one of the gate: a pull request without any is so, and an   *)
(* upsert whose calls work keeps it so.                                    *)

GateIn(c) == {i \in DOMAIN c : c[i] \in Gate}
Tidy(c) == \A i, j \in GateIn(c) : i <= ScanLimit => j <= i

\* The newest comment of the gate says word.
NewestSays(c, word) == \E i \in GateIn(c) : c[i] = word /\ \A j \in GateIn(c) : j <= i

CommentInv ==
  /\ faults = 0 => Tidy(comments)
  /\ report \in {"comment", "done"} /\ faults = 0 => check = FinalBody
  /\ report = "done" /\ faults = 0 => NewestSays(comments, FinalWord)

LEMMA UpsertTidy ==
  ASSUME comments \in Seq(Gate \cup {"other"}), Tidy(comments), NEW body \in Gate, Upsert(body), CallWorks,
         faults' # faults + 1
  PROVE  Tidy(comments') /\ NewestSays(comments', body)
<1>1. IF Found = {} THEN Create(body) ELSE Edit(body)
  BY DEF Upsert, CallFails
<1>2. ScanLimit \in Nat /\ Len(comments) \in Nat /\ DOMAIN comments = 1 .. Len(comments)
  BY ReportBoundsAssumption
<1>3. Marked = GateIn(comments) /\ Marked \in SUBSET Nat /\ \A i \in Marked : i <= Len(comments)
  BY <1>2 DEF Marked, GateIn
<1>4. CASE Found = {}
  <2> DEFINE n == Len(comments) + 1
  <2>1. \A i \in Marked : ~(i <= ScanLimit)
    <3> SUFFICES ASSUME NEW i \in Marked, i <= ScanLimit PROVE FALSE
      OBVIOUS
    <3>1. ASSUME NEW j \in Marked PROVE i <= j
      <4>1. i \in Nat /\ j \in Nat /\ ScanLimit \in Nat
        BY <1>2, <1>3
      <4>2. CASE j <= ScanLimit
        BY <1>3, <4>2 DEF Tidy
      <4>3. CASE ~(j <= ScanLimit)
        BY <4>1, <4>3
      <4> QED
        BY <4>2, <4>3
    <3>2. i \in Found
      BY <3>1 DEF Found
    <3> QED
      BY <1>4, <3>2
  <2>2. comments' = Append(comments, body)
    BY <1>1, <1>4 DEF Create
  <2>3. /\ DOMAIN comments' = 1 .. n /\ comments'[n] = body
        /\ \A i \in 1 .. Len(comments) : comments'[i] = comments[i]
    BY <1>2, <2>2
  <2>4. n \in Nat /\ \A i \in 1 .. n : i = n \/ i \in 1 .. Len(comments)
    BY <1>2
  <2>5. GateIn(comments') = Marked \cup {n}
    BY <1>2, <1>3, <2>3, <2>4 DEF GateIn
  <2>6. \A i \in GateIn(comments') : i <= n
    BY <1>2, <1>3, <2>5
  <2>7. \A i \in GateIn(comments') : i <= ScanLimit => i = n
    BY <2>1, <2>5
  <2>8. n \in GateIn(comments') /\ comments'[n] = body
    BY <2>3, <2>5
  <2> HIDE DEF n
  <2>9. NewestSays(comments', body)
    BY <2>6, <2>8 DEF NewestSays
  <2>10. Tidy(comments')
    BY <2>6, <2>7 DEF Tidy
  <2> QED
    BY <2>9, <2>10
<1>5. CASE Found # {}
  <2>1. PICK i \in Found : comments' = [comments EXCEPT ![i] = body]
    BY <1>1, <1>5 DEF Edit
  <2>2. i \in Marked /\ i <= ScanLimit /\ i \in DOMAIN comments
    BY DEF Found, Marked
  <2>3. DOMAIN comments' = DOMAIN comments /\ comments'[i] = body
        /\ \A j \in DOMAIN comments : j # i => comments'[j] = comments[j]
    BY <2>1, <2>2
  <2>4. GateIn(comments') = GateIn(comments)
    BY <1>3, <2>2, <2>3 DEF GateIn
  <2>5. \A j \in GateIn(comments') : j <= i
    BY <1>3, <2>2, <2>4 DEF Tidy
  <2> QED
    BY <1>3, <2>2, <2>3, <2>4, <2>5 DEF Tidy, NewestSays
<1> QED
  BY <1>4, <1>5

LEMMA InitComment ==
  ASSUME \A c \in Before : Tidy(c), Init
  PROVE  CommentInv
BY DEF Init, CommentInv

\* What the publisher says depends on the summaries it loaded alone.
LEMMA FinalWordKept ==
  ASSUME UNCHANGED <<rows, snap>>
  PROVE  FinalBody' = FinalBody /\ FinalWord' = FinalWord
BY DEF FinalBody, FinalTable, FinalRow, FinalScores, FileScores, HasCases, Aggregate, Reported, Failing, Warned,
   Annotations, Dumped, FinalWord

LEMMA NextComment ==
  ASSUME CoreInv, CommentInv, [Next]_vars
  PROVE  CommentInv'
<1>0. PlanInv /\ StageInv /\ faults \in Nat /\ comments \in Seq(Gate \cup {"other"})
  <2>1. MaxTroubles \in Nat
    BY ReportBoundsAssumption
  <2> QED
    BY <2>1, TypeInParts DEF CoreInv, TypeParts, PublisherType
<1>c. CallWorks \/ CallFails => (faults' = 0 => faults = 0 /\ ~CallFails)
  BY <1>0 DEF CallWorks, CallFails
\* Before the publisher starts.
<1>a. ASSUME report' \in {"idle", "check"}, UNCHANGED comments, faults' = 0 => faults = 0 PROVE CommentInv'
  BY <1>a DEF CommentInv
<1>b. ASSUME UNCHANGED <<report, comments, check, rows, snap, faults>> PROVE CommentInv'
  BY <1>b, FinalWordKept DEF CommentInv
<1>1. CASE OpenGate \/ PersistStarted \/ Launch \/ UNCHANGED vars
  <2>1. UNCHANGED <<report, comments, check, rows, snap, faults>>
    BY <1>1 DEF OpenGate, BuildPlan, PersistStarted, Launch, RunJob, vars, reportVars, legVars, bucketVars
  <2> QED
    BY <1>b, <2>1
<1>2. CASE CreateCheck
  <2>1. report = "idle" /\ UNCHANGED <<report, comments>> /\ (CallWorks \/ CallFails)
    BY <1>0, <1>2 DEF CreateCheck, StageInv
  <2> QED
    BY <1>a, <1>c, <2>1
<1>3. CASE StartedComment
  <2>1. report = "idle" /\ report' = "idle" /\ Upsert("started")
    BY <1>0, <1>3 DEF StartedComment, StageInv
  <2>2. CallWorks \/ CallFails
    BY <2>1 DEF Upsert
  <2>3. faults' = 0 => Tidy(comments')
    BY <1>0, <1>c, <2>1, <2>2, UpsertTidy DEF CommentInv, CallWorks, CallFails, Gate
  <2> QED
    BY <2>1, <2>3 DEF CommentInv
<1>4. ASSUME NEW s \in Slots, TaskStep(s) PROVE CommentInv'
  <2>1. Moves(s) /\ at[s] \notin {"done", "dead"} /\ UNCHANGED <<report, comments>>
    BY <1>4, TaskStepMoves
  <2>2. report = "idle"
    BY <1>0, <2>1 DEF StageInv, Moves
  <2>3. CallWorks \/ CallFails
    BY <1>4 DEF TaskStep, RenderProgress, PostProgress, reportVars, CallWorks
  <2> QED
    BY <1>a, <1>c, <2>1, <2>2, <2>3
<1>5. CASE LoadSummaries
  <2>1. report' = "check" /\ UNCHANGED <<comments, faults>>
    BY <1>5 DEF LoadSummaries
  <2> QED
    BY <1>a, <2>1
<1>6. CASE FinalizeCheck
  <2>1. report' = "comment" /\ UNCHANGED <<comments, rows, snap>> /\ (CallWorks \/ CallFails)
    BY <1>6 DEF FinalizeCheck, legVars, bucketVars
  <2>2. ~CallFails => check' = FinalBody
    BY <1>6 DEF FinalizeCheck
  <2> QED
    BY <1>c, <2>1, <2>2, FinalWordKept DEF CommentInv
<1>7. CASE FinalComment
  <2>1. /\ report = "comment" /\ report' = "done" /\ UNCHANGED <<check, rows, snap>>
        /\ Upsert(FinalWord) /\ FinalWord \in Gate
    BY <1>7 DEF FinalComment, legVars, bucketVars, FinalWord, Gate
  <2>2. CallWorks \/ CallFails
    BY <2>1 DEF Upsert
  <2>3. faults' = 0 => Tidy(comments') /\ NewestSays(comments', FinalWord)
    BY <1>0, <1>c, <2>1, <2>2, UpsertTidy DEF CommentInv, CallWorks, CallFails
  <2> QED
    BY <1>c, <2>1, <2>2, <2>3, FinalWordKept DEF CommentInv
<1> QED
  BY <1>1, <1>2, <1>3, <1>4, <1>5, <1>6, <1>7 DEF Next, Finished

LEMMA AlwaysComment ==
  ASSUME \A c \in Before : Tidy(c)
  PROVE  Spec => [](CoreInv /\ CommentInv)
<1>1. Init => CoreInv /\ CommentInv
  BY InitCore, InitComment
<1>2. CoreInv /\ CommentInv /\ [Next]_vars => CoreInv' /\ CommentInv'
  BY NextCore, NextComment
<1> QED
  BY <1>1, <1>2, PTL DEF Spec

\* What the next theorem assumes of the comments an earlier push has left is
\* what a run leaves to the next one, as long as GitHub answers.
THEOREM CommentsStayTidy ==
  ASSUME \A c \in Before : Tidy(c)
  PROVE  Spec => [](faults = 0 => Tidy(comments))
<1>1. CommentInv => (faults = 0 => Tidy(comments))
  BY DEF CommentInv
<1> QED
  BY <1>1, AlwaysComment, PTL

\* When no call to GitHub fails, the newest comment of the gate tells the
\* verdict of the check, whatever other comments there are and however far
\* the search looks, if the gate's comments were tidy before (reporting.py:203).
THEOREM NewestCommentTellsVerdict ==
  ASSUME \A c \in Before : Tidy(c)
  PROVE  Spec => []NewestCommentIsVerdict
<1>1. CommentInv => NewestCommentIsVerdict
  <2> SUFFICES ASSUME CommentInv, report = "done", faults = 0 PROVE NewestCommentIsVerdict
    BY DEF NewestCommentIsVerdict
  <2>1. NewestSays(comments, FinalWord) /\ check.state = Aggregate
    BY DEF CommentInv, FinalBody
  <2>2. Marked = GateIn(comments)
    BY DEF Marked, GateIn
  <2> QED
    BY <2>1, <2>2 DEF NewestSays, FinalWord, NewestCommentIsVerdict
<1> QED
  BY <1>1, AlwaysComment, PTL
=============================================================================
