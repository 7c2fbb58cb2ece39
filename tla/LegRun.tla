-------------------------------- MODULE LegRun --------------------------------
(***************************************************************************)
(* The plan of one workflow run and the tasks that execute it: which       *)
(* manifests of the stage become legs, which Cloud Run task picks which    *)
(* leg, what the hooks of the plugin make of it, and the files a task      *)
(* leaves in the bucket, one write per step.  A task container may die     *)
(* between two writes and is started again MaxRetries times.               *)
(*                                                                         *)
(* The steps "render" and "post" of a task, between its writes, are those  *)
(* of GateReport.                                                          *)
(***************************************************************************)
EXTENDS Naturals, FiniteSets, Sequences

CONSTANTS
  Manifests,     \* the manifests of the stage, a sequence in path order
  ProjectOf,     \* manifest -> its project directory
  FileOf,        \* manifest -> name of its summary and progress files
  Tolerant,      \* manifest -> its plugin lets a leg with failed cases pass
  Stages,        \* bound: what the manifests and their plugin.py may say
  Requests,      \* the accepted_projects a request may carry
  Malformed,     \* what is not a JSON array
  Raising,       \* bound: the hooks that may raise
  NoResult,      \* nothing written
  MaxRetries,    \* Cloud Run max_retries of the task jobs
  MaxDeaths      \* bound: containers that die

Legs == {Manifests[i] : i \in DOMAIN Manifests}
Files == {FileOf[l] : l \in Legs}
Profiles == {"standard", "heavy"}
Slots == Profiles \X (0 .. Len(Manifests) - 1)

\* Manifests are the paths of files.
ASSUME ManifestsAssumption ==
  /\ Manifests \in Seq(Legs)
  /\ \A i, j \in DOMAIN Manifests : Manifests[i] = Manifests[j] => i = j
ASSUME MapsAssumption ==
  /\ DOMAIN ProjectOf = Legs /\ DOMAIN FileOf = Legs
  /\ Tolerant \in [Legs -> BOOLEAN]
ASSUME StagesAssumption ==
  Stages \subseteq [Legs -> [kind : {"flat", "other", "archived"}, enabled : BOOLEAN,
                             declared : Profiles \cup {"unset"}, profile : Profiles \cup {"odd"}, results : STRING]]
ASSUME RaisingAssumption == Raising \subseteq {"setup", "prepare", "execute", "score", "evaluate"}
ASSUME RetriesAssumption == {MaxRetries, MaxDeaths} \subseteq Nat

VARIABLES
  stage,       \* manifest -> its entry
  accepted,    \* the projects the request names; none means all
  planned,     \* the plan job: "no", "yes" or "failed"
  plan,        \* the frozen plan: a sequence of [leg, profile]
  at,          \* slot -> where its task is
  tries,       \* slot -> containers started again
  deaths,      \* containers that died so far
  out,         \* slot -> what the running container got from its leg
  progress,    \* file -> "none", "running", "pass" or "fail"
  summary,     \* file -> leg summary
  snap,        \* leg -> files of snapshots/<run_id>
  wrote        \* history: leg -> the hooks of the attempt that wrote its summary

taskVars == <<at, tries, deaths, out>>
bucketVars == <<progress, summary, snap, wrote>>
legVars == <<stage, accepted, planned, plan, taskVars, bucketVars>>

Hooks == [raises : {"no"} \cup Raising, failed : {0, 1}]
Reasons == {"plugin_execute_failed", "bootstrap_without_baseline", "case_failures",
            "runner_failures", "summary_missing"}
Results == [status : {"pass", "fail"}, reason : Reasons, failed : {0, 1}]
Outcomes == [hooks : Hooks, result : Results]
ASSUME NoResultAssumption == NoResult \notin Hooks /\ NoResult \notin Results /\ NoResult \notin Outcomes
NoSnapshot == [digest |-> NoResult, latest |-> NoResult, verdict |-> NoResult, logs |-> FALSE]

LegInit ==
  /\ stage \in Stages
  /\ accepted \in Requests
  /\ planned = "no" /\ plan = <<>>
  /\ at = [s \in Slots |-> "none"] /\ tries = [s \in Slots |-> 0] /\ deaths = 0
  /\ out = [s \in Slots |-> NoResult]
  /\ progress = [f \in Files |-> "none"]
  /\ summary = [f \in Files |-> NoResult]
  /\ snap = [l \in Legs |-> NoSnapshot]
  /\ wrote = [l \in Legs |-> NoResult]

-----------------------------------------------------------------------------
(* build_plan                                                              *)

\* _discover_bmt_manifests: flat manifests outside archived projects.
Discovered(l) == stage[l].kind = "flat"

\* _workflow_request_from_env raises, and there is no plan.
RequestMalformed == accepted = Malformed

Selected(l) ==
  /\ Discovered(l) /\ stage[l].enabled
  /\ accepted = {} \/ ProjectOf[l] \in accepted

\* The stage has a plugin.py for the leg, and it names a profile.
PluginDeclares(l) == stage[l].declared # "unset"

\* resolve_cloud_task_profile: plugin.py first, the manifest otherwise.
ResolveProfile(l) == IF PluginDeclares(l) THEN stage[l].declared ELSE stage[l].profile

\* The positions of a sequence where something holds, in their order.
Nth(S, k) == CHOOSE i \in S : Cardinality({j \in S : j <= i}) = k

PlannedLegs ==
  LET chosen == {i \in DOMAIN Manifests : Selected(Manifests[i])}
      leg(k) == Manifests[Nth(chosen, k)]
  IN  [k \in 1 .. Cardinality(chosen) |-> [leg |-> leg(k), profile |-> ResolveProfile(leg(k))]]

\* An unknown profile, or one results_path for two legs, and there is no plan.
PlanRaises ==
  \/ RequestMalformed
  \/ \E i \in DOMAIN PlannedLegs : PlannedLegs[i].profile \notin Profiles
  \/ \E i, j \in DOMAIN PlannedLegs :
       i # j /\ stage[PlannedLegs[i].leg].results = stage[PlannedLegs[j].leg].results

BuildPlan ==
  /\ planned = "no"
  /\ planned' = IF PlanRaises THEN "failed" ELSE "yes"
  /\ plan' = IF PlanRaises THEN <<>> ELSE PlannedLegs
  /\ UNCHANGED <<stage, accepted, taskVars, bucketVars>>

-----------------------------------------------------------------------------
(* Which task runs which leg                                               *)

TasksOf(profile) == {i \in DOMAIN plan : plan[i].profile = profile}

\* standard_task_count and heavy_task_count.
TaskCount(profile) == Cardinality(TasksOf(profile))

\* Mutant of TaskLeg: the index counts the legs of both profiles.
TaskLegOfAll(s) == plan[s[2] + 1].leg

\* _task_leg: the legs of one profile, by index.
TaskLeg(s) == plan[Nth(TasksOf(s[1]), s[2] + 1)].leg

PlanLegs == {plan[i].leg : i \in DOMAIN plan}

\* The tasks of both jobs: as many as the plan counts.
Counted == {s \in Slots : s[2] < TaskCount(s[1])}

JobOver(profile) == \A s \in Counted : s[1] = profile => at[s] \in {"done", "dead"}

\* The tasks of a job run side by side, the heavy job after the standard one.
RunJob(profile) ==
  /\ planned = "yes"
  /\ \E s \in Counted : s[1] = profile /\ at[s] = "none"
  /\ profile = "heavy" => JobOver("standard")
  /\ at' = [s \in Slots |-> IF s \in Counted /\ s[1] = profile THEN "start" ELSE at[s]]
  /\ UNCHANGED <<stage, accepted, planned, plan, tries, deaths, out, bucketVars>>

-----------------------------------------------------------------------------
(* The hooks: load, prepare, execute, score, evaluate                      *)

\* What comes before the hooks: the pin, the manifests, the import of plugin.py.
Loads(h) == h.raises # "setup"

\* _CustomPluginImpl.execute: an exception becomes one failed case and a flag.
Executed(h) ==
  IF h.raises = "execute" THEN [failed |-> 1, flag |-> TRUE] ELSE [failed |-> h.failed, flag |-> FALSE]

\* Mutant of Scored: the extra of the project's score, without the flag.
ScoredPlainly(x) == [failed |-> x.failed, flag |-> FALSE]

\* _CustomPluginImpl.score: the flag goes into the extra of the score.
Scored(x) == [failed |-> x.failed, flag |-> x.flag]

\* The project's evaluate: whether a leg with failed cases may pass.
Accepts(l, failed) == failed = 0 \/ Tolerant[l]

\* _CustomPluginImpl.evaluate before the project's: the flag fails the leg.
Evaluated(l, x) ==
  IF x.flag THEN [status |-> "fail", reason |-> "plugin_execute_failed", failed |-> x.failed]
  ELSE IF Accepts(l, x.failed)
       THEN [status |-> "pass", reason |-> "bootstrap_without_baseline", failed |-> x.failed]
       ELSE [status |-> "fail", reason |-> "case_failures", failed |-> x.failed]

\* Whatever else raises is a failed leg without cases.
ExecuteFailure == [status |-> "fail", reason |-> "runner_failures", failed |-> 0]

LegResult(l, h) ==
  IF h.raises \in {"no", "execute"} THEN Evaluated(l, Scored(Executed(h))) ELSE ExecuteFailure

\* build_case_outcomes: the score of a plugin lists its cases, and only the
\* summary of a leg that was scored has one.
HasCases(result) == result.reason \notin {"runner_failures", "summary_missing"}

\* load_summary_or_failure
Missing == [status |-> "fail", reason |-> "summary_missing", failed |-> 0]

-----------------------------------------------------------------------------
(* run_task_mode, one write per step                                       *)

Goes(s, from, to) == at[s] = from /\ at' = [at EXCEPT ![s] = to]
LegKeeps == UNCHANGED <<stage, accepted, planned, plan, tries, deaths>>

TaskStarts(s) ==
  /\ Goes(s, "start", "render")
  /\ progress' = [progress EXCEPT ![FileOf[TaskLeg(s)]] = "running"]
  /\ LegKeeps /\ UNCHANGED <<out, summary, snap, wrote>>

RunLeg(s) ==
  /\ Goes(s, "run", "digest")
  /\ \E h \in Hooks :
       /\ h.raises # "no" => h.failed = 0
       /\ out' = [out EXCEPT ![s] = [hooks |-> h, result |-> LegResult(TaskLeg(s), h)]]
  /\ LegKeeps /\ UNCHANGED bucketVars

\* Mutant of WriteSnap: what an earlier attempt left there stays.
WriteSnapOnce(s, field, from, to) ==
  /\ Goes(s, from, to)
  /\ snap' = [snap EXCEPT ![TaskLeg(s)][field] = IF @ = NoResult THEN out[s].result ELSE @]
  /\ LegKeeps /\ UNCHANGED <<out, progress, summary, wrote>>

\* _write_snapshot_artifacts, a file at a time, over what is there.
WriteSnap(s, field, from, to) ==
  /\ Goes(s, from, to)
  /\ snap' = [snap EXCEPT ![TaskLeg(s)][field] = out[s].result]
  /\ LegKeeps /\ UNCHANGED <<out, progress, summary, wrote>>

WriteDigest(s) == WriteSnap(s, "digest", "digest", "latest")

WriteLatest(s) == WriteSnap(s, "latest", "latest", "verdict")

WriteVerdict(s) == WriteSnap(s, "verdict", "verdict", "logs")

\* The logs are there unless the setup of the leg raised before it made them.
CopyLogs(s) ==
  /\ Goes(s, "logs", "summary")
  /\ snap' = [snap EXCEPT ![TaskLeg(s)].logs = @ \/ Loads(out[s].hooks)]
  /\ LegKeeps /\ UNCHANGED <<out, progress, summary, wrote>>

WriteSummary(s) ==
  /\ Goes(s, "summary", "progress")
  /\ summary' = [summary EXCEPT ![FileOf[TaskLeg(s)]] = out[s].result]
  /\ wrote' = [wrote EXCEPT ![TaskLeg(s)] = out[s].hooks]
  /\ LegKeeps /\ UNCHANGED <<out, progress, snap>>

WriteProgress(s) ==
  /\ Goes(s, "progress", "rerender")
  /\ progress' = [progress EXCEPT ![FileOf[TaskLeg(s)]] = out[s].result.status]
  /\ out' = [out EXCEPT ![s] = NoResult]
  /\ LegKeeps /\ UNCHANGED <<summary, snap, wrote>>

\* The container is lost, and started again while retries are left.
TaskDies(s) ==
  /\ at[s] \notin {"none", "start", "done", "dead"}
  /\ deaths < MaxDeaths /\ deaths' = deaths + 1
  /\ at' = [at EXCEPT ![s] = IF tries[s] < MaxRetries THEN "start" ELSE "dead"]
  /\ tries' = [tries EXCEPT ![s] = IF tries[s] < MaxRetries THEN @ + 1 ELSE @]
  /\ out' = [out EXCEPT ![s] = NoResult]
  /\ UNCHANGED <<stage, accepted, planned, plan, bucketVars>>

TaskWrites(s) ==
  \/ TaskStarts(s) \/ RunLeg(s)
  \/ WriteDigest(s) \/ WriteLatest(s) \/ WriteVerdict(s) \/ CopyLogs(s)
  \/ WriteSummary(s) \/ WriteProgress(s)

-----------------------------------------------------------------------------
(* Properties                                                              *)

LegTypeOK ==
  /\ stage \in Stages /\ accepted \in Requests
  /\ planned \in {"no", "yes", "failed"}
  /\ plan \in Seq([leg : Legs, profile : Profiles])
  /\ at \in [Slots -> {"none", "start", "render", "post", "run", "digest", "latest", "verdict",
                       "logs", "summary", "progress", "rerender", "repost", "done", "dead"}]
  /\ tries \in [Slots -> 0 .. MaxRetries] /\ deaths \in 0 .. MaxDeaths
  /\ out \in [Slots -> {NoResult} \cup Outcomes]
  /\ progress \in [Files -> {"none", "running", "pass", "fail"}]
  /\ summary \in [Files -> Results \cup {NoResult}]
  /\ snap \in [Legs -> [digest : Results \cup {NoResult}, latest : Results \cup {NoResult},
                        verdict : Results \cup {NoResult}, logs : BOOLEAN]]
  /\ wrote \in [Legs -> Hooks \cup {NoResult}]

\* The counts of the plan, the arrays of the two jobs and _task_leg fit: each
\* leg of the plan has one task and each task one leg. (entrypoint.py:255.)
LegsHaveTasks ==
  \A l \in PlanLegs : Cardinality({s \in Counted : TaskLeg(s) = l}) = 1

\* A summary promises its snapshot: digest, latest and verdict are there when
\* the summary is, and say what it says when the task came to its end, after
\* any number of attempts. (entrypoint.py:199.)
SnapshotMatchesSummary ==
  \A s \in Counted :
    LET l == TaskLeg(s)
        sum == summary[FileOf[l]]
        files == {snap[l].digest, snap[l].latest, snap[l].verdict}
    IN  /\ sum # NoResult => NoResult \notin files
        /\ at[s] = "done" => files = {sum}
=============================================================================
