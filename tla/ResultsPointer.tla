--------------------------- MODULE ResultsPointer ---------------------------
(***************************************************************************)
(* One results_path in the bucket: snapshots/<run_id>/ written by the task *)
(* of each run, and current.json moved (and old snapshots pruned) by the   *)
(* coordinator of each run.  Runs of different pull requests share the     *)
(* path, and nothing in the code orders them; OneAtATime is the            *)
(* assumption under which the pointer keeps its promise.                   *)
(*                                                                         *)
(* One step is one access to the bucket.  A container may die between two  *)
(* accesses and is then started again once (max_retries); a workflow run   *)
(* may be re-run, with the same run id.                                    *)
(***************************************************************************)
EXTENDS Naturals, FiniteSets

CONSTANTS
  Runs,          \* the run ids that report to this results_path
  NoRun,         \* a null pointer
  OneAtATime,    \* TRUE: pipelines that share the path do not overlap
  MaxRetries,    \* Cloud Run max_retries of a job
  MaxReruns,     \* bound: workflow runs that are run again, once each
  MaxDeaths      \* bound: containers that die

ASSUME NoRunAssumption == NoRun \notin Runs
ASSUME OneAtATimeAssumption == OneAtATime \in BOOLEAN
ASSUME BoundsAssumption == {MaxRetries, MaxReruns, MaxDeaths} \subseteq Nat

VARIABLES
  pointer,     \* current.json: [latest, lastPassing]
  snapshot,    \* content of snapshots/<run_id>: "none", "pass" or "fail"
  summary,     \* triggers/summaries/<run>: "none", "pass" or "fail"
  task,        \* the task: "idle", "leg", "snapshot", "publish", "done" or "dead"
  coord,       \* the coordinator: "idle", "last", "ids", "write", "list", "prune", "done", "dead"
  verdict,     \* the status the running task or coordinator holds
  lastRead,    \* what read_existing_last_passing returned
  idsRead,     \* what read_existing_current_pointer_ids returned, as a set
  doomed,      \* the directories the running prune has still to delete
  retries,     \* containers of the running job restarted so far
  rerun,       \* the runs that were run again
  deaths       \* containers that died so far

jobVars == <<verdict, lastRead, idsRead, doomed>>
vars == <<pointer, snapshot, summary, task, coord, jobVars, retries, rerun, deaths>>

Verdicts == {"none", "pass", "fail"}
Pointers == Runs \cup {NoRun}

TypeOK ==
  /\ pointer \in [latest : Pointers, lastPassing : Pointers]
  /\ snapshot \in [Runs -> Verdicts]
  /\ summary \in [Runs -> Verdicts]
  /\ task \in [Runs -> {"idle", "leg", "snapshot", "publish", "done", "dead"}]
  /\ coord \in [Runs -> {"idle", "last", "ids", "write", "list", "prune", "done", "dead"}]
  /\ verdict \in [Runs -> Verdicts]
  /\ lastRead \in [Runs -> Pointers]
  /\ idsRead \in [Runs -> SUBSET Runs]
  /\ doomed \in [Runs -> SUBSET Runs]
  /\ retries \in [Runs -> 0 .. MaxRetries]
  /\ rerun \subseteq Runs /\ Cardinality(rerun) <= MaxReruns
  /\ deaths \in 0 .. MaxDeaths

Init ==
  /\ pointer = [latest |-> NoRun, lastPassing |-> NoRun]
  /\ snapshot = [r \in Runs |-> "none"]
  /\ summary = [r \in Runs |-> "none"]
  /\ task = [r \in Runs |-> "idle"]
  /\ coord = [r \in Runs |-> "idle"]
  /\ verdict = [r \in Runs |-> "none"]
  /\ lastRead = [r \in Runs |-> NoRun]
  /\ idsRead = [r \in Runs |-> {}]
  /\ doomed = [r \in Runs |-> {}]
  /\ retries = [r \in Runs |-> 0]
  /\ rerun = {} /\ deaths = 0

Over(r) == coord[r] \in {"done", "dead"}
Busy(r) == task[r] # "idle" /\ ~Over(r)

\* The container ends and its locals with it.
Forget(r) ==
  /\ verdict' = [verdict EXCEPT ![r] = "none"]
  /\ lastRead' = [lastRead EXCEPT ![r] = NoRun]
  /\ idsRead' = [idsRead EXCEPT ![r] = {}]
  /\ doomed' = [doomed EXCEPT ![r] = {}]

-----------------------------------------------------------------------------
(* run_task_mode                                                           *)

TaskStarts(r) ==
  /\ task[r] = "idle"
  /\ OneAtATime => \A s \in Runs : ~Busy(s)
  /\ task' = [task EXCEPT ![r] = "leg"]
  /\ UNCHANGED <<pointer, snapshot, summary, coord, jobVars, retries, rerun, deaths>>

\* _write_snapshot_artifacts: latest.json, ci_verdict.json and the logs of
\* the leg go to snapshots/<run_id>, over what an earlier attempt left there.
WriteSnapshot(r) ==
  /\ task[r] = "leg"
  /\ \E v \in {"pass", "fail"} :
       /\ verdict' = [verdict EXCEPT ![r] = v]
       /\ snapshot' = [snapshot EXCEPT ![r] = v]
  /\ task' = [task EXCEPT ![r] = "snapshot"]
  /\ UNCHANGED <<pointer, summary, coord, lastRead, idsRead, doomed, retries, rerun, deaths>>

WriteSummary(r) ==
  /\ task[r] = "snapshot"
  /\ summary' = [summary EXCEPT ![r] = verdict[r]]
  /\ task' = [task EXCEPT ![r] = "publish"]
  /\ UNCHANGED <<pointer, snapshot, coord, jobVars, retries, rerun, deaths>>

\* The progress record and the last publish_progress; then the container ends.
TaskEnds(r) ==
  /\ task[r] = "publish"
  /\ task' = [task EXCEPT ![r] = "done"]
  /\ retries' = [retries EXCEPT ![r] = 0]
  /\ Forget(r)
  /\ UNCHANGED <<pointer, snapshot, summary, coord, rerun, deaths>>

\* The container is lost; the job starts it again while retries are left.
TaskDies(r) ==
  /\ deaths < MaxDeaths /\ deaths' = deaths + 1
  /\ task[r] \in {"leg", "snapshot", "publish"}
  /\ \/ /\ retries[r] < MaxRetries
        /\ task' = [task EXCEPT ![r] = "leg"]
        /\ retries' = [retries EXCEPT ![r] = @ + 1]
     \/ /\ retries[r] = MaxRetries
        /\ task' = [task EXCEPT ![r] = "dead"]
        /\ retries' = [retries EXCEPT ![r] = 0]
  /\ Forget(r)
  /\ UNCHANGED <<pointer, snapshot, summary, coord, rerun>>

-----------------------------------------------------------------------------
(* The pointer loop of run_coordinator_mode                                *)

\* load_summary_or_failure: no summary is a failed leg.
CoordStarts(r) ==
  /\ task[r] \in {"done", "dead"}
  /\ coord[r] = "idle"
  /\ verdict' = [verdict EXCEPT ![r] = IF summary[r] = "pass" THEN "pass" ELSE "fail"]
  /\ coord' = [coord EXCEPT ![r] = "last"]
  /\ UNCHANGED <<pointer, snapshot, summary, task, lastRead, idsRead, doomed, retries, rerun, deaths>>

ReadLastPassing(r) ==
  /\ coord[r] = "last"
  /\ lastRead' = [lastRead EXCEPT ![r] = pointer.lastPassing]
  /\ coord' = [coord EXCEPT ![r] = "ids"]
  /\ UNCHANGED <<pointer, snapshot, summary, task, verdict, idsRead, doomed, retries, rerun, deaths>>

ReadPointerIds(r) ==
  /\ coord[r] = "ids"
  /\ idsRead' = [idsRead EXCEPT ![r] = {pointer.latest, pointer.lastPassing} \ {NoRun}]
  /\ coord' = [coord EXCEPT ![r] = "write"]
  /\ UNCHANGED <<pointer, snapshot, summary, task, verdict, lastRead, doomed, retries, rerun, deaths>>

\* Mutant of NewLastPassing: a failing run clears last_passing.
ClearedLastPassing(r) == IF verdict[r] = "pass" THEN r ELSE NoRun

NewLastPassing(r) == IF verdict[r] = "pass" THEN r ELSE lastRead[r]

\* write_current_pointer replaces the file; the last_passing it carries over
\* is the one read two steps ago.
WritePointer(r) ==
  /\ coord[r] = "write"
  /\ pointer' = [latest |-> r, lastPassing |-> NewLastPassing(r)]
  /\ coord' = [coord EXCEPT ![r] = "list"]
  /\ UNCHANGED <<snapshot, summary, task, jobVars, retries, rerun, deaths>>

\* Mutant of KeepRunIds: all but the new one.
KeepOldOnly(r) == ({NewLastPassing(r)} \cup idsRead[r]) \ {NoRun}

KeepRunIds(r) == ({r, NewLastPassing(r)} \cup idsRead[r]) \ {NoRun}

\* prune_snapshots lists the directory once ...
ListSnapshots(r) ==
  /\ coord[r] = "list"
  /\ doomed' = [doomed EXCEPT ![r] = {s \in Runs : snapshot[s] # "none"} \ KeepRunIds(r)]
  /\ coord' = [coord EXCEPT ![r] = "prune"]
  /\ UNCHANGED <<pointer, snapshot, summary, task, verdict, lastRead, idsRead, retries, rerun, deaths>>

\* ... and removes what is listed and not kept, one tree at a time.
PruneSnapshot(r) ==
  /\ coord[r] = "prune"
  /\ \E s \in doomed[r] :
       /\ snapshot' = [snapshot EXCEPT ![s] = "none"]
       /\ doomed' = [doomed EXCEPT ![r] = @ \ {s}]
  /\ UNCHANGED <<pointer, summary, task, coord, verdict, lastRead, idsRead, retries, rerun, deaths>>

\* The publish that follows may or may not remove the summaries (cleanup
\* waits for github_publish_complete).
CoordEnds(r) ==
  /\ coord[r] = "prune"
  /\ doomed[r] = {}
  /\ coord' = [coord EXCEPT ![r] = "done"]
  /\ \E kept \in {"none", summary[r]} : summary' = [summary EXCEPT ![r] = kept]
  /\ retries' = [retries EXCEPT ![r] = 0]
  /\ Forget(r)
  /\ UNCHANGED <<pointer, snapshot, task, rerun, deaths>>

\* The coordinator container is lost; a retry starts over, summaries included.
CoordDies(r) ==
  /\ deaths < MaxDeaths /\ deaths' = deaths + 1
  /\ coord[r] \in {"last", "ids", "write", "list", "prune"}
  /\ \/ /\ retries[r] < MaxRetries
        /\ coord' = [coord EXCEPT ![r] = "idle"]
        /\ retries' = [retries EXCEPT ![r] = @ + 1]
     \/ /\ retries[r] = MaxRetries
        /\ coord' = [coord EXCEPT ![r] = "dead"]
        /\ retries' = [retries EXCEPT ![r] = 0]
  /\ Forget(r)
  /\ UNCHANGED <<pointer, snapshot, summary, task, rerun>>

-----------------------------------------------------------------------------
\* A re-run of the workflow run: same run id, fresh containers, and whatever
\* the earlier attempt left in the bucket.
Rerun(r) ==
  /\ Over(r)
  /\ r \notin rerun /\ Cardinality(rerun) < MaxReruns
  /\ rerun' = rerun \cup {r}
  /\ task' = [task EXCEPT ![r] = "idle"]
  /\ coord' = [coord EXCEPT ![r] = "idle"]
  /\ retries' = [retries EXCEPT ![r] = 0]
  /\ UNCHANGED <<pointer, snapshot, summary, jobVars, deaths>>

Coordinator(r) ==
  \/ CoordStarts(r) \/ ReadLastPassing(r) \/ ReadPointerIds(r) \/ WritePointer(r)
  \/ ListSnapshots(r) \/ PruneSnapshot(r) \/ CoordEnds(r)

Next ==
  \E r \in Runs :
    \/ TaskStarts(r) \/ WriteSnapshot(r) \/ WriteSummary(r) \/ TaskEnds(r) \/ TaskDies(r)
    \/ Coordinator(r) \/ CoordDies(r)
    \/ Rerun(r)

Spec == Init /\ [][Next]_vars

-----------------------------------------------------------------------------
(* current.json is the register of Baseline.                               *)
Register == INSTANCE Baseline WITH latest <- pointer.latest,
                                   lastPassing <- pointer.lastPassing

(* The pointer changes only by recording a run: `lastPassing' is replaced  *)
(* by a passing run and by nothing else, although a failing run writes     *)
(* back a value its coordinator read earlier, and may die in between.      *)
PointerIsRegister == Register!Spec

\* A re-run writes over the snapshot of its first attempt.
NotRerun(r) == r # NoRun /\ r \notin rerun

(* What current.json names is there: `last_passing' has a snapshot with a  *)
(* passing result as long as that run is not run again, and `latest' has   *)
(* one; neither is sure when the last attempt of the task was lost, which  *)
(* may be after it wrote over the snapshot of a passing one.               *)
PointerNamesSnapshots ==
  /\ NotRerun(pointer.lastPassing) /\ task[pointer.lastPassing] # "dead"
       => snapshot[pointer.lastPassing] = "pass"
  /\ NotRerun(pointer.latest) /\ task[pointer.latest] # "dead" => snapshot[pointer.latest] # "none"
=============================================================================
