---------------------------- MODULE HandoffGate ----------------------------
(***************************************************************************)
(* The commit status (BMT Gate) of one commit: the handoff workflow that   *)
(* prepares, classifies and dispatches, its failure fallback that posts    *)
(* success when it takes the failure for an infrastructure one, the        *)
(* execution that posts the verdict when the registry of the pull request  *)
(* names it, and the timeout command.  The attempts on the commit are      *)
(* re-runs of one workflow run or runs of their own, one at a time; an     *)
(* earlier commit may have left a record in the registry.  GitHub keeps    *)
(* every post and shows the latest.                                        *)
(***************************************************************************)
EXTENDS Naturals

CONSTANTS
  Attempts,   \* bound: attempts of the handoff workflow, from 1
  MaxDrops    \* bound: terminal posts that fail, over the whole history

ASSUME AttemptsAssumption == Attempts \in Nat \ {0} /\ MaxDrops \in Nat

VARIABLES
  force,      \* the force-pass label (chosen once)
  isPr,       \* a pull request, with a registry record (chosen once)
  oneRun,     \* the attempts share their workflow run id (chosen once)
  now,        \* the running attempt
  at,         \* the step of its handoff
  seen,       \* what the fallback is told: [pex, legs, handoff, reason]
  exec,       \* of each attempt: "none", "live", "planned", "over"
  known,      \* attempts whose handoff recorded a confirmed dispatch
  gen,        \* the generation in the payload of each attempt
  record,     \* of the registry: [of, gen]; of 0 is another commit, gen 0 no record
  plan,       \* whose plan.json the execution of an attempt finds (0: none)
  shown,      \* the latest post: [state, by, of]
  watch,      \* what the timeout command read, or "off"
  drops,      \* terminal posts that failed
  skipped,    \* attempts whose execution ended without a word, as superseded
  cancelled   \* attempts whose handoff was cancelled

inputs == <<force, isPr, oneRun>>
runs == <<exec, gen, record, plan>>
ends == <<skipped, cancelled>>
gateVars == <<inputs, now, at, seen, runs, known, shown, watch, drops, ends>>

Steps == {"prepare", "pending", "classify", "forced", "invoke", "claim", "report", "fallback", "done"}
Terminal == {"success", "failure", "error"}
States == {"none", "pending"} \cup Terminal
Results == {"success", "failure", "cancelled"}
NothingSeen == [pex |-> TRUE, legs |-> TRUE, handoff |-> "success", reason |-> "none"]

GateTypeOK ==
  /\ force \in BOOLEAN /\ isPr \in BOOLEAN /\ oneRun \in BOOLEAN
  /\ now \in 1 .. Attempts /\ at \in Steps
  /\ seen \in [pex : BOOLEAN, legs : BOOLEAN, handoff : Results, reason : {"none", "ok"}]
  /\ exec \in [1 .. Attempts -> {"none", "live", "planned", "over"}]
  /\ gen \in [1 .. Attempts -> Nat] /\ record \in [of : 0 .. Attempts, gen : Nat]
  /\ plan \in [1 .. Attempts -> 0 .. Attempts]
  /\ known \subseteq 1 .. Attempts /\ skipped \subseteq 1 .. Attempts /\ cancelled \subseteq 1 .. Attempts
  /\ shown \in [state : States, by : {"nobody", "handoff", "force", "skip", "run", "timeout"}, of : 0 .. Attempts]
  /\ watch \in {"off"} \cup States
  /\ drops \in 0 .. MaxDrops

GateInit ==
  /\ force \in BOOLEAN /\ isPr \in BOOLEAN /\ oneRun \in BOOLEAN
  /\ now = 1 /\ at = "prepare" /\ seen = NothingSeen
  /\ exec = [a \in 1 .. Attempts |-> "none"]
  /\ gen = [a \in 1 .. Attempts |-> 0] /\ plan = gen
  /\ record \in {[of |-> 0, gen |-> n] : n \in {0} \cup IF isPr THEN {1} ELSE {}}
  /\ known = {} /\ skipped = {} /\ cancelled = {}
  /\ shown = [state |-> "none", by |-> "nobody", of |-> 0]
  /\ watch = "off" /\ drops = 0

\* A terminal post appears or, within the bound, is lost with a warning.
Post(state, by, a) ==
  \/ shown' = [state |-> state, by |-> by, of |-> a] /\ UNCHANGED drops
  \/ drops < MaxDrops /\ drops' = drops + 1 /\ UNCHANGED shown

-----------------------------------------------------------------------------
(* The handoff workflow                                                    *)

\* bmt-prepare-context: the PEX may be unavailable (the step goes on), and
\* CMakePresets.json too (the matrix is empty); a pull request whose number
\* is not found fails the preparation.  The last is told as no PEX here:
\* both are "preparation failed".
Prepare ==
  /\ at = "prepare"
  /\ \E pex, legs \in BOOLEAN :
       /\ seen' = [NothingSeen EXCEPT !.pex = pex, !.legs = pex /\ legs]
       /\ at' = IF pex THEN "pending" ELSE "fallback"
  /\ UNCHANGED <<inputs, now, runs, known, shown, watch, drops, ends>>

PostPending ==
  /\ at = "pending"
  /\ shown' \in {shown, [state |-> "pending", by |-> "handoff", of |-> now]}
  /\ at' = "classify"
  /\ UNCHANGED <<inputs, now, seen, runs, known, watch, drops, ends>>

\* bmt-filter-handoff-matrix: has_legs, none, or a failure.
Classify ==
  /\ at = "classify"
  /\ \E legs \in {seen.legs, FALSE} :
       /\ seen' = [seen EXCEPT !.legs = legs]
       /\ at' = IF ~legs THEN "fallback" ELSE IF force THEN "forced" ELSE "invoke"
  /\ UNCHANGED <<inputs, now, runs, known, shown, watch, drops, ends>>

\* Mutant of ForcePass: the override goes on to the dispatch.
ForcePassDispatches ==
  /\ at = "forced"
  /\ Post("success", "force", now)
  /\ at' = "invoke"
  /\ UNCHANGED <<inputs, now, seen, runs, known, watch, ends>>

\* The override posts success; invoke returns ok_force_pass_cloud_skipped.
ForcePass ==
  /\ at = "forced"
  /\ Post("success", "force", now)
  /\ at' = "done"
  /\ UNCHANGED <<inputs, now, seen, runs, known, watch, ends>>

HandoffFails == seen' = [seen EXCEPT !.handoff = "failure"] /\ at' = "fallback"

\* The generation after that of the record goes into the payload, then
\* start_execution is one POST: refused, answered, or applied with the answer
\* lost.
Invoke ==
  /\ at = "invoke"
  /\ gen' = [gen EXCEPT ![now] = IF isPr THEN record.gen + 1 ELSE 0]
  /\ \/ HandoffFails /\ UNCHANGED exec
     \/ HandoffFails /\ exec' = [exec EXCEPT ![now] = "live"]
     \/ /\ at' = IF isPr THEN "claim" ELSE "report"
        /\ exec' = [exec EXCEPT ![now] = "live"]
        /\ UNCHANGED seen
  /\ UNCHANGED <<inputs, now, record, plan, known, shown, watch, drops, ends>>

\* The claim counts its own generation.  A write whose answer is lost is tried
\* again over its own record; the attempts may also be used up, before or
\* after such a write.  The execution runs all the while.
Claim ==
  /\ at = "claim"
  /\ \E n \in 0 .. 2 :
       /\ record' = IF n = 0 THEN record ELSE [of |-> now, gen |-> record.gen + n]
       /\ \/ n < 2 /\ HandoffFails
          \/ n > 0 /\ at' = "report" /\ UNCHANGED seen
  /\ UNCHANGED <<inputs, now, exec, gen, plan, known, shown, watch, drops, ends>>

\* The outputs confirm the dispatch; a later step of the job may fail.
Report ==
  /\ at = "report"
  /\ known' = known \cup {now}
  /\ \E ok \in BOOLEAN :
       /\ seen' = [seen EXCEPT !.reason = "ok", !.handoff = IF ok THEN @ ELSE "failure"]
       /\ at' = IF ok THEN "done" ELSE "fallback"
  /\ UNCHANGED <<inputs, now, runs, shown, watch, drops, ends>>

\* Mutant of FailureClass: what is not understood is a runtime failure.
ClassifyStrictly ==
  IF ~seen.pex \/ ~seen.legs THEN "infra" ELSE "runtime"

\* The case distinction of bmt-failure-fallback.
FailureClass ==
  IF ~seen.pex \/ ~seen.legs \/ (seen.handoff = "failure" /\ seen.reason # "ok")
  THEN "infra" ELSE "runtime"

\* bmt-infra-skip-gate posts success without looking at the status.
Fallback ==
  /\ at = "fallback"
  /\ IF FailureClass = "infra" THEN Post("success", "skip", now) ELSE UNCHANGED <<shown, drops>>
  /\ at' = "done"
  /\ UNCHANGED <<inputs, now, seen, runs, known, watch, ends>>

\* A newer handoff of the concurrency group, or a person, cancels the workflow.
\* The fallback may still run: then a job before the handoff counts as failed,
\* and a cancelled handoff as none of the failures it knows.
Cancel ==
  /\ at # "done"
  /\ cancelled' = cancelled \cup {now}
  /\ \/ at' = "done" /\ UNCHANGED seen
     \/ /\ at # "fallback" /\ at' = "fallback"
        /\ seen' = [seen EXCEPT !.handoff = "cancelled", !.pex = @ /\ at # "prepare",
                                !.legs = @ /\ at \notin {"prepare", "pending", "classify"}]
  /\ UNCHANGED <<inputs, now, runs, known, shown, watch, drops, skipped>>

\* Another attempt on the same commit; the dispatch cancels the execution the
\* registry names, if it still can.
Rerun ==
  /\ at = "done" /\ now < Attempts
  /\ now' = now + 1 /\ at' = "prepare" /\ seen' = NothingSeen
  /\ UNCHANGED <<inputs, runs, known, shown, watch, drops, ends>>

Supersede(a) ==
  /\ at = "invoke" /\ a = record.of /\ a # now /\ exec[a] \in {"live", "planned"}
  /\ exec' = [exec EXCEPT ![a] = "over"]
  /\ UNCHANGED <<inputs, now, at, seen, gen, record, plan, known, shown, watch, drops, ends>>

-----------------------------------------------------------------------------
(* The execution, and the timeout command                                  *)

\* is_authoritative_for_pr, of the plan of attempt a: without a record it is;
\* otherwise run id and generation must both be those of the record.
Authoritative(a) ==
  isPr /\ record.gen # 0
    => record.of # 0 /\ (oneRun \/ record.of = a) /\ record.gen = gen[a]

\* The executions of the workflow run that a belongs to.
RunOf(a) == IF oneRun THEN 1 .. Attempts ELSE {a}
PlanIs(a, x) == plan' = [b \in 1 .. Attempts |-> IF b \in RunOf(a) THEN x ELSE plan[b]]

\* Plan mode writes no plan for a run that is not authoritative.  Its
\* execution goes on if an earlier attempt left one, and else ends.
PlanMode(a) ==
  /\ exec[a] = "live"
  /\ \/ /\ Authoritative(a)
        /\ PlanIs(a, a)
        /\ exec' = [exec EXCEPT ![a] = "planned"] /\ UNCHANGED skipped
     \/ /\ ~Authoritative(a) /\ plan[a] # 0
        /\ exec' = [exec EXCEPT ![a] = "planned"] /\ UNCHANGED <<plan, skipped>>
     \/ /\ ~Authoritative(a) /\ plan[a] = 0
        /\ exec' = [exec EXCEPT ![a] = "over"] /\ skipped' = skipped \cup {a}
        /\ UNCHANGED plan
  /\ UNCHANGED <<inputs, now, at, seen, gen, record, known, shown, watch, drops, cancelled>>

Publishes(a) == plan[a] # 0 /\ Authoritative(plan[a])

\* Mutant of RunEnds: authority is not asked for.
RunEndsAnyway(a) ==
  /\ exec[a] = "planned"
  /\ exec' = [exec EXCEPT ![a] = "over"]
  /\ \E verdict \in {"success", "failure"} : Post(verdict, "run", a)
  /\ UNCHANGED <<inputs, now, at, seen, gen, record, plan, known, watch, ends>>

\* The coordinator, or the except branch, posts the verdict (Pipeline) and
\* removes the plan once everything is published; a superseded one is silent.
RunEnds(a) ==
  /\ exec[a] = "planned"
  /\ exec' = [exec EXCEPT ![a] = "over"]
  /\ \/ /\ Publishes(a) /\ UNCHANGED skipped
        /\ \E verdict \in {"success", "failure"} : Post(verdict, "run", a)
        /\ PlanIs(a, 0) \/ UNCHANGED plan
     \/ /\ ~Publishes(a) /\ skipped' = skipped \cup {a}
        /\ UNCHANGED <<shown, drops, plan>>
  /\ UNCHANGED <<inputs, now, at, seen, gen, record, known, watch, cancelled>>

\* should_post_failure_status; an unreadable status counts as none.
TimeoutReads ==
  /\ watch = "off" /\ at = "done"
  /\ watch' \in {shown.state, "none"}
  /\ UNCHANGED <<inputs, now, at, seen, runs, known, shown, drops, ends>>

TimeoutPosts ==
  /\ watch # "off"
  /\ IF watch \in Terminal THEN UNCHANGED <<shown, drops>> ELSE Post("error", "timeout", now)
  /\ watch' = "off"
  /\ UNCHANGED <<inputs, now, at, seen, runs, known, ends>>

-----------------------------------------------------------------------------
Handoff ==
  \/ Prepare \/ PostPending \/ Classify \/ ForcePass \/ Invoke \/ Claim \/ Report \/ Fallback

GateNext ==
  \/ Handoff \/ Cancel \/ Rerun \/ TimeoutReads \/ TimeoutPosts
  \/ \E a \in 1 .. Attempts : Supersede(a) \/ PlanMode(a) \/ RunEnds(a)

\* GitHub runs the jobs of the handoff to their end, and Google Workflows
\* the execution; nobody has to cancel, to re-run or to time out.
GateSpec ==
  /\ GateInit /\ [][GateNext]_gateVars /\ WF_gateVars(Handoff)
  /\ \A a \in 1 .. Attempts : WF_gateVars(PlanMode(a)) /\ WF_gateVars(RunEnds(a))

-----------------------------------------------------------------------------
(* The infra skip stands in for a run: the gate is never green by it while *)
(* an execution runs whose dispatch the handoff had confirmed.             *)
NoSkipOverConfirmedRun ==
  shown.by = "skip" /\ shown.state = "success" =>
    ~(exec[shown.of] \in {"live", "planned"} /\ shown.of \in known)

(* The words of bmt-infra-skip-gate: success is posted when the handoff    *)
(* prevented the dispatch, so no execution of the attempt exists.          *)
SkipMeansNoDispatch == shown.by = "skip" => exec[shown.of] = "none"

(* A verdict stays: it is replaced only by a later attempt, by its own     *)
(* attempt when that did not know of the dispatch, by an older execution   *)
(* where nothing tells the two apart (no record in the registry, or the    *)
(* attempts of one workflow run, which share a plan), or by a timeout      *)
(* whose reading it overtook or could not be had.                          *)
VerdictStands ==
  [][shown.by = "run" /\ shown' # shown =>
       \/ shown'.of > shown.of
       \/ shown'.by = "skip" /\ shown'.of \notin known
       \/ shown'.by = "run" /\ (record.gen = 0 \/ oneRun)
       \/ shown'.by = "timeout" /\ watch \notin Terminal]_gateVars

(* The override never turns red: nothing it dispatched can fail later.     *)
ForcedGateNeverFails == force => shown.state # "failure"

\* The last attempt is one that nobody speaks for: its execution found itself
\* superseded (it asked before its claim had landed, or the claim never landed
\* or landed with another generation), or its handoff was cancelled before
\* there was an execution.
Silenced == now \in skipped \/ (now \in cancelled /\ exec[now] = "none")

(* The gate of a commit is decided in the end: by the verdict, by the      *)
(* skip, or by the override, unless the very post was lost or the last     *)
(* attempt is silenced.                                                    *)
GateIsDecided == <>[](shown.state \in Terminal \/ drops > 0 \/ Silenced)

(* Stronger than the code: only a lost post, a cancelled handoff or a      *)
(* failed claim leaves the gate undecided.  An execution whose plan job is *)
(* faster than the claim, over the record of an earlier run, is silent for *)
(* good although its claim lands.                                          *)
DispatchedGateIsDecided ==
  <>[](\/ shown.state \in Terminal \/ drops > 0 \/ now \in cancelled
       \/ at = "done" /\ record.of # now)
=============================================================================
