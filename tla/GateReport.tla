------------------------------ MODULE GateReport ------------------------------
(***************************************************************************)
(* What the pull request gets to read of one workflow run: the body of the *)
(* BMT Gate check, opened by the plan job, rewritten by every task when    *)
(* its leg starts and ends, and concluded from the summaries; and the      *)
(* comment of the gate.  The tasks are those of LegRun; each renders the   *)
(* body from the bucket in one step and posts it in a later one.           *)
(*                                                                         *)
(* Who is still authoritative, the commit status, what follows a publish   *)
(* that fails and the removal of the triggers are in PrLifecycle and       *)
(* Pipeline.                                                               *)
(***************************************************************************)
EXTENDS LegRun

CONSTANTS
  MaxAnnotations,   \* MAX_GITHUB_CHECK_ANNOTATIONS
  ScanLimit,        \* comments _find_existing_comment looks at
  Before,           \* what the comments of the pull request may be before this run
  MaxTroubles       \* bound: GitHub calls that fail and containers that die, together

Gate == {"started", "passed", "failed"}   \* comments with the marker

ASSUME BeforeAssumption == Before \subseteq Seq(Gate \cup {"other"})
ASSUME ReportBoundsAssumption == {MaxAnnotations, ScanLimit, MaxTroubles} \subseteq Nat

VARIABLES
  check,       \* the check run on GitHub
  known,       \* reporting metadata name the check
  view,        \* slot -> the rows its task rendered
  comments,    \* the comments of the pull request, oldest first
  opener,      \* the plan job: "idle", "create", "comment", "persist" or "done"
  report,      \* the publisher: "idle", "check", "comment" or "done"
  rows,        \* leg -> the summary the publisher loaded
  faults       \* GitHub calls that failed

reportVars == <<check, known, view, comments, opener, report, rows, faults>>
vars == <<legVars, reportVars>>

Statuses == {"absent", "pending", "running", "pass", "fail"}
Conclusions == {"success", "failure"}

NoRows == [l \in Legs |-> "absent"]
NoLists == [named |-> {}, warned |-> {}, annotated |-> 0, dumped |-> {}]
NoView == [rows |-> NoRows, scores |-> {}]
NoCheck == [state |-> "none", rows |-> NoRows, scores |-> {}, lists |-> NoLists]

Init ==
  /\ LegInit
  /\ check = NoCheck /\ known = FALSE
  /\ view = [s \in Slots |-> NoView]
  /\ comments \in Before
  /\ opener = "idle" /\ report = "idle"
  /\ rows = [l \in Legs |-> NoResult]
  /\ faults = 0

CallFails == faults + deaths < MaxTroubles /\ faults' = faults + 1
CallWorks == UNCHANGED faults
Concluded == check.state \in Conclusions

-----------------------------------------------------------------------------
(* _upsert_issue_comment                                                   *)

Marked == {i \in DOMAIN comments : comments[i] \in Gate}

\* Mutant of Found: the marker is not looked for.
FoundAny == {i \in DOMAIN comments : i = 1}

\* The first comment with the marker among the first ScanLimit.
Found == {i \in Marked : i <= ScanLimit /\ \A j \in Marked : i <= j}

Create(body) == comments' = Append(comments, body)
Edit(body) == \E i \in Found : comments' = [comments EXCEPT ![i] = body]

\* A listing that fails finds nothing, and what creates or edits may fail.
Upsert(body) ==
  \/ CallWorks /\ IF Found = {} THEN Create(body) ELSE Edit(body)
  \/ CallFails /\ Create(body)
  \/ CallFails /\ UNCHANGED comments

-----------------------------------------------------------------------------
(* ensure_reporting_metadata_for_plan                                      *)

\* render_progress_check_output
ProgressBody(shown) ==
  [state |-> "open", rows |-> shown.rows, scores |-> shown.scores, lists |-> NoLists]

Pending == [l \in Legs |-> IF l \in PlanLegs THEN "pending" ELSE "absent"]

OpenGate ==
  /\ BuildPlan
  /\ opener' = IF planned' = "yes" THEN "create" ELSE "idle"
  /\ UNCHANGED <<check, known, view, comments, report, rows, faults>>

\* Without a check the plan job goes on: neither comment nor metadata.
CreateCheck ==
  /\ opener = "create"
  /\ \/ CallWorks /\ check' = ProgressBody([NoView EXCEPT !.rows = Pending]) /\ opener' = "comment"
     \/ CallFails /\ UNCHANGED check /\ opener' = "done"
  /\ UNCHANGED <<legVars, known, view, comments, report, rows>>

StartedComment ==
  /\ opener = "comment"
  /\ Upsert("started")
  /\ opener' = "persist"
  /\ UNCHANGED <<legVars, check, known, view, report, rows>>

PersistStarted ==
  /\ opener = "persist"
  /\ known' = TRUE /\ opener' = "done"
  /\ UNCHANGED <<legVars, check, view, comments, report, rows, faults>>

Launch ==
  /\ opener = "done"
  /\ \E p \in Profiles : RunJob(p)
  /\ UNCHANGED reportVars

-----------------------------------------------------------------------------
(* publish_progress, at the start and at the end of a task                 *)

\* _progress_view: a summary wins over the progress record.
ProgressRow(l) ==
  IF l \notin PlanLegs THEN "absent"
  ELSE IF summary[FileOf[l]] # NoResult THEN summary[FileOf[l]].status
  ELSE IF progress[FileOf[l]] # "none" THEN progress[FileOf[l]]
  ELSE "pending"

\* _progress_table_markdown: a line for each leg.
ProgressTable == [l \in Legs |-> ProgressRow(l)]

\* _collapsible_leg_file_table: a block of scores per file, if it has cases.
FileScores(result) == result # NoResult /\ HasCases(result)

\* per_leg_file_scores_collapsible_markdown_progress: of the finished legs.
ProgressScores == {l \in PlanLegs : FileScores(summary[FileOf[l]])}

\* Without metadata nothing is published.
RenderProgress(s) ==
  /\ \/ Goes(s, "render", IF known THEN "post" ELSE "run")
     \/ Goes(s, "rerender", IF known THEN "repost" ELSE "done")
  /\ view' = [view EXCEPT ![s] = IF known THEN [rows |-> ProgressTable, scores |-> ProgressScores] ELSE NoView]
  /\ LegKeeps /\ UNCHANGED <<out, bucketVars>>
  /\ UNCHANGED <<check, known, comments, opener, report, rows, faults>>

\* A post that fails is logged.
PostProgress(s) ==
  /\ Goes(s, "post", "run") \/ Goes(s, "repost", "done")
  /\ \/ CallWorks /\ check' = ProgressBody(view[s])
     \/ CallFails /\ UNCHANGED check
  /\ view' = [view EXCEPT ![s] = NoView]
  /\ LegKeeps /\ UNCHANGED <<out, bucketVars>>
  /\ UNCHANGED <<known, comments, opener, report, rows>>

-----------------------------------------------------------------------------
(* publish_final_results, by the coordinator or the finalize-failure job   *)

\* load_summary_or_failure
Loaded(l) ==
  IF l \notin PlanLegs THEN NoResult
  ELSE IF summary[FileOf[l]] # NoResult THEN summary[FileOf[l]] ELSE Missing

Reported == {l \in Legs : rows[l] # NoResult}
Failing == {l \in Reported : rows[l].status # "pass"}

\* The workflow runs the coordinator after both task jobs.
LoadSummaries ==
  /\ opener = "done" /\ report = "idle"
  /\ \A p \in Profiles : JobOver(p)
  /\ rows' = [l \in Legs |-> Loaded(l)]
  /\ report' = "check"
  /\ UNCHANGED <<legVars, check, known, view, comments, opener, faults>>

\* aggregate_status: no leg is a failure.
Aggregate == IF Reported # {} /\ Failing = {} THEN "success" ELSE "failure"

\* Legs that pass although cases failed.
Warned == {l \in Reported \ Failing : rows[l].failed > 0}

\* Mutant of Annotations: as many as there are.
AnnotationsUncapped == Cardinality({l \in Reported : rows[l].failed > 0})

\* Failed cases, of passing legs too, up to what one request may carry.
Annotations ==
  LET all == Cardinality({l \in Reported : rows[l].failed > 0})
  IN  IF all > MaxAnnotations THEN MaxAnnotations ELSE all

\* The log dump: logs of failing legs whose summary says where they are.
Dumped == {l \in Failing : rows[l].reason # "summary_missing" /\ snap[l].logs}

\* _final_view: a row for every summary.
FinalRow(l) == IF l \in Reported THEN rows[l].status ELSE "absent"

\* _final_check_table_markdown
FinalTable == [l \in Legs |-> FinalRow(l)]

\* per_leg_file_scores_collapsible_markdown
FinalScores == {l \in Legs : FileScores(rows[l])}

\* render_final_check_output
FinalBody ==
  [state |-> Aggregate,
   rows |-> FinalTable,
   scores |-> FinalScores,
   lists |-> [named |-> Failing, warned |-> Warned, annotated |-> Annotations, dumped |-> Dumped]]

\* A check nobody opened, or nobody knows of, is created to be concluded.
FinalizeCheck ==
  /\ report = "check"
  /\ \/ CallWorks /\ check' = FinalBody
     \/ CallFails /\ UNCHANGED check
  /\ report' = "comment"
  /\ UNCHANGED <<legVars, known, view, comments, opener, rows>>

\* render_final_pr_comment
FinalWord == IF Aggregate = "success" THEN "passed" ELSE "failed"

FinalComment ==
  /\ report = "comment"
  /\ Upsert(FinalWord)
  /\ report' = "done"
  /\ UNCHANGED <<legVars, check, known, view, opener, rows>>

-----------------------------------------------------------------------------

TaskStep(s) ==
  \/ TaskWrites(s) /\ UNCHANGED reportVars
  \/ faults + deaths < MaxTroubles /\ TaskDies(s) /\ UNCHANGED reportVars
  \/ RenderProgress(s)
  \/ PostProgress(s)

Finished ==
  /\ planned = "failed" \/ report = "done"
  /\ UNCHANGED vars

Next ==
  \/ OpenGate \/ CreateCheck \/ StartedComment \/ PersistStarted \/ Launch
  \/ \E s \in Slots : TaskStep(s)
  \/ LoadSummaries \/ FinalizeCheck \/ FinalComment
  \/ Finished

Spec == Init /\ [][Next]_vars

-----------------------------------------------------------------------------
(* Properties                                                              *)

TypeOK ==
  /\ LegTypeOK
  /\ check \in [state : {"none", "open"} \cup Conclusions, rows : [Legs -> Statuses], scores : SUBSET Legs,
                lists : [named : SUBSET Legs, warned : SUBSET Legs,
                         annotated : 0 .. MaxAnnotations, dumped : SUBSET Legs]]
  /\ known \in BOOLEAN /\ faults \in 0 .. MaxTroubles
  /\ view \in [Slots -> [rows : [Legs -> Statuses], scores : SUBSET Legs]]
  /\ comments \in Seq(Gate \cup {"other"})
  /\ opener \in {"idle", "create", "comment", "persist", "done"}
  /\ report \in {"idle", "check", "comment", "done"}
  /\ rows \in [Legs -> Results \cup {NoResult}]

\* What the hooks of a leg deserve, said without the code.
Deserved(l) ==
  IF wrote[l] # NoResult /\ wrote[l].raises = "no" /\ (wrote[l].failed = 0 \/ Tolerant[l])
  THEN "pass" ELSE "fail"

\* The check is green exactly when every leg of the plan ran to a summary in
\* which no hook raised and its plugin accepts the cases, and says so of each
\* leg: a failing one is named with its reason, a tolerated failure is
\* warned of, and the scores per file are there exactly when it was scored.
\* (github_reporting.py:375, presentation.py:862.)
ReportIsTruthful ==
  Concluded =>
    /\ check.state = "success" <=> PlanLegs # {} /\ \A l \in PlanLegs : Deserved(l) = "pass"
    /\ \A l \in PlanLegs :
         /\ check.rows[l] = Deserved(l)
         /\ l \in check.lists.named <=> Deserved(l) = "fail"
         /\ Deserved(l) = "pass" /\ wrote[l].failed > 0 => l \in check.lists.warned
         /\ l \in check.scores <=> wrote[l] # NoResult /\ wrote[l].raises \in {"no", "execute"}

\* A green check has no failing leg behind it: the coordinator loads the
\* summary of every leg. (docs/architecture.md:320.)
GreenHidesNoLeg ==
  check.state = "success" => \A l \in PlanLegs : Deserved(l) = "pass"

\* When GitHub answers, the newest comment of the gate tells the verdict of
\* the check, also behind more comments than the search looks at and with a
\* comment of an earlier push in front. (reporting.py:203.)
NewestCommentIsVerdict ==
  report = "done" /\ faults = 0 =>
    \E i \in Marked :
      /\ \A j \in Marked : j <= i
      /\ comments[i] = IF check.state = "success" THEN "passed" ELSE "failed"
=============================================================================
