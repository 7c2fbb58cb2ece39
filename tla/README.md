# A TLA+ model of the BMT gate

BMT runs benchmark tests for a pull request on Google Cloud and reports one
gate (a GitHub check and a commit status) back to it.  The modules here model
the protocol between GitHub Actions, Google Workflows, Cloud Run, the bucket
and GitHub that produces that gate, and the tools that put into the bucket and
into the repository what the gate runs on.  The TLC configurations check the
modules on small instances; the proof modules prove the properties that can be
proved for every instance.

    tlc -config PrRegistry_contention.cfg MCPrRegistry     # check a run
    tlapm ShipProofs.tla                                   # check proofs

`PROJECT.json` lists the runs with their modules.  Paths below are relative to
the repository (`src/` is its root).

## 1. The system

| Component | State it keeps | Operations | Modules |
|---|---|---|---|
| PR dispatch and registry (`ci/cloud_bmt/workflow_dispatch.py`, `pr_run_registry.py`, `gcs.py`, `workflows_api.py`, `github.py`) | `triggers/pr-active/<owner>/<repo>/pr-<n>.json`, an object with a GCS generation | supersede the prior run (cancel execution, close check), start an execution, claim the record by compare-and-swap; operator cleanup | `PrRegistry`, `ActiveRun` |
| PR lifecycle in the runtime (`runtime/pr_lifecycle.py`, `planning.py`) | reads the registry through the mounted bucket; writes the check id into it | authority check of every mode, patch of the check id | `PrLifecycle` |
| Orchestration (`infra/pulumi/workflow.yaml`, `__main__.py`) | the step of an execution; attempts of a container | plan, standard tasks, heavy tasks, coordinator; `except` leads to finalize-failure; connector timeouts; `max_retries` | `Pipeline`, `LegRun` |
| Runtime modes (`runtime/entrypoint.py`, `artifacts.py`) | `triggers/plans`, `reporting`, `summaries`, `progress` | `run_plan_mode`, `run_task_mode`, `run_coordinator_mode`, `run_finalize_failure_mode`, cleanup | `Pipeline`, `LegRun` |
| Leg execution, plugin host, SDK (`runtime/execution.py`, `planning.py`, `sdk/bmt_sdk`) | the frozen plan; a leg's outcome | discovery of legs, profile of a leg, hooks of a plugin and what their exceptions become | `LegRun` |
| GitHub reporting and presentation (`runtime/github_reporting.py`, `runtime/github/*`) | the check, the commit status, the comment, `github_publish_complete` | create, progress, finalize, close, last resort; what the bodies say | `Pipeline`, `PrLifecycle`, `GateReport` |
| Results pointer (`runtime/artifacts.py`, `entrypoint.py`) | `current.json`, `snapshots/<run_id>/` of a results path | write a snapshot, move the pointer, prune | `ResultsPointer`, `Baseline` |
| Baseline resolution (`runtime/baseline/`, `ci/cloud_bmt/baseline_cli.py`) | `stable_baseline.json` | promote a snapshot; find the baseline of a leg | `StableBaseline` |
| CI matrix and runner publication (`ci/cloud_bmt/matrix*.py`, `runner*.py`, `handoff.py`) | the runner bundle, `runner_meta.json`, `.previous`, upload markers | classify, publish, accept; rotate on release; the pin of a leg | `RunnerGate` |
| Handoff failure fallback (`.github/actions/bmt-*`, the handoff workflow) | the commit status | prepare, classify, override, dispatch, infra skip; timeout command | `HandoffGate` |
| Dataset importer (`tools/remote/bucket_upload_dataset.py`, `runtime/importer.py`, `ci/cloud_bmt/handoff_dataset.py`) | the objects of a dataset prefix, `dataset_manifest.json`, staged archives | upload, import, promote, transfer, validate, list; the check of the handoff | `Dataset` |
| Bucket tools and release marker (`tools/remote`, `tools/shared`, `tools/bmt`, `ci/cloud_bmt/release_marker.py`) | the staged sources in the bucket, `runtime_seed_manifest.json`, `release.json` | deploy, release, publish, sync | `RuntimeSeed` |
| `just ship` and the image (`tools/cli/ship_cmd.py`, `tools/repo`, `infra/docker`) | the image under `:latest` and under commit tags | test, preflight, deploy, gate-verify, build, push | `Ship` |
| Repository variables (`tools/repo/gh_repo_vars.py`, `tools/pulumi`, `infra/bootstrap`) | the variables, `bmt.tfvars.json`, the stack, the branch rules | check, apply, `just pulumi`, bootstrap, ruleset script | `RepoVars` |
| Local facade (`runtime/facade.py`) | none | a local run of the modes | not modelled |

How they meet.  A handoff job decides which projects have a runner
(`RunnerGate`) and a dataset (`Dataset`), posts on the commit (`HandoffGate`),
supersedes the run named in the registry, starts a Workflows execution with a
payload (run id, `active_generation`, `force_pass`), and then claims the
registry.  The execution runs four kinds of Cloud Run jobs, which share
nothing but the bucket and GitHub.  Every mode asks `is_authoritative_for_pr`
whether its run still owns the pull request.  The plan job freezes the legs,
creates the check and stores its id; a task runs one leg, writes its snapshot
and its summary and posts progress on the check; the coordinator moves
`current.json` of every leg, finalizes the check, posts the commit status,
marks the publish complete and removes the trigger objects.  Executions of
different pull requests meet only at `current.json`, keyed by project and not
by pull request, and at the runner bundle.  Operators deploy sources, upload
datasets, promote baselines and set variables at any time beside all that.

What is hard: the registry is read in two calls and written under a
precondition by one side and without one by the other; a cancelled execution
does not stop a running container; a container may die between any two
accesses and starts again on what it left behind; finalizing the check and
posting the status are separate calls, repeated by up to four layers of last
resorts; cleanup removes the inputs a retry would need; re-runs reuse the run
id and with it every file name; manifests, metadata and markers are written
after the objects they describe, by calls that fail on their own, and are later
believed instead of the objects; nothing in the bucket is locked.

What makes each component correct:

* *registry*: claims behave as atomic increments; after a claim one execution
  is live, and it was told the generation that was claimed;
* *lifecycle*: the registry never holds something nobody claimed; a superseded
  run speaks no more once its containers are done; the last push decides;
* *pipeline*: what is published is the verdict of the summaries, the check and
  the status agree, and neither changes afterwards; executions end and checks
  do not stay open;
* *legs and report*: each leg of the plan has exactly one task; a summary has
  its snapshot; the check is green exactly when every leg deserves it; the
  newest comment is the verdict;
* *results pointer and baseline*: `current.json` names results that are there,
  and a leg is scored against nothing but a passing result;
* *runners*: an accepted project has a runner; a pinned leg runs with every file
  of its own commit's bundle; what the metadata list is what the objects are;
* *handoff*: the gate is decided, an override never turns red, and a verdict
  is only replaced by what may replace it;
* *datasets*: a reported success left the members of the source; the check of
  the handoff cannot be fooled by a half import of the files it counts;
* *sources and image*: what was verified is in the bucket, the marker names
  what it serves, a ship delivers both halves of a commit;
* *variables*: success means that nothing is left to set, and a required
  variable only takes a value somebody declared.

## 2. The modules

Everywhere one step is one remote call (with the retries the code wraps around
it) or one access to the mounted bucket; an actor's locals that outlive a call
are variables; a call that may fail has a disjunct for it, and one whose answer
may be lost has another.  A counted event (a death, a failing call, a command
begun) has a bound, named in the constants.  A history variable is called so
where it is declared.

**`ActiveRun`** is the abstract registry: a generation and its owner; `Claim`
adds one and sets the owner, `Delete` resets both.  **`PrRegistry`**
implements it.  Each dispatch has a program counter through
`WorkflowDispatchManager.invoke`: `ReadPrior`, `CancelPrior`,
`ClosePriorCheck`, `ChooseGeneration`, `StartExecution`, then up to `MaxCas`
rounds of `ClaimReadGeneration`, `ClaimReadBody` and one of `ClaimSucceeds`,
`ClaimConflicts`, `ClaimAckLost` (the upload is applied, the answer lost) and
`ClaimWriteFails`.  A GCS generation is a number never used twice, 0 when there
is no object.  Faulty dispatches may die between any two calls (`HandoffDies`)
and have calls fail; under `ReadsFail` a download fails too, which
`read_record` turns into "no record".  `base` is a history variable for
`ExhaustionNeedsContention`.

**`PrLifecycle`** EXTENDS `PrRegistry` with the jobs of the executions.  The
authority checks and the two halves of `patch_registry_check_run_id` are
separate steps; files named after the run id are shared by re-runs (`RunOf`).
Publishing is one step here.  `Calm` restricts the interleaving to "no job
runs while a handoff is in flight", the condition under which the lifecycle
keeps its promises.

**`Pipeline`** is one execution that stays authoritative.  `wf` is the step of
`bmt-workflow`; `stage` and `round` say where the running control container is
(round 1 is the publish in the coordinator's `try`, 2 the one in its
`finally`, 3 and 4 the two attempts of `publish_github_failure`); tasks run
beside it.  `raised` says that the coordinator's `try` was left by an exception,
which leaves the container after the `finally`, non-zero, whatever that has
published (`ControlJobEnds`).  A check whose id was not persisted is counted in `strays` once
another is created.  `forced` (`force_pass`) and `harsh` (connector timeouts
and failing removals happen) are chosen in the initial state.

**`LegRun`** has the plan and the tasks: which manifests of the stage become
legs and under which profile (`PlannedLegs`, `PlanRaises`, a request that is
no list of legs included), which task of which
job takes which leg (`TaskLeg`), what the hooks of a plugin make of it
(`LegResult`, through `Executed`, `Scored` and `Evaluated`, the chain along
which the flag of a raised `execute` has to travel), and the eight writes of a
task.  **`GateReport`** EXTENDS it with what the pull request reads: the rows
of the check, its lists of failing and of tolerated legs, the scores of files,
annotations and log dumps, and the comment that is searched, edited or created.

**`ResultsPointer`** refines **`Baseline`** (a register of the latest and the
last passing run): tasks write snapshots and summaries, and the coordinator
reads `last_passing`, reads the ids of the pointer, writes it, lists the
snapshots and removes them one by one, dying and starting over in between.
**`StableBaseline`** EXTENDS it with `baseline promote` and with the three
reads a leg makes to find its baseline (the record twice, then the score).

**`RunnerGate`**: CI runs, tag releases and bootstraps publish the runner of a
project.  Each commit builds its own set of files (`Builds`), and nothing
deletes from the prefix what a later bundle lacks.  `StartCi`, the classification, the loop over the files with its rows
of the last metadata, the metadata, the upload marker and the acceptance are
steps; a release rotates the bundle to `.previous` first; a leg later checks
the pin and reads the bundle.  `bmt gate verify` reads the same objects, project
by project, while uploads go on.

**`HandoffGate`**: the attempts of a handoff on one commit, each through
`Prepare`, `PostPending`, `Classify`, `ForcePass` or `Invoke` and `Claim`, and
the fallback, against the executions, which ask for authority when they plan
and when they publish (`PlanMode`, `RunEnds`), and the timeout command.
`record` is the registry record by attempt and generation, perhaps one of an
earlier commit; `plan` the plan file that the attempts of one workflow run
share; a handoff may be cancelled anywhere (`Cancel`).

**`Dataset`**: commands of seven kinds (a folder with and without `--force`, a
file, an archive, two promotions, a Drive transfer) with the import job and its
attempts, and the dataset check of the handoff, which counts the `.wav` members
(`Wavs`) while manifests list all of them.  A member's content is its size,
which is all the code compares.

**`RuntimeSeed`**: the sources in the bucket, written by deploys, releases,
publications and syncs of several operators; `mode` (chosen once) says what
the history may do.  **`Ship`** EXTENDS it with `just ship`, whose deploy step
is the deploy of `RuntimeSeed`, and with the image.

**`RepoVars`**: `check` and `apply` with the desired state they compute
(`Compare`, `Origin`, `ResolveContexts`), `just pulumi`, the bootstrap script,
and what people edit in between.

The `MC*` modules only define values given to constants.  Operators whose
comment says *Mutant* are deliberate mistakes: replacing the operator they name
by one of them must break the property `PROJECT.json` pairs it with.  They
occur in no specification.

## 3. The runs

| Run | Instance | Shows |
|---|---|---|
| `registry_contention` | 2 concurrent handoffs, one faulty, 2 operator deletions, `MaxCas = 3` | `TypeOK`, `NoStaleClaim`; refinement of `ActiveRun` (`ClaimsAreAtomic`); `HandoffsTerminate` |
| `lifecycle_races` | 2 handoffs and their jobs, one faulty, unreadable records, a deletion, any interleaving | what survives every race: `RegistryHoldsAClaim`, `SupersededStaysQuiet` |
| `lifecycle_calm` | 3 pushes, serial and calm | `ClaimMatchesPayload`, `ClaimantRunsAlone`, `OnlyActiveRunHasOpenCheck`, and `ActiveRunDecides` under fairness |
| `pointer_serial` | 4 runs one after the other, one re-run, 2 dying containers, a promotion | `PointerNamesSnapshots`, `BaselineIsPassing`, refinement of `Baseline` (`PointerIsRegister`) |
| `pipeline` | 2 legs (standard, heavy), 2 deaths, 3 failing calls, forced or not; connector timeouts and failing removals with 2 failing calls | `TypeOK`, `NoSplitBrain`, `PublishedIsVerdict`, `VerdictIsFinal`, and under fairness `OpenCheckIsConcluded`, `ExecutionEnds` |
| `runner_gate` | a CI run, a run of another context or without `SOURCE_REF`, a release, bootstrap or verify; 2 file names, bundles with one or both | `AcceptedHasRunner`, `PinnedLegRunsItsCommit`, `MetaDescribesBucket` |
| `handoff_gate` | 2 attempts on one commit, of one workflow run or two, with or without the record of an earlier commit; one lost post, cancellations | `ForcedGateNeverFails`, `VerdictStands`, `GateIsDecided` under fairness |
| `dataset` | 2 `.wav` members and another file, 2 commands of any kind, 2 attempts of the import job | `SuccessfulUploadIsComplete`, `AcceptedMatchesManifest`, `UploadsEnd` under fairness |
| `ship` | 2 operators, 2 commits, the projects `sk` and `skyworth`, 3 runs, 2 overlapping, 1 failing call | `SeedArrived`, `VerifiedSeedIsInBucket`, `AdmittedCommitIsServed`, `ShipDelivers` |
| `repo_vars` | 2 operators, 2 deployments, 2 contexts, 2 tool runs, one failure, edit or overlap | `SuccessIsSynced`, `RequiredIsDeclared` |
| `gate_report` | up to 2 legs of either profile, 2 deaths, 2 troubles | `TypeOK`, `LegsHaveTasks`, `SnapshotMatchesSummary`, `ReportIsTruthful`, `NewestCommentIsVerdict` |
| `sync_wipes` | as `ship` | `SyncStaysInItsProject` is violated (section 5) |

The runs set `CHECK_DEADLOCK FALSE` because handoffs, executions, commands and
tools end and everything bounded is used up; a state where all have ended has
no successor.  `gate_report` checks for deadlock: there only a finished plan
stutters.  That actors do not stop before their end is what
`HandoffsTerminate`, `ActiveRunDecides`, `ExecutionEnds`, `GateIsDecided` and
`UploadsEnd` say.

Each module states its type invariant, and section 4 proves it for every
instance; in `PrRegistry`, `Pipeline` and `GateReport` a run checks it too.

### Bounds

* `MaxCas` is 3 or 2 (5 in the code): a conflict, a retry and giving up all
  happen.
* 2 dispatches where handoffs, or handoffs and jobs, interleave freely: every
  race found is between a run and the next, and a handoff whose answers get
  lost writes as often as several would.  3 where they are serialised: a
  record can be superseded twice.
* `MaxCleanups`: operator deletions; one makes a generation reappear, two let
  the object change under a claim `MaxCas` times.
* 4 results-path runs: the pointer names two of them and the prune meets a
  third; the fourth starts when all that has happened.  They carry no order, so
  permuting them is sound (only safety properties are checked there).
* `MaxRetries = 1` is the `max_retries` of the Cloud Run jobs.
  `MaxCrashes = 2` uses a job's retry up and fails it; with one failing call
  after the plan it is also enough to fail the finalize-failure job.
  `MaxFaults = 3` fails the publish in three of the four rounds, and
  `MaxHarshFaults = 2` keeps the histories with connector timeouts finite in
  practice.
* `OpenCheckIsConcluded` names its own bound: beyond one dying container and
  one failing call all last resorts can be defeated (a passing run whose
  publish keeps failing is given up on).
* `Attempts = 2` of a handoff: the one whose verdict is at stake and one that
  comes after it; what an earlier commit left is in the initial record.
* 2 commands on a dataset: the one under test, and whatever came before it or
  overlaps with it.  Two `.wav` members are the least of which a part can be
  there; the four sources differ in what they list, in a member's content, and
  in whether a file that is no `.wav` is among them.
* 2 operators and 3 runs of the tools on the bucket: a deploy, what disturbs
  it, and the deploy after both.  Two projects are enough, with names of which
  one begins with the other.
* `MaxEvents = 1` of `repo_vars` counts failures, edits and overlaps together:
  each property is about a run nobody disturbs, and one event before it
  already gives every state it may begin in.  The override files declare
  nothing, the absence of two variables, or values for them that contradict
  the stack and the branch rule.
* `Stages`, `Before`, `Requests` and `Raising` of `gate_report` select the
  plans, the comments found at the start, the labels of the request and the
  hooks that raise; `ScanLimit = 2` and `MaxAnnotations = 1` (100 and 50 in the
  code) are exceeded in the instance.  `MaxTroubles` bounds deaths and failed
  GitHub calls together.

The proofs of section 4 have none of these bounds.

### Fairness

Weak fairness per actor only: the runner executes a handoff job it has
started, Workflows takes the next step of an execution, Cloud Run runs a
container it has started, a task ends its leg (the code bounds it by the task
timeout), a command runs until it returns.  No failure, cancellation, death,
deletion, re-run, edit or push is fair, and no GitHub call has to succeed.
`RuntimeSeed`, `Ship`, `RepoVars`, `RunnerGate`, `ResultsPointer` and
`GateReport` state no fairness: everything they promise is safety.

## 4. The proofs

Eight modules prove theorems about the modules they extend, for every value of
the constants that satisfies the named assumptions beside their declaration.
Each goes the same way: `Types` (the type invariant with `tool`, `op`, ... as
functions into a record set), then the facts that make the property inductive,
one lemma per action, and one temporal step.  Where a property quantifies over
pairs of actors, the lemma about a step says what it does to its own actor and
that it leaves the others alone.

**`LifecycleProofs`**, on `PrRegistry`:

* `TypeCorrect`: `Spec => []TypeOK`.
* `ClaimsAreFresh`: `Spec => []NoStaleClaim`.  `NoStaleClaim` is not
  inductive.  `ClaimInv` adds what a pending claim has read (`PendingClaim`)
  and what the object's generation means (`ObjectGeneration`): generation 0
  means no object, a generation that was read never exceeds the number of
  writes, hence a later write makes the read stale for good, and a claim that
  saw no object starts at 1, hence stays right after a deletion.
* `ClaimsImplementRegister`: when downloads work, `Spec` implements
  `ActiveRun`.  Every step leaves generation and owner alone, is a deletion,
  or is a successful write, which by `ClaimInv` is a `Claim`.
* `ExhaustionIsContention`, with `LostAttempts`: every attempt lost so far, and
  the one about to be lost, is paid for by a change of the object since the
  loop was entered.
* `PayloadIsClaimed` and `OneActiveExecution`: with serialised handoffs, calls
  that work and no deletion (`Undisturbed`).  `SerialInv` says that one handoff
  is in flight, that what it has read of the registry is still so, and that
  past its cancel call no other execution is active.

and, with the jobs, on `PrLifecycle`:

* `LifecycleTypeCorrect` and `RegistryHoldsClaims`, on top of `ClaimInv`.
  `PatchInv` says of a plan job between its read and its write that the record
  it is about to write back is one somebody claimed, with a check its own run
  created; `HeldInv` says the same of the registry and of every record a
  handoff holds.
* `SupersededRunsFallSilent`, with no restriction on what races or fails: the
  files of a run name only dispatches of that run (`FilesInv`), so that no
  other run touches its check; each job that starts asks the registry, which
  names another run (`StartsAreAuthorized`); and a plan job of another run
  writes back only a record of its own (`PatchInv`).
* `ClaimsMatchInCalm`, `ClaimantAloneInCalm` and `OneOpenCheck`: what
  `lifecycle_calm` checks, for any number of pushes, under `CalmDays`:
  `Undisturbed`, `Calm`, and `OneRunEach` (no dispatch is the re-run of
  another).  None of the three is inductive: that a check is the one the registry names depends on the plan
  job having patched it, which depends on what it read, which depends on no
  handoff being in flight.  `CalmInv` therefore joins `SerialInv` with
  `JobsInv` (a job that runs belongs to the execution of the claim, and the
  record it is about to write is the registry), `MetaInv` (the metadata of a
  run name its own check, and so does the registry once the patch is through)
  and `ChecksInv` (an open check is the one the claim names, and none is open
  between the closing of the prior and the next claim).  `OneRunEach` is a real
  restriction: a re-run finds a check in the metadata, does not patch it into
  the registry, and `OnlyActiveRunHasOpenCheck` fails (section 5).  `Calm` and
  `Undisturbed` are restrictions of the environment that nothing in the code
  enforces; section 5 has what happens without each.

**`PointerProofs`**: `PointerTypeCorrect`, and without overlap
`PointerNamesResults` and `PointerImplementsRegister`.  `SerialInv` ties the
stages of the one coordinator under way to the pointer: what it has read is
still there, what it is about to write has a snapshot, what it is about to
remove is not named.  On top of it `BaselineTypeCorrect` and `BaselinesPass`
with `BaselineInv`: the record, once promoted, names a run that passed.

**`GateProofs`**, on `HandoffGate`: `GateTypeCorrect`; `ForcedGateIsGreen` with `ForceInv`
(once the override is on, nothing has been or will be dispatched);
`SkipSparesConfirmedRuns` and `VerdictsStand` with `GateInv`: what each attempt
has done (`Attempted`) and who can have posted what the status shows
(`Posted`, for which `PublishesOwnRecord` says that outside one workflow run an
execution that publishes under a record is the one the record names).  On `Pipeline`: `PipelineTypeCorrect`, `GateSpeaksWithOneVoice`
(`NoSplitBrain`), `PublishedVerdicts` and `VerdictsAreFinal`, for any set of
legs and any bounds on deaths and faults.  The check and the status are posted
by separate calls of up to four rounds, so that they agree follows from
something stronger: each agrees with the summaries on disk, as long as those
are kept.  `PipelineInv` says so (`Decided`), and what it takes: a container is
where its mode can be (`StageOfJob`), no task runs beside the publisher
(`TasksQuiet`), and what the publisher holds is what is on disk, down to the
cleanup that removes the plan first (`WorkingCopy`).  Under the override there
is no verdict to agree with; what holds is that the check is never open, and
that half of `NoSplitBrain` is proved for executions with connector timeouts as
well.  The proof found two
mistakes of the model, both corrected: a control container that had used up its
retries could fail at a stage its mode does not have, and the last resort could
skip the closing of an open check.

**`ReportProofs`**, on `LegRun` and `GateReport`:

* `ReportTypeCorrect` and `EveryLegHasItsTask`.  `_task_leg` takes the n-th leg
  of its profile, and the workflow starts as many tasks as the plan counts.
  That the two fit is a fact about positions in a sequence; induction is out of
  reach, so `Nth` is defined by how many such legs come before, and the lemmas
  show by cardinalities of finite sets that this rank is one-to-one and leaves
  no gap.
* `SummaryPromisesSnapshot` (`SnapInv`: what of a leg's files is written and
  equal to the result at each step of its task, attempts before this one
  included) and `TheCheckIsTruthful`, with `WroteInv` (a summary is what the
  hooks of the attempt that wrote it made of the leg) and `PublishInv` (what
  the publisher has loaded is what the bucket holds from then on, and its check
  is the last word).  Both assume `OwnNames`, that no two legs have the same
  summary file.  The code does not check it; `GateReport_collision` (section 5)
  is what happens otherwise, and `GreenMeansAllPassed` shows that it is the
  only way: under `OwnNames` the promise broken there holds for every instance.
* `NewestCommentTellsVerdict`.  The search for the comment looks at
  `ScanLimit` comments from the oldest on.  Its assumption on the comments of
  earlier pushes (`Tidy`: a comment of the gate within reach of the search is
  the last one of the gate) is weaker than "at most one", and
  `CommentsStayTidy` shows that a run leaves them so to the next push as long as
  GitHub answers.

**`RunnerGateProofs`**: `RunnerTypeCorrect`, `AcceptedProjectsHaveRunners`
(`BinaryInv`: the markers and classifications that lead to acceptance imply the
object), and for calm histories `MetadataDescribeTheBucket` and
`PinSelectsOwnBundle`.  `RunnerInv` adds where an upload is in its list of
files (`CursorInv`), that one upload is under way (`CalmInv`), how far the
bucket is ahead of its metadata (`BucketInv`, with `Halfway`), and whose bundle
a pin names (`PinInv`).  A commit may build any set of files: what is proved is
that the files it did build are there, not that nothing else is.

**`ShipProofs`**: `ShipTypeCorrect`; `ManifestListsWhatArrived` (`ArrivedInv`:
a deploy about to write its manifest has copied what it lists);
`VerifiedMeansInBucket` (`CopyInv`, `TagInv`, `SeedInv`); `AdmittedMeansServed`
(`OrderInv`: one operator at a time, a deploy between marker and copy has the
bucket to itself, and between releases the marker's commit is the one served);
`ShipsDeliver` (`ShipInv`: unless commands overlap, a ship has the bucket and
the registry to itself from the decision about the image to its last step, so
that the tag it found, or the stage its deploy verified, is still there when it
is done; with clean trees and working calls a tag has only the image of its
commit).

**`DatasetProofs`**: `DatasetTypeCorrect`; `UploadsDeliver` and
`LegsReadTheManifest`.  `ShapeInv` says which steps a mode goes through and
that what remains to be transferred belongs to the source; `CalmInv` that only
the last command moves and how far its source has arrived (`Progress`);
`ListingInv` that a listing names what was there, as long as members only come;
`LookInv` that nothing moves between the listing of the handoff and the reading
of the leg.  Both theorems then rest on one lemma, `SameMembers`: a finite set
that holds another and is no larger is that set.  This is why comparing
numbers is enough, as long as both numbers count the same kind of files: for
the handoff, which counts `.wav` objects, under a manifest of `.wav` files
(`SameAudio`).

**`RepoVarsProofs`**: `RepoVarsTypeCorrect`, `RequiredComesFromDeclaration` and
`ApplyConverges`.  `Backed` says where every value a tool holds comes from as
long as nobody disturbs it; `Planned` and `Exported`, how far the repository is
on the way from what `apply` or the export has read to what it wants.
`DesiredIsStable` is the core: after the writes the comparison, which reads its
own result back as `current`, comes to the same wishes, whatever the branch
rule requires.  An apply that returns early has nothing to set; the theorem
says of it no more than that.

`PipelineInv`, `CalmInv`, `ShipInv` and the invariants of `ReportProofs` were
checked by TLC on the instances of their runs before they were proved.

What is only model-checked: the liveness properties (`HandoffsTerminate`,
`ActiveRunDecides`, `OpenCheckIsConcluded`, `ExecutionEnds`, `GateIsDecided`,
`UploadsEnd`), since reasoning under fairness and ENABLED is outside the
prover.  Every other property of a passing run has a theorem, under the
hypotheses named here or stated in the property.  Two of these are worth knowing: the theorems named
*InCalm* and their neighbours are about `CalmDays`, those about the report
about plans without shared summary files.

## 5. Where the code does less than it says

`sync_wipes` is the run `PROJECT.json` lists for this: the sync of a project
(`tools/shared/gcs_sync.py:62`) lists blobs by a prefix without its slash and
deletes what it does not find locally, so syncing `sk` deletes the objects of
`skyworth`.

The following configurations are run by hand
(`tlc -config <cfg> <MC module>`); each violates the property named.

| Configuration | Property | What happens |
|---|---|---|
| `PrLifecycle_selfskip` | `PlanSkipsOnlyWhenNewer` | the execution starts before the claim (`workflow_dispatch.py:164`), so a fast plan job finds the older record and takes its own run for superseded |
| `PrLifecycle_reopen` | `ClosedCheckStaysClosed` | a task that is in its container when its run is superseded posts progress without asking again (`github_reporting.py:275`) and reopens the check the newer handoff closed |
| `PrLifecycle_rollback` | `GenerationNeverDecreases` | the plan job writes the registry record back without a precondition (`pr_lifecycle.py:89`) and can undo a newer claim |
| `ResultsPointer_firstrun` | `FirstRunHasNoBaseline` | the prune keeps what `current.json` names (`entrypoint.py:380`) and not what the stable baseline names: two passing runs later its score is gone and a leg is reported as a first run |
| `Pipeline_halfpublished` | `CleanupAfterBothPublished` | when the commit status fails twice, the last resort finds the check completed, marks the publish complete (`github_reporting.py:465`), and the triggers are removed without a commit status |
| `Pipeline_unforced` | `ForcedGateIsUpdated` | under `force_pass` the check never turns to failure (`github_reporting.py:376`) |
| `HandoffGate_skip` (module `HandoffGate`) | `SkipMeansNoDispatch` | the answer to the start is lost, the handoff fails, and the infra skip posts success while the execution runs |
| `HandoffGate_beaten` (module `HandoffGate`) | `DispatchedGateIsDecided` | over the record of an earlier run the plan job asks before the claim has landed: it ends in silence and the gate stays pending |
| `RunnerGate_leftover` | `PinnedBundleIsClean` | an upload deletes nothing (`runner.py:660`): a library that an earlier bundle had and this one has not is loaded with it |
| `Dataset_mixed` | `AcceptedIsListed` | `.wav` objects are counted (`handoff_dataset.py:87`) and compared with the length of a list of all objects (`gen_input_manifest.py:97`): a `.wav` of a broken import makes up for a listed file that is none |
| `RepoVars_early` | `AppliedIsAccepted` | with nothing to set, `_apply` returns 0 before it deletes (`gh_repo_vars.py:719`), while its docstring says "delete absent vars" |
| `RepoVars_bootstrap` | `BootstrapReportsFailures` | `rc=$?` behind `if ...; fi` is 0 (`bootstrap_gh_vars.sh:154`): a variable that could not be set counts as set |
| `GateReport_collision` | `GreenHidesNoLeg` | summaries are named `{project}-{slug}.json` (`artifacts.py:45`): two legs whose names join to the same file share a summary, and a failing one disappears |

Other limits are assumptions of the passing runs, and changing the constant
makes TLC show the consequence:

| Assumption | Without it |
|---|---|
| `Faulty = {}` in `lifecycle_calm` | a handoff killed between `start_execution` and the claim leaves an execution that no later handoff cancels (`ClaimantRunsAlone`) |
| `ReadsFail = FALSE` in `registry_contention` | a record that cannot be downloaded counts as absent, and a claim resets the generation to 1 (`ClaimsAreAtomic`) |
| `Calm = TRUE` in `lifecycle_calm` | a container of a superseded run opens or reopens its check behind the back of the newer handoff (`OnlyActiveRunHasOpenCheck`) |
| `RunOf <- ThreeRuns` in `lifecycle_calm` | with `RerunAndPush`, the re-run reuses the metadata and never patches its check into the registry, so a later push cannot close it (`OnlyActiveRunHasOpenCheck`) |
| `OneAtATime = TRUE` in `pointer_serial` | overlapping coordinators write back an older `last_passing` (`PointerIsRegister`), and a prune removes the snapshot another run has just made current (`PointerNamesSnapshots`) |
| `NotRerun` in the pointer's properties | a failing re-run overwrites the snapshot that `last_passing` names |
| `~harsh` in the properties of `pipeline` | the connector timeout (3900s) covers one attempt of a task (3600s) and not two: the coordinator starts while a restarted task runs, whose progress may reopen the finalized check; and the plan survives a cleanup that fails half way while the summaries do not, so that a retry of the coordinator turns the gate around |
| `calm` in the properties of `runner_gate`, `dataset` | concurrent pull requests overwrite each other's bundle and metadata; a command that stops waiting deletes the archive while the job runs |
| `mode` in the properties of `ship` | a deploy beside releases replaces sources while `release.json` still names the release's commit |
| `Silenced` in `GateIsDecided` | an attempt that is superseded before its claim lands, or cancelled before it starts an execution, leaves the gate as it is |
| `Present(gate.told) \subseteq Wavs` in `AcceptedMatchesManifest` | equal numbers do not mean equal sets (`Dataset_mixed`) |
| `o \notin disturbed` in `repo_vars` | a forced `apply` that could not read the stack writes stale values over a concurrent export |

What a reader of the modules may stumble on, and is in the code:

* A runner whose bytes did not change keeps the `source_ref` of the commit that
  first uploaded it (`runner.py:684`), and the pin then refuses it although the
  upload succeeded; `runner_gate` has it, the pin property is about legs that
  pass.  The pin is only checked for the run contexts `""` and `"ci"`
  (`execution.py:86`), never for `pr` or `dev`, and an empty `source_ref`
  passes it.
* A re-run of a handoff whose runner exchange is unavailable posts the infra
  skip over an earlier verdict of the same commit; `VerdictStands` lists it
  among what may replace one.
* The Drive transfer writes no manifest: its heredoc replaces the pipe it reads
  the listing from (`transfer_entrypoint.sh:92`).  `prefix_stats` counts the
  manifest and the neighbouring datasets, so importing again onto a prefix that
  has one fails its validation.
* A folder of the same count and bytes is taken for synced
  (`bucket_upload_dataset.py:458`).
* A handoff that cannot read the manifest accepts any dataset with a `.wav`.
* A deploy is skipped, and verified, by the manifest and not by the objects
  (`bucket_sync_runtime_seed.py:105`); it never deletes.
* `gate_verify._list_manifest_legs` keeps names of two parts, which those of
  the bucket never have, and passes with nothing compared; the recipe `just
  ship` calls for it does not exist, so that `ship` ends there unless it is
  told to skip the step.
* An `apply` with `BMT_PRUNE_EXTRA`, too, returns early when nothing is to be
  set; and the export of `just pulumi` is skipped whenever the stack reports no
  changes, also after an export that failed
  (`pulumi_apply.py:138`).  The bootstrap script sets a variable no contract
  has, which such an `apply` deletes again.

## 6. Abstractions

* A payload is a model value, a verdict one of two values.
* A GitHub call stands for its retries: it succeeds, fails, or is applied and
  reported failed.
* `read_object_with_generation` (reload and its not-found branch) is one step;
  the body is read by a second one, as in the code.
* The mounted bucket is taken to be as consistent as the object store: a write
  is visible once the call returns.
* `Pipeline` leaves authority out and `PrLifecycle` leaves the steps of the
  publish out; the commit status is only in `Pipeline` and `HandoffGate`.
* `ResultsPointer` is one results path.  A task that dies may already have
  rewritten the snapshot of a passing run.
* `RunnerGate`, `Dataset` and `RuntimeSeed` tell contents apart by model values
  or by their size, as far as the code does (digests, sizes).
* `Dataset` has one prefix; `neighbour` stands for the objects of datasets
  whose name begins with it.  The local mirror is left out.
  `SuccessfulUploadIsComplete` leaves out a folder without `--force`, which may
  be skipped for looking synced.
* `GateReport`: the rows of one progress post are read in one step, standard
  legs come before heavy ones, and there is at most one marker comment at the
  start.  Estimated times, the layout of tables and the lists of files are left
  out; the lists of legs, the annotations and the conclusion are not.
* `RepoVars` keeps two of the nine required variables, one whose value has to
  fit the other's; the context a branch rule requires is drawn from two.  What
  `gcloud` knows of a provider is a choice.

## 7. Not modelled

* The arithmetic of scores (`runtime/scoring_policies.py`), the choice among
  version tags (`runtime/baseline`), the parsing of presets and manifests, and
  the wording of every body: functions of their inputs without state.
* The framing of the plugin worker's requests (`runtime/plugin_host`): a leg
  runs its plugin in the process of the task unless a caller asks for a worker.
* `runtime/facade.py`, linters of the layout, scaffolding, listing and
  inspection commands: sequential, and nothing else depends on what they leave.
* The warnings of `gate_verify`: they change neither its verdict nor any state.
  Its errors about datasets and plugins are a choice in `VerifyOutcomes`.
* IAM, buckets, secrets and images: declarations.
* `patch_check_run_id`, `periodic_check_run_progress`, `render_results_table`
  and `statuses.finalize_check_run` have no caller.

Worth adding next: overlap of executions of two pull requests in one module
(`ResultsPointer` has it with `OneAtATime = FALSE`, without the registry), and
a bound on what is lost outside of `CalmDays` (a theorem saying how many checks
a series of dying handoffs can leave open, say).
