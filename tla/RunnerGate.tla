----------------------------- MODULE RunnerGate -----------------------------
(***************************************************************************)
(* The runner binaries of the gate: CI runs classify their release presets *)
(* against the bucket, publish what is missing, accept the projects whose  *)
(* runner is there and hand them off; the leg of a project later checks    *)
(* the source_ref of runner_meta.json and runs what the prefix holds.  Tag *)
(* releases rotate the prefix to `.previous' and publish over it; an       *)
(* operator may bootstrap it.  All of them write the same objects, one     *)
(* call per object, the metadata last, and no call has a precondition.  A  *)
(* commit builds the files it builds; nothing deletes those it dropped.    *)
(* `bmt gate verify' reads the bucket and says which projects are ready.   *)
(***************************************************************************)
EXTENDS Naturals, FiniteSets

CONSTANTS
  Runs,       \* CI runs, releases, bootstraps (each of its own commit), verifies
  Wants,      \* the projects in the matrix of a run
  Kinds,      \* what a run may be, out of KindNames
  Projects,
  FileCount,  \* names of files a runner bundle may hold; 1 is cloud_bench_runner
  Builds,     \* the bundles the commit of a run may build: functions from Files
  Nothing     \* no file, no object, no metadata, an empty source_ref

Files == 1 .. FileCount

\* A CI run is dispatched with the RUN_CONTEXT "ci", or with the "pr" or
\* "dev" of bmt-prepare-context (both "pr" here).  "bare" is one of the context
\* "ci" whose publish job was given no SOURCE_REF; releases and bootstraps
\* refuse to start without.
KindNames == {"ci", "bare", "pr", "release", "bootstrap", "verify"}
ContextCi(k) == k \in {"ci", "bare"}
IsCi(k) == k = "pr" \/ ContextCi(k)
NoBundle == [f \in Files |-> Nothing]

ASSUME FilesAssumption == FileCount \in Nat \ {0}
ASSUME WantsAssumption == Wants \in [Runs -> SUBSET Projects]
ASSUME KindsAssumption ==
  Kinds \in [Runs -> (SUBSET KindNames) \ {{}}]
ASSUME BuildsAssumption ==
  \A r \in Runs : Builds[r] # {} /\ \A b \in Builds[r] :
    b \in [Files -> {b[f] : f \in Files}] /\ b[1] # Nothing

VARIABLES
  calm,       \* runs do not overlap and no call fails (chosen once)
  kind, built,  \* of each run (chosen once)
  supported,  \* projects with a leg manifest in the bucket (chosen once)
  artifacts,  \* the CI run has runner artifacts
  object,     \* the files under the gate prefix
  meta,       \* runner_meta.json: [ref, files]
  previous,   \* the files under `<gate prefix>.previous'
  marker,     \* _workflow/uploaded/<run>/<project>.json
  run,        \* "idle", "filter", "verify", "publish", "legs", "over", "failed"
  leg,        \* where the leg of a run and a project is
  job,        \* locals of its publish job: [job]
  accepted,   \* the legs of the filtered matrix; what a verify found ready
  ran         \* the bundle the leg executed

inputs == <<calm, kind, built, supported>>
bucket == <<object, meta, previous, marker>>
vars == <<inputs, artifacts, bucket, run, leg, job, accepted, ran>>

Bundles == [Files -> {Nothing} \cup UNION {{b[f] : f \in Files} : b \in UNION {Builds[r] : r \in Runs}}]
Refs == Runs \cup {Nothing}
Metas == [ref : Refs, files : Bundles] \cup {Nothing}
ASSUME NothingAssumption == Nothing \notin Runs /\ Nothing \notin [ref : Refs, files : Bundles]
Uploading == {"rotate", "upload", "read", "put", "meta", "mark"}
Settled == {"skip", "nobmt", "done", "lost"}

TypeOK ==
  /\ calm \in BOOLEAN /\ kind \in [Runs -> KindNames]
  /\ \A r \in Runs : built[r] \in Builds[r]
  /\ supported \subseteq Projects
  /\ artifacts \in [Runs -> BOOLEAN]
  /\ object \in [Projects -> Bundles] /\ previous \in [Projects -> Bundles]
  /\ meta \in [Projects -> Metas]
  /\ marker \in [Runs -> SUBSET Projects]
  /\ run \in [Runs -> {"idle", "filter", "verify", "publish", "legs", "over", "failed"}]
  /\ leg \in [Runs -> [Projects -> Uploading \cup Settled \cup {"wait", "blocked", "pinned", "ran", "refused"}]]
  /\ job \in [Runs -> [Projects ->
       [cursor : 1 .. FileCount + 1, row : Bundles, sent : BOOLEAN]]]
  /\ accepted \in [Runs -> SUBSET Projects]
  /\ ran \in [Runs -> [Projects -> Bundles]]

Of(x) == [p \in Projects |-> x]

\* The next file of its loop, the metadata rows it compares with, and
\* whether it has sent a file.
NewJob == [cursor |-> 1, row |-> NoBundle, sent |-> FALSE]

Init ==
  /\ calm \in BOOLEAN /\ kind \in [Runs -> KindNames]
  /\ \A r \in Runs : kind[r] \in Kinds[r]
  /\ built \in {b \in [Runs -> UNION {Builds[r] : r \in Runs}] : \A r \in Runs : b[r] \in Builds[r]}
  /\ supported \in SUBSET Projects
  /\ artifacts = [r \in Runs |-> FALSE]
  /\ object = [p \in Projects |-> NoBundle] /\ previous = object
  /\ meta = [p \in Projects |-> Nothing]
  /\ marker = [r \in Runs |-> {}]
  /\ run = [r \in Runs |-> "idle"]
  /\ leg = [r \in Runs |-> Of("wait")]
  /\ job = [r \in Runs |-> Of(NewJob)]
  /\ accepted = [r \in Runs |-> {}]
  /\ ran = [r \in Runs |-> Of(NoBundle)]

Ended(r) == run[r] \in {"over", "failed"}
MayStart(r) == run[r] = "idle" /\ (calm => \A s \in Runs : run[s] = "idle" \/ Ended(s))
At(r, p, l) == p \in Wants[r] /\ leg[r][p] = l
To(r, p, l) == leg' = [leg EXCEPT ![r][p] = l]

-----------------------------------------------------------------------------
(* filter_upload_matrix                                                    *)

\* BMT_SKIP_PUBLISH_RUNNERS goes straight to the resolution.
StartCi(r) ==
  /\ IsCi(kind[r]) /\ MayStart(r)
  /\ \/ /\ run' = [run EXCEPT ![r] = "filter"]
        /\ \E a \in BOOLEAN : artifacts' = [artifacts EXCEPT ![r] = a]
        /\ UNCHANGED leg
     \/ /\ run' = [run EXCEPT ![r] = "publish"]
        /\ leg' = [leg EXCEPT ![r] = Of("skip")]
        /\ UNCHANGED artifacts
  /\ UNCHANGED <<inputs, bucket, job, accepted, ran>>

HasRunner(p) == meta[p] # Nothing \/ object[p][1] # Nothing

\* The outcomes _classify_supported_leg allows; the artifact of a preset may
\* be missing among those of the run.
ClassifySupportedLeg(r, p) ==
  IF ~artifacts[r]
  THEN {IF HasRunner(p) THEN "skip" ELSE "blocked"}
  ELSE {"blocked", IF meta[p] # Nothing /\ meta[p].ref = r THEN "skip" ELSE "upload"}

FilterLeg(r, p) ==
  /\ run[r] = "filter" /\ At(r, p, "wait")
  /\ \E action \in IF p \in supported THEN ClassifySupportedLeg(r, p) ELSE {"nobmt"} :
       /\ To(r, p, action)
       /\ \E ok \in {TRUE, calm} :
            marker' = IF action = "skip" /\ ok THEN [marker EXCEPT ![r] = @ \cup {p}] ELSE marker
  /\ UNCHANGED <<inputs, artifacts, object, meta, previous, run, job, accepted, ran>>

\* One blocked leg fails the handoff.
FilterEnds(r) ==
  /\ run[r] = "filter" /\ \A p \in Wants[r] : leg[r][p] # "wait"
  /\ run' = [run EXCEPT ![r] =
       IF \E p \in Wants[r] : leg[r][p] = "blocked" THEN "failed" ELSE "publish"]
  /\ artifacts' = [artifacts EXCEPT ![r] = FALSE]
  /\ UNCHANGED <<inputs, bucket, leg, job, accepted, ran>>

\* The probe of the bucket, or reading a runner, raises.
FilterFails(r) ==
  /\ ~calm /\ run[r] = "filter"
  /\ run' = [run EXCEPT ![r] = "failed"]
  /\ UNCHANGED <<inputs, artifacts, bucket, leg, job, accepted, ran>>

-----------------------------------------------------------------------------
(* Releases and bootstraps reach the same objects.                         *)

\* publish_release: what the prefix holds is listed and `.previous' cleared.
StartRelease(r) ==
  /\ kind[r] = "release" /\ MayStart(r)
  /\ run' = [run EXCEPT ![r] = "publish"]
  /\ leg' = [leg EXCEPT ![r] = Of("rotate")]
  /\ previous' = [p \in Projects |->
       IF p \in Wants[r] /\ object[p] # NoBundle THEN NoBundle ELSE previous[p]]
  /\ UNCHANGED <<inputs, artifacts, object, meta, marker, job, accepted, ran>>

\* bucket_bootstrap_runner_meta compares with nothing and sends every file.
StartBootstrap(r) ==
  /\ kind[r] = "bootstrap" /\ MayStart(r)
  /\ run' = [run EXCEPT ![r] = "publish"]
  /\ leg' = [leg EXCEPT ![r] = Of("put")]
  /\ UNCHANGED <<inputs, artifacts, bucket, job, accepted, ran>>

\* A copy that fails is a warning.  Then upload() runs as for a CI run.
RotateFile(r, p) ==
  /\ run[r] = "publish" /\ At(r, p, "rotate")
  /\ LET f == job[r][p].cursor
         last == f = FileCount
     IN /\ \E copied \in {TRUE, calm} :
             previous' = IF copied /\ object[p][f] # Nothing
                         THEN [previous EXCEPT ![p][f] = object[p][f]] ELSE previous
        /\ job' = [job EXCEPT ![r][p].cursor = IF last THEN 1 ELSE f + 1]
        /\ To(r, p, IF last THEN "read" ELSE "rotate")
  /\ UNCHANGED <<inputs, artifacts, object, meta, marker, run, accepted, ran>>

-----------------------------------------------------------------------------
(* The publish job of a CI leg: normalize_handoff_artifact, then           *)
(* RunnerManager.upload, then validate_in_repo                             *)

\* The downloaded artifact may hold no runner.
NormalizeArtifact(r, p) ==
  /\ run[r] = "publish" /\ At(r, p, "upload")
  /\ \E l \in {"read", "lost"} : To(r, p, l)
  /\ UNCHANGED <<inputs, artifacts, bucket, run, job, accepted, ran>>

ReadMeta(r, p) ==
  /\ run[r] = "publish" /\ At(r, p, "read")
  /\ job' = [job EXCEPT ![r][p].row = IF meta[p] = Nothing THEN NoBundle ELSE meta[p].files]
  /\ To(r, p, "put")
  /\ UNCHANGED <<inputs, artifacts, bucket, run, accepted, ran>>

\* Mutant of PutFile: a file the metadata list is skipped, whatever its digest.
PutFileByName(r, p) ==
  /\ run[r] = "publish" /\ At(r, p, "put")
  /\ LET f == job[r][p].cursor
         same == built[r][f] = Nothing \/ job[r][p].row[f] # Nothing
     IN /\ object' = IF same THEN object ELSE [object EXCEPT ![p][f] = built[r][f]]
        /\ job' = [job EXCEPT ![r][p].sent = @ \/ ~same, ![r][p].cursor = f + 1]
        /\ To(r, p, IF f = FileCount THEN "meta" ELSE "put")
  /\ UNCHANGED <<inputs, artifacts, meta, previous, marker, run, accepted, ran>>

\* A file equal to its row of the metadata, not to the object, is skipped; a
\* name the bundle lacks is not looked at, whatever the bucket holds there.
PutFile(r, p) ==
  /\ run[r] = "publish" /\ At(r, p, "put")
  /\ LET f == job[r][p].cursor
         same == built[r][f] \in {Nothing, job[r][p].row[f]}
     IN /\ object' = IF same THEN object ELSE [object EXCEPT ![p][f] = built[r][f]]
        /\ job' = [job EXCEPT ![r][p].sent = @ \/ ~same, ![r][p].cursor = f + 1]
        /\ To(r, p, IF f = FileCount THEN "meta" ELSE "put")
  /\ UNCHANGED <<inputs, artifacts, meta, previous, marker, run, accepted, ran>>

SourceRef(r) == IF kind[r] = "bare" THEN Nothing ELSE r

\* The metadata list the files of this bundle, not those of the bucket.
\* Without a changed file they keep their rows and their source_ref.
WriteMeta(r, p) ==
  /\ run[r] = "publish" /\ At(r, p, "meta")
  /\ meta' = IF job[r][p].sent
             THEN [meta EXCEPT ![p] = [ref |-> SourceRef(r), files |-> built[r]]] ELSE meta
  /\ To(r, p, IF IsCi(kind[r]) THEN "mark" ELSE "done")
  /\ job' = [job EXCEPT ![r][p] = NewJob]
  /\ UNCHANGED <<inputs, artifacts, object, previous, marker, run, accepted, ran>>

ValidateInRepo(r, p) ==
  /\ run[r] = "publish" /\ At(r, p, "mark")
  /\ marker' = IF object[p][1] # Nothing THEN [marker EXCEPT ![r] = @ \cup {p}] ELSE marker
  /\ To(r, p, "done")
  /\ UNCHANGED <<inputs, artifacts, object, meta, previous, run, job, accepted, ran>>

\* A call raises or the runner of the job is lost; nothing is undone.
PublishFails(r, p) ==
  /\ ~calm /\ run[r] = "publish" /\ p \in Wants[r] /\ leg[r][p] \in Uploading
  /\ To(r, p, "lost")
  /\ job' = [job EXCEPT ![r][p] = NewJob]
  /\ UNCHANGED <<inputs, artifacts, bucket, run, accepted, ran>>

-----------------------------------------------------------------------------
(* Resolution, and the legs in Cloud Run                                   *)

Published(r) == run[r] = "publish" /\ \A p \in Wants[r] : leg[r][p] \in Settled

PublishEnds(r) ==
  /\ ~IsCi(kind[r]) /\ Published(r)
  /\ run' = [run EXCEPT ![r] = "over"]
  /\ UNCHANGED <<inputs, artifacts, bucket, leg, job, accepted, ran>>

\* Mutant of AcceptedProjects: the leg was in the publish matrix.
AcceptPublished(r) == {p \in Wants[r] : leg[r][p] # "nobmt"}

\* resolve_uploaded_projects: the markers, and every runner found.
AcceptedProjects(r) == marker[r] \cup {p \in Wants[r] : HasRunner(p)}

\* MatrixManager.filter_supported; only projects with leg manifests have a
\* leg in the plan.
FilterSupported(r) ==
  /\ IsCi(kind[r]) /\ Published(r)
  /\ accepted' = [accepted EXCEPT ![r] = Wants[r] \cap AcceptedProjects(r)]
  /\ run' = [run EXCEPT ![r] =
       IF Wants[r] = {} THEN "over" ELSE IF accepted'[r] = {} THEN "failed" ELSE "legs"]
  /\ UNCHANGED <<inputs, artifacts, bucket, leg, job, ran>>

Planned(r) == accepted[r] \cap supported

\* Mutant of AssertRunnerPin: the comparison is dropped.
AssertNothing(r, p) ==
  /\ run[r] = "legs" /\ p \in Planned(r) /\ leg[r][p] \in Settled
  /\ To(r, p, "pinned")
  /\ UNCHANGED <<inputs, artifacts, bucket, run, job, accepted, ran>>

\* _assert_runner_pin_for_ci: without metadata, with an empty source_ref or
\* in another run context than "ci", no check.
AssertRunnerPin(r, p) ==
  /\ run[r] = "legs" /\ p \in Planned(r) /\ leg[r][p] \in Settled
  /\ To(r, p, IF ContextCi(kind[r]) /\ meta[p] # Nothing /\ meta[p].ref \notin {r, Nothing}
             THEN "refused" ELSE "pinned")
  /\ UNCHANGED <<inputs, artifacts, bucket, run, job, accepted, ran>>

ExecuteLeg(r, p) ==
  /\ run[r] = "legs" /\ p \in Planned(r) /\ leg[r][p] = "pinned"
  /\ ran' = [ran EXCEPT ![r][p] = object[p]]
  /\ To(r, p, "ran")
  /\ UNCHANGED <<inputs, artifacts, bucket, run, job, accepted>>

LegsEnd(r) ==
  /\ run[r] = "legs" /\ \A p \in Planned(r) : leg[r][p] \in {"ran", "refused"}
  /\ run' = [run EXCEPT ![r] = "over"]
  /\ UNCHANGED <<inputs, artifacts, bucket, leg, job, accepted, ran>>

-----------------------------------------------------------------------------
(* bmt gate verify                                                         *)

StartVerify(r) ==
  /\ kind[r] = "verify" /\ MayStart(r)
  /\ run' = [run EXCEPT ![r] = "verify"]
  /\ UNCHANGED <<inputs, artifacts, bucket, leg, job, accepted, ran>>

\* _check_runner: the binary is there, and its mode perhaps not executable.
CheckRunner(p) == IF object[p][1] = Nothing THEN {"lost"} ELSE {"lost", "done"}

\* _list_manifest_legs: those of a stage checkout.  The manifests of the
\* bucket are listed and never kept (a path of three parts is not one of two),
\* and a project without manifests is not checked.  Its dataset or plugin.py
\* may be missing.
VerifyOutcomes(p) == {"nobmt"} \cup CheckRunner(p)

VerifyProject(r, p) ==
  /\ run[r] = "verify" /\ At(r, p, "wait")
  /\ \E outcome \in VerifyOutcomes(p) : To(r, p, outcome)
  /\ UNCHANGED <<inputs, artifacts, bucket, run, job, accepted, ran>>

\* run_verify: one error, or no project at all, and none is said to be ready.
VerifyEnds(r) ==
  /\ run[r] = "verify" /\ \A p \in Wants[r] : leg[r][p] # "wait"
  /\ \/ /\ Wants[r] # {} /\ \A p \in Wants[r] : leg[r][p] # "lost"
        /\ run' = [run EXCEPT ![r] = "over"]
        /\ accepted' = [accepted EXCEPT ![r] = {p \in Wants[r] : leg[r][p] = "done"}]
     \/ /\ Wants[r] = {} \/ \E p \in Wants[r] : leg[r][p] = "lost"
        /\ run' = [run EXCEPT ![r] = "failed"]
        /\ UNCHANGED accepted
  /\ UNCHANGED <<inputs, artifacts, bucket, leg, job, ran>>

-----------------------------------------------------------------------------
Upload(r, p) ==
  \/ RotateFile(r, p) \/ NormalizeArtifact(r, p) \/ ReadMeta(r, p) \/ PutFile(r, p)
  \/ WriteMeta(r, p) \/ ValidateInRepo(r, p) \/ PublishFails(r, p)

Step(r) ==
  \/ StartCi(r) \/ FilterEnds(r) \/ FilterFails(r) \/ StartRelease(r) \/ StartBootstrap(r)
  \/ PublishEnds(r) \/ FilterSupported(r) \/ LegsEnd(r)
  \/ StartVerify(r) \/ VerifyEnds(r) \/ (\E p \in Projects : VerifyProject(r, p))
  \/ \E p \in Projects :
       FilterLeg(r, p) \/ Upload(r, p) \/ AssertRunnerPin(r, p) \/ ExecuteLeg(r, p)

Next == \E r \in Runs : Step(r)

Spec == Init /\ [][Next]_vars

-----------------------------------------------------------------------------
(* Whatever overlaps or fails, a leg is dispatched for a project only when *)
(* the binary is in the bucket: it is written before the metadata and the  *)
(* markers that make the project acceptable, and never removed.  The same  *)
(* is true of a project whose leg manifests a passing verify has checked.  *)
AcceptedHasRunner == \A r \in Runs : \A p \in accepted[r] : object[p][1] # Nothing

\* Every file of the bundle b is there; others may be.
Holds(files, b) == \A f \in Files : b[f] # Nothing => files[f] = b[f]

\* The pin of a leg passes for its own source_ref and for an empty one.
MayPass(r) == {r} \cup {s \in Runs : kind[s] = "bare"}

(* Under the run context "ci", a leg that the pin lets through runs with   *)
(* every file its own commit built, or, where a publish job without a      *)
(* SOURCE_REF left the name empty, with every file of that one (when runs  *)
(* do not overlap or fail): skipping by source_ref or by checksum never    *)
(* leaves an older version of a file.  A library that commit does not      *)
(* build may lie beside them.                                              *)
PinnedLegRunsItsCommit ==
  calm => \A r \in Runs, p \in Projects :
    ContextCi(kind[r]) /\ leg[r][p] = "ran" => \E s \in MayPass(r) : Holds(ran[r][p], built[s])

(* Between uploads every row of the metadata is true of the bucket, so the *)
(* next upload may skip by it.  The bucket may hold more than the rows.    *)
MetaDescribesBucket ==
  calm => \A p \in Projects :
    meta[p] # Nothing /\ (\A r \in Runs : leg[r][p] \notin Uploading)
      => Holds(object[p], meta[p].files)

(* Stronger than the code: the leg runs its own bundle and nothing else.   *)
(* An upload deletes nothing, so a library an earlier bundle had and this  *)
(* one has not is still loaded from the prefix.                            *)
PinnedBundleIsClean ==
  calm => \A r \in Runs, p \in Projects :
    kind[r] = "ci" /\ leg[r][p] = "ran" => \E s \in MayPass(r) : ran[r][p] = built[s]
=============================================================================
