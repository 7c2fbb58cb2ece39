----------------------------- MODULE RuntimeSeed -----------------------------
(***************************************************************************)
(* The project sources in the gate bucket: `bmt bucket deploy' (and the    *)
(* release that marks its commit afterwards), `bmt publish' of one project *)
(* and `bmt bucket project-sync'.  Each operator has a stage, the tree the *)
(* commands upload from; the bucket also holds what no stage does: runners *)
(* and datasets.  A deploy is skipped or verified by comparing the stage   *)
(* with the manifest of the last deploy, never with the objects.           *)
(***************************************************************************)
EXTENDS Naturals, FiniteSets

CONSTANTS
  Operators, Commits, Projects,
  Files,      \* what a stage may hold of a project
  Foreign,    \* what only the bucket holds of a project
  Prefixed,   \* Prefixed[p]: the projects whose name begins with p's, p included
  Contents,
  Tree,       \* what each commit has at each staged path
  None,
  Plugin,     \* plugin.py: a project without one does not validate
  MaxRuns, MaxOverlapping, MaxFails   \* bounds: commands, when they overlap, failing calls

StagedPaths == Projects \X Files
Paths == Projects \X (Files \cup Foreign)

ASSUME PathsAssumption == Files \cap Foreign = {} /\ Plugin \in Files /\ Contents # {} /\ Commits # {}
ASSUME NoneAssumption ==
  None \notin Contents /\ None \notin Commits /\ None \notin [StagedPaths -> Contents \cup {None}]
ASSUME TreeAssumption == Tree \in [Commits -> [StagedPaths -> Contents \cup {None}]]
ASSUME PrefixAssumption == Prefixed \in [Projects -> SUBSET Projects] /\ \A p \in Projects : p \in Prefixed[p]
ASSUME RunsAssumption == {MaxRuns, MaxOverlapping, MaxFails} \subseteq Nat

VARIABLES
  mode,     \* what the history may do (chosen once)
  bucket,   \* the objects
  seed,     \* _meta/runtime_seed_manifest.json: the stage it describes
  marker,   \* _state/release.json: the commit it names
  stage,    \* generated/stage of each operator
  job,      \* the command of each operator
  ever,     \* history: every content a staged path ever had in the bucket
  runs, fails   \* commands begun, calls failed

seedVars == <<mode, bucket, seed, marker, stage, job, ever, runs, fails>>

Held == Contents \cup {None}
NoJob == [cmd |-> "none", pc |-> "idle", commit |-> None, project |-> None, todo |-> {}, skipped |-> FALSE]
Busy(o) == job[o].pc \notin {"idle", "done", "failed"}
Deploying(o) == job[o].cmd \in {"deploy", "release"}
Syncing(o) == job[o].cmd \in {"publish", "sync"}

\* The stage of o is in the bucket. A deploy deletes nothing, so what the
\* stage no longer has may still be there.
Covered(o) == \A q \in StagedPaths : stage[o][q] # None => bucket[q] = stage[o][q]

SeedTypeOK ==
  /\ mode \in {"ci", "tame", "serial", "free"}
  /\ bucket \in [Paths -> Held]
  /\ seed \in [StagedPaths -> Held] \cup {None}
  /\ marker \in Commits \cup {None}
  /\ stage \in [Operators -> [StagedPaths -> Held]]
  /\ job \in [Operators -> [cmd : {"none", "deploy", "release", "publish", "sync"},
                            pc : {"idle", "read", "rsync", "seal", "verify", "mark",
                                  "upload", "list", "delete", "done", "failed"},
                            commit : Commits \cup {None}, project : Projects \cup {None},
                            todo : SUBSET Paths, skipped : BOOLEAN]]
  /\ ever \in SUBSET (StagedPaths \X Contents)
  /\ runs \in Nat /\ fails \in 0 .. MaxFails

\* "ci": releases only. "tame": no release and no publication either; both one
\* command after the other and no call fails. "serial": any commands and
\* failures, one command after the other. "free": they overlap.
SeedInit ==
  /\ mode \in {"ci", "tame", "serial", "free"}
  /\ bucket = [q \in Paths |-> IF q[2] \in Foreign THEN CHOOSE c \in Contents : TRUE ELSE None]
  /\ seed = None /\ marker = None
  /\ stage = [o \in Operators |-> [q \in StagedPaths |-> None]]
  /\ job = [o \in Operators |-> NoJob]
  /\ ever = {} /\ runs = 0 /\ fails = 0

Goto(o, pc) == job' = [job EXCEPT ![o].pc = pc]
Ends(o, pc) == job' = [job EXCEPT ![o].pc = pc, ![o].todo = {}]

Put(q, c) ==
  /\ bucket' = [bucket EXCEPT ![q] = c]
  /\ ever' = ever \cup {<<q, c>>}

Starts(o, cmd, c, p) ==
  /\ ~Busy(o)
  /\ mode # "free" => \A x \in Operators : ~Busy(x)
  /\ mode = "ci" => cmd = "release"
  /\ mode = "tame" => cmd = "deploy"
  /\ job' = [job EXCEPT ![o] = [NoJob EXCEPT !.cmd = cmd, !.commit = c, !.project = p,
                                 !.pc = IF cmd \in {"deploy", "release"} THEN "read" ELSE "upload"]]

-----------------------------------------------------------------------------
(* Staging                                                                 *)

\* The projects a commit has: those with a bundle, which expands into files.
Sources(c) == {p \in Projects : \E f \in Files : Tree[c][<<p, f>>] # None}

\* materialize_projects empties the stage first, or replaces project by project.
Materialized(o, c, clean) ==
  [q \in StagedPaths |-> IF clean \/ q[1] \in Sources(c) THEN Tree[c][q] ELSE stage[o][q]]

Begin(o, cmd, c) ==
  /\ cmd \in {"deploy", "release"} /\ Starts(o, cmd, c, None)
  /\ stage' = [stage EXCEPT ![o] = Materialized(o, c, TRUE)]
  /\ UNCHANGED <<mode, bucket, seed, marker, ever, fails>>

\* publish_bmt validates the source, stages every project and uploads one.
BeginPublish(o, p, c) ==
  /\ p \in Sources(c) /\ Tree[c][<<p, Plugin>>] # None
  /\ LET s == Materialized(o, c, FALSE)
     IN  /\ stage' = [stage EXCEPT ![o] = s]
         /\ Starts(o, "publish", c, p)
  /\ UNCHANGED <<mode, bucket, seed, marker, ever, fails>>

\* project-sync uploads the stage as it is.
BeginSync(o, p) ==
  /\ \E f \in Files : stage[o][<<p, f>>] # None
  /\ Starts(o, "sync", None, p)
  /\ UNCHANGED <<mode, bucket, seed, marker, stage, ever, fails>>

-----------------------------------------------------------------------------
(* Deploy: compare, rsync, manifest, verify                                *)

\* Mutant: rsync with --no-clobber.
ToCopyMissing(o) == {q \in StagedPaths : stage[o][q] # None /\ bucket[q] = None}

\* What rsync finds to copy when it lists both sides.
ToCopy(o) == {q \in StagedPaths : stage[o][q] # None /\ bucket[q] # stage[o][q]}

\* Mutant: the manifest is written first.
ReadManifestEagerly(o) ==
  /\ job[o].pc = "read"
  /\ job' = [job EXCEPT ![o].pc = "rsync", ![o].todo = ToCopy(o)]
  /\ seed' = stage[o]
  /\ UNCHANGED <<mode, bucket, marker, stage, ever, runs, fails>>

\* download_manifest answers nothing when the call fails, and then all is copied.
ReadManifest(o) ==
  /\ job[o].pc = "read"
  /\ \E lost \in BOOLEAN :
       /\ lost => mode \in {"serial", "free"} /\ fails < MaxFails
       /\ fails' = IF lost THEN fails + 1 ELSE fails
       /\ job' = IF ~lost /\ seed = stage[o]
                 THEN [job EXCEPT ![o].pc = "verify", ![o].skipped = TRUE]
                 ELSE [job EXCEPT ![o].pc = "rsync", ![o].todo = ToCopy(o)]
  /\ UNCHANGED <<mode, bucket, seed, marker, stage, ever, runs>>

CopyFile(o) ==
  /\ job[o].pc = "rsync"
  /\ \E q \in job[o].todo :
       /\ Put(q, stage[o][q])
       /\ job' = [job EXCEPT ![o].todo = @ \ {q}]
  /\ UNCHANGED <<mode, seed, marker, stage, runs, fails>>

\* Mutant: the exit code of rsync is not looked at.
CopiedAnyway(o) ==
  /\ job[o].pc = "rsync"
  /\ Goto(o, "seal")
  /\ UNCHANGED <<mode, bucket, seed, marker, stage, ever, runs, fails>>

Copied(o) ==
  /\ job[o].pc = "rsync" /\ job[o].todo = {}
  /\ Goto(o, "seal")
  /\ UNCHANGED <<mode, bucket, seed, marker, stage, ever, runs, fails>>

UploadManifest(o) ==
  /\ job[o].pc = "seal"
  /\ seed' = stage[o]
  /\ Goto(o, "verify")
  /\ UNCHANGED <<mode, bucket, marker, stage, ever, runs, fails>>

\* The verification reads the manifest again.
VerifyManifest(o) ==
  /\ job[o].pc = "verify"
  /\ Ends(o, IF seed # stage[o] THEN "failed" ELSE IF job[o].cmd = "release" THEN "mark" ELSE "done")
  /\ UNCHANGED <<mode, bucket, seed, marker, stage, ever, runs, fails>>

\* bmt release mark, the last step of a release.
Mark(o) ==
  /\ job[o].pc = "mark"
  /\ marker' = job[o].commit
  /\ Goto(o, "done")
  /\ UNCHANGED <<mode, bucket, seed, stage, ever, runs, fails>>

-----------------------------------------------------------------------------
(* Sync of one project: upload all, then delete what the stage lacks       *)

\* The blobs are listed by the prefix projects/<p>, without a slash behind it.
ToDelete(o) ==
  LET p == job[o].project
  IN  {q \in Paths : /\ bucket[q] # None /\ q[1] \in Prefixed[p]
                     /\ ~(q[1] = p /\ q[2] \in Files /\ stage[o][q] # None)}

ToUpload(o) == {q \in StagedPaths : q[1] = job[o].project /\ stage[o][q] # None}

\* todo holds what is uploaded already.
UploadFile(o) ==
  /\ job[o].pc = "upload"
  /\ \E q \in ToUpload(o) \ job[o].todo :
       /\ Put(q, stage[o][q])
       /\ job' = [job EXCEPT ![o].todo = @ \cup {q}]
  /\ UNCHANGED <<mode, seed, marker, stage, runs, fails>>

ListBlobs(o) ==
  /\ job[o].pc = "upload" /\ ToUpload(o) \subseteq job[o].todo
  /\ job' = [job EXCEPT ![o].pc = "delete", ![o].todo = ToDelete(o)]
  /\ UNCHANGED <<mode, bucket, seed, marker, stage, ever, runs, fails>>

\* A blob that is gone already makes the deletion raise.
DeleteBlob(o) ==
  /\ job[o].pc = "delete"
  /\ \E q \in job[o].todo :
       IF bucket[q] = None THEN Ends(o, "failed") /\ UNCHANGED bucket
       ELSE /\ bucket' = [bucket EXCEPT ![q] = None]
            /\ job' = [job EXCEPT ![o].todo = @ \ {q}]
  /\ UNCHANGED <<mode, seed, marker, stage, ever, runs, fails>>

SyncEnds(o) ==
  /\ job[o].pc = "delete" /\ job[o].todo = {}
  /\ Ends(o, "done")
  /\ UNCHANGED <<mode, bucket, seed, marker, stage, ever, runs, fails>>

-----------------------------------------------------------------------------

\* Any other call may fail and ends the command where it is.
CallFails(o) ==
  /\ Busy(o) /\ job[o].pc # "read"
  /\ mode \in {"serial", "free"} /\ fails < MaxFails
  /\ fails' = fails + 1
  /\ Ends(o, "failed")
  /\ UNCHANGED <<mode, bucket, seed, marker, stage, ever, runs>>

Counted == runs < (IF mode = "free" THEN MaxOverlapping ELSE MaxRuns) /\ runs' = runs + 1

\* Somebody runs a command.
NewCommand(o) ==
  /\ Counted
  /\ \/ \E c \in Commits : Begin(o, "deploy", c) \/ Begin(o, "release", c)
     \/ \E c \in Commits, p \in Projects : BeginPublish(o, p, c)
     \/ \E p \in Projects : BeginSync(o, p)

CommandStep(o) ==
  \/ ReadManifest(o) \/ CopyFile(o) \/ Copied(o) \/ UploadManifest(o) \/ VerifyManifest(o) \/ Mark(o)
  \/ UploadFile(o) \/ ListBlobs(o) \/ DeleteBlob(o) \/ SyncEnds(o)

\* The assertion of the handoff: the marker names the commit.
AssertMatches(c) == marker = c

-----------------------------------------------------------------------------
(* Properties                                                              *)

\* A deploy that copies reports success only with its stage in the bucket, even
\* after commands that failed halfway; one that is skipped too, when nothing
\* but deploys ever wrote and none failed.
VerifiedSeedIsInBucket ==
  [][\A o \in Operators :
       /\ mode # "free" /\ Deploying(o) /\ job[o].pc = "verify" /\ job'[o].pc \in {"mark", "done"}
       /\ job[o].skipped => mode \in {"ci", "tame"}
       => Covered(o)]_seedVars

\* The manifest never lists a file that did not arrive, whoever writes at the
\* same time and wherever a command stops.
SeedArrived ==
  seed # None => \A q \in StagedPaths : seed[q] # None => <<q, seed[q]>> \in ever

\* When only releases write, one after the other, the commit a handoff is
\* admitted for is the one whose sources the bucket serves.
AdmittedCommitIsServed ==
  \A c \in Commits :
    mode = "ci" /\ AssertMatches(c) /\ (\A o \in Operators : ~Busy(o))
      => \A q \in StagedPaths : Tree[c][q] # None => bucket[q] = Tree[c][q]

\* An object leaves the bucket only by the sync of its own project.
\* (src/tools/remote/bucket_sync_project.py:2.)
SyncStaysInItsProject ==
  [][\A q \in Paths :
       bucket[q] # None /\ bucket'[q] = None
         => \E o \in Operators : Syncing(o) /\ job[o].pc = "delete" /\ job[o].project = q[1]]_seedVars
=============================================================================
