----------------------------- MODULE ShipProofs -----------------------------
(***************************************************************************)
(* Theorems about Ship, and with it about the commands of RuntimeSeed, for *)
(* any number of operators, commits, projects and files.                   *)
(***************************************************************************)
EXTENDS Ship, TLAPS

USE DEF seedVars, shipVars

-----------------------------------------------------------------------------
(* Type correctness.                                                       *)

Jobs == [cmd : {"none", "deploy", "release", "publish", "sync"},
         pc : {"idle", "read", "rsync", "seal", "verify", "mark",
               "upload", "list", "delete", "done", "failed"},
         commit : Commits \cup {None}, project : Projects \cup {None},
         todo : SUBSET Paths, skipped : BOOLEAN]

Stages == [StagedPaths -> Held]

LEMMA StagedArePaths == StagedPaths \subseteq Paths
  BY DEF StagedPaths, Paths

LEMMA TreeType == ASSUME NEW c \in Commits PROVE Tree[c] \in Stages
  BY TreeAssumption DEF Stages, Held

\* What a command does to the shared state.
Begins(o) ==
  \/ \E cmd \in {"deploy", "release"}, c \in Commits : Begin(o, cmd, c)
  \/ \E p \in Projects, c \in Commits : BeginPublish(o, p, c)
  \/ \E p \in Projects : BeginSync(o, p)

\* Every step is one of these to the sources in the bucket.
LEMMA SeedSteps ==
  ASSUME head \in [Operators -> Commits], [Next]_vars
  PROVE  \/ UNCHANGED <<mode, bucket, seed, marker, stage, job, ever>>
         \/ \E o \in Operators : Begins(o) \/ CommandStep(o) \/ CallFails(o)
<1>1. ASSUME NEW o \in Operators, NewCommand(o) PROVE Begins(o)
  BY <1>1 DEF NewCommand, Begins
<1>2. ASSUME NEW o \in Operators, ShipStep(o)
      PROVE  UNCHANGED <<mode, bucket, seed, marker, stage, job, ever>> \/ Begins(o)
  <2>1. CASE Deploy(o)
    BY <2>1 DEF Deploy, Begins
  <2>2. CASE ~Deploy(o)
    BY <1>2, <2>2 DEF ShipStep, TestPasses, PreflightPasses, Deployed, GateStep, BuildImage, PushLatest, PushTag
  <2> QED
    BY <2>1, <2>2
<1>3. ASSUME NEW o \in Operators, NewShip(o) \/ StepFails(o) \/ \E c \in Commits : Checkout(o, c)
      PROVE  UNCHANGED <<mode, bucket, seed, marker, stage, job, ever>>
  BY <1>3 DEF NewShip, BeginShip, StepFails, Checkout
<1>4. CASE UNCHANGED vars
  BY <1>4 DEF vars
<1> QED
  BY <1>1, <1>2, <1>3, <1>4 DEF Next, SeedStep

SeedTypes ==
  /\ mode \in {"ci", "tame", "serial", "free"}
  /\ bucket \in [Paths -> Held]
  /\ seed \in Stages \cup {None}
  /\ marker \in Commits \cup {None}
  /\ stage \in [Operators -> Stages]
  /\ job \in [Operators -> Jobs]
  /\ ever \in SUBSET (StagedPaths \X Contents)

LEMMA SeedTypeParts == SeedTypeOK <=> SeedTypes /\ runs \in Nat /\ fails \in 0 .. MaxFails
  BY DEF SeedTypeOK, SeedTypes, Stages, Jobs

\* rsync has only staged files to copy.
CopyInv ==
  \A o \in Operators : job[o].pc = "rsync" =>
    \A q \in job[o].todo : q \in StagedPaths /\ stage[o][q] # None

LEMMA BeginsType == ASSUME SeedTypes, NEW o \in Operators, Begins(o) PROVE SeedTypes'
<1>0. \A c \in Commits, clean \in BOOLEAN : Materialized(o, c, clean) \in Stages
  BY TreeType DEF Materialized, SeedTypes, Stages
<1>1. ASSUME NEW cmd \in {"deploy", "release", "publish", "sync"}, NEW c \in Commits \cup {None},
             NEW p \in Projects \cup {None}, Starts(o, cmd, c, p)
      PROVE  job' \in [Operators -> Jobs]
  <2>1. [NoJob EXCEPT !.cmd = cmd, !.commit = c, !.project = p,
           !.pc = IF cmd \in {"deploy", "release"} THEN "read" ELSE "upload"] \in Jobs
    BY DEF NoJob, Jobs
  <2> QED
    BY <1>1, <2>1 DEF Starts, SeedTypes
<1>2. ASSUME NEW cmd \in {"deploy", "release"}, NEW c \in Commits, Begin(o, cmd, c) PROVE SeedTypes'
  <2>1. job' \in [Operators -> Jobs]
    BY <1>1, <1>2 DEF Begin
  <2>2. stage' \in [Operators -> Stages]
    BY <1>0, <1>2 DEF Begin, SeedTypes
  <2> QED
    BY <1>2, <2>1, <2>2 DEF Begin, SeedTypes
<1>3. ASSUME NEW p \in Projects, NEW c \in Commits, BeginPublish(o, p, c) PROVE SeedTypes'
  BY <1>0, <1>1, <1>3 DEF BeginPublish, SeedTypes
<1>4. ASSUME NEW p \in Projects, BeginSync(o, p) PROVE SeedTypes'
  BY <1>1, <1>4 DEF BeginSync, SeedTypes
<1> QED
  BY <1>2, <1>3, <1>4 DEF Begins

LEMMA PutType ==
  ASSUME SeedTypes, NEW o \in Operators, NEW q \in StagedPaths, stage[o][q] # None, Put(q, stage[o][q])
  PROVE  bucket' \in [Paths -> Held] /\ ever' \in SUBSET (StagedPaths \X Contents)
<1>1. stage[o][q] \in Contents
  BY DEF SeedTypes, Stages, Held
<1> QED
  BY <1>1, StagedArePaths DEF Put, SeedTypes, Held

LEMMA CommandStepType ==
  ASSUME SeedTypes, CopyInv, NEW o \in Operators, CommandStep(o)
  PROVE  SeedTypes'
<1>0. /\ job[o] \in Jobs /\ job \in [Operators -> Jobs]
      /\ job[o].todo \in SUBSET Paths /\ job[o].skipped \in BOOLEAN
      /\ ToCopy(o) \subseteq Paths /\ ToDelete(o) \subseteq Paths /\ ToUpload(o) \subseteq StagedPaths
  BY StagedArePaths DEF SeedTypes, Jobs, ToCopy, ToDelete, ToUpload
<1>1. CASE ReadManifest(o)
  <2>1. UNCHANGED <<mode, bucket, seed, marker, stage, ever>>
    BY <1>1 DEF ReadManifest
  <2>2. \/ job' = [job EXCEPT ![o].pc = "verify", ![o].skipped = TRUE]
        \/ job' = [job EXCEPT ![o].pc = "rsync", ![o].todo = ToCopy(o)]
    BY <1>1 DEF ReadManifest
  <2>3. [job[o] EXCEPT !.pc = "verify", !.skipped = TRUE] \in Jobs
    BY <1>0 DEF Jobs
  <2>4. [job[o] EXCEPT !.pc = "rsync", !.todo = ToCopy(o)] \in Jobs
    BY <1>0 DEF Jobs
  <2>5. job' \in [Operators -> Jobs]
    BY <1>0, <2>2, <2>3, <2>4
  <2> QED
    BY <2>1, <2>5 DEF SeedTypes
<1>2. CASE CopyFile(o) \/ UploadFile(o)
  <2>1. PICK q \in StagedPaths :
          /\ stage[o][q] # None /\ Put(q, stage[o][q])
          /\ \/ job' = [job EXCEPT ![o].todo = @ \ {q}]
             \/ job' = [job EXCEPT ![o].todo = @ \cup {q}]
    <3>1. CASE CopyFile(o)
      <4>1. PICK q \in job[o].todo : Put(q, stage[o][q]) /\ job' = [job EXCEPT ![o].todo = @ \ {q}]
        BY <3>1 DEF CopyFile
      <4>2. q \in StagedPaths /\ stage[o][q] # None
        BY <3>1, <4>1 DEF CopyFile, CopyInv
      <4> QED
        BY <4>1, <4>2
    <3>2. CASE UploadFile(o)
      BY <3>2 DEF UploadFile, ToUpload
    <3> QED
      BY <1>2, <3>1, <3>2
  <2>2. q \in Paths
    BY StagedArePaths
  <2>3. job' \in [Operators -> Jobs]
    BY <1>0, <2>1, <2>2 DEF Jobs
  <2>4. UNCHANGED <<mode, seed, marker, stage>>
    BY <1>2 DEF CopyFile, UploadFile
  <2> QED
    BY <2>1, <2>3, <2>4, PutType DEF SeedTypes
<1>3. CASE Copied(o) \/ UploadManifest(o) \/ Mark(o)
  BY <1>3 DEF Copied, UploadManifest, Mark, SeedTypes, Goto, Jobs
<1>4. CASE VerifyManifest(o) \/ SyncEnds(o)
  BY <1>4 DEF VerifyManifest, SyncEnds, Ends, SeedTypes, Jobs
<1>5. CASE ListBlobs(o)
  BY <1>0, <1>5 DEF ListBlobs, SeedTypes, Jobs
<1>6. CASE DeleteBlob(o)
  <2>1. PICK q \in job[o].todo :
          \/ Ends(o, "failed") /\ UNCHANGED bucket
          \/ /\ bucket' = [bucket EXCEPT ![q] = None]
             /\ job' = [job EXCEPT ![o].todo = @ \ {q}]
    BY <1>6 DEF DeleteBlob
  <2>2. bucket' \in [Paths -> Held]
    BY <1>0, <2>1 DEF SeedTypes, Held
  <2>3. job' \in [Operators -> Jobs]
    BY <1>0, <2>1 DEF Ends, SeedTypes, Jobs
  <2> QED
    BY <1>6, <2>2, <2>3 DEF DeleteBlob, SeedTypes
<1> QED
  BY <1>1, <1>2, <1>3, <1>4, <1>5, <1>6 DEF CommandStep

\* The other operators keep their command and their stage.
LEMMA OthersKeep ==
  ASSUME SeedTypes, NEW o \in Operators, Begins(o) \/ CommandStep(o) \/ CallFails(o),
         NEW x \in Operators \ {o}
  PROVE  job'[x] = job[x] /\ stage'[x] = stage[x]
<1>0. /\ job \in [Operators -> Jobs] /\ stage \in [Operators -> Stages]
  BY DEF SeedTypes
<1>1. CASE Begins(o)
  BY <1>0, <1>1 DEF Begins, Begin, BeginPublish, BeginSync, Starts
<1>2. CASE CommandStep(o)
  <2>1. UNCHANGED stage
    BY <1>2 DEF CommandStep, ReadManifest, CopyFile, Copied, UploadManifest, VerifyManifest, Mark,
       UploadFile, ListBlobs, DeleteBlob, SyncEnds
  <2>2. job'[x] = job[x]
    <3>1. CASE ReadManifest(o) \/ CopyFile(o) \/ Copied(o) \/ UploadManifest(o) \/ VerifyManifest(o) \/ Mark(o)
      BY <1>0, <3>1 DEF ReadManifest, CopyFile, Copied, UploadManifest, VerifyManifest, Mark, Goto, Ends
    <3>2. CASE UploadFile(o) \/ ListBlobs(o) \/ DeleteBlob(o) \/ SyncEnds(o)
      BY <1>0, <3>2 DEF UploadFile, ListBlobs, DeleteBlob, SyncEnds, Ends
    <3> QED
      BY <1>2, <3>1, <3>2 DEF CommandStep
  <2> QED
    BY <2>1, <2>2
<1>3. CASE CallFails(o)
  BY <1>0, <1>3 DEF CallFails, Ends
<1> QED
  BY <1>1, <1>2, <1>3

\* A command begins where the operator runs none.
LEMMA BeginsFacts ==
  ASSUME SeedTypes, NEW o \in Operators, Begins(o)
  PROVE  /\ ~Busy(o) /\ (mode # "free" => \A x \in Operators : ~Busy(x))
         /\ UNCHANGED <<mode, bucket, seed, marker, ever>>
         /\ job'[o].pc \in {"read", "upload"}
<1>1. PICK cmd \in {"deploy", "release", "publish", "sync"}, c \in Commits \cup {None}, p \in Projects \cup {None} :
        Starts(o, cmd, c, p)
  BY DEF Begins, Begin, BeginPublish, BeginSync
<1>2. job'[o].pc \in {"read", "upload"}
  BY <1>1 DEF Starts, SeedTypes, NoJob
<1>3. UNCHANGED <<mode, bucket, seed, marker, ever>>
  BY DEF Begins, Begin, BeginPublish, BeginSync
<1> QED
  BY <1>1, <1>2, <1>3 DEF Starts

LEMMA NextCopyInv ==
  ASSUME SeedTypes, CopyInv, NEW o \in Operators, Begins(o) \/ CommandStep(o) \/ CallFails(o)
  PROVE  CopyInv'
<1>0. job \in [Operators -> Jobs]
  BY DEF SeedTypes
<1>1. \A x \in Operators \ {o} : job'[x] = job[x] /\ stage'[x] = stage[x]
  BY OthersKeep
<1> SUFFICES ASSUME job'[o].pc = "rsync", NEW q \in job'[o].todo
             PROVE  q \in StagedPaths /\ stage'[o][q] # None
  BY <1>1 DEF CopyInv
<1>2. CASE ReadManifest(o)
  <2>1. job' = [job EXCEPT ![o].pc = "rsync", ![o].todo = ToCopy(o)] /\ UNCHANGED stage
    BY <1>0, <1>2 DEF ReadManifest, Jobs
  <2> QED
    BY <1>0, <2>1 DEF ToCopy, Jobs
<1>3. CASE CopyFile(o)
  BY <1>0, <1>3 DEF CopyFile, CopyInv, Jobs
<1>4. CASE ~ReadManifest(o) /\ ~CopyFile(o) /\ CommandStep(o)
  <2>1. CASE Copied(o) \/ UploadManifest(o) \/ VerifyManifest(o) \/ Mark(o)
    BY <1>0, <2>1 DEF Copied, UploadManifest, VerifyManifest, Mark, Goto, Ends, Jobs
  <2>2. CASE UploadFile(o) \/ ListBlobs(o) \/ DeleteBlob(o) \/ SyncEnds(o)
    BY <1>0, <2>2 DEF UploadFile, ListBlobs, DeleteBlob, SyncEnds, Ends, Jobs
  <2> QED
    BY <1>4, <2>1, <2>2 DEF CommandStep
<1>5. CASE CallFails(o)
  BY <1>0, <1>5 DEF CallFails, Ends, Jobs
<1> QED
  BY <1>2, <1>3, <1>4, <1>5, BeginsFacts

LEMMA NextSeedTypes ==
  ASSUME SeedTypes, CopyInv, head \in [Operators -> Commits], [Next]_vars
  PROVE  SeedTypes' /\ CopyInv'
<1>1. CASE UNCHANGED <<mode, bucket, seed, marker, stage, job, ever>>
  BY <1>1 DEF SeedTypes, CopyInv
<1>2. ASSUME NEW o \in Operators, CallFails(o) PROVE SeedTypes'
  <2>1. job' \in [Operators -> Jobs]
    <3>1. job[o] \in Jobs /\ job' = [job EXCEPT ![o].pc = "failed", ![o].todo = {}]
      BY <1>2 DEF CallFails, Ends, SeedTypes
    <3>2. [job[o] EXCEPT !.pc = "failed", !.todo = {}] \in Jobs
      BY <3>1 DEF Jobs
    <3> QED
      BY <3>1, <3>2 DEF SeedTypes
  <2> QED
    BY <1>2, <2>1 DEF CallFails, SeedTypes
<1> QED
  BY <1>1, <1>2, BeginsType, CommandStepType, NextCopyInv, SeedSteps

Ships == [at : {"idle", "test", "preflight", "deploy", "deploying", "gate", "build",
                "push", "tag", "done", "failed"},
          image : BOOLEAN, gate : BOOLEAN, tag : Commits \cup {None}]

ShipTypes ==
  /\ head \in [Operators -> Commits] /\ edited \subseteq Operators
  /\ local \in [Operators -> Builds \cup {None}]
  /\ registry \in [Commits \cup {Latest} -> Builds \cup {None}]
  /\ ship \in [Operators -> Ships]

\* Only a checkout of a commit is pushed, under its tag.
TagInv == \A o \in Operators : ship[o].at = "tag" => ship[o].tag \in Commits

LEMMA TypeParts == TypeOK <=> SeedTypes /\ runs \in Nat /\ fails \in 0 .. MaxFails /\ ShipTypes
  BY SeedTypeParts DEF TypeOK, ShipTypes, Ships

LEMMA NextShipTypes ==
  ASSUME ShipTypes, TagInv, [Next]_vars
  PROVE  ShipTypes' /\ TagInv'
<1>1. ASSUME UNCHANGED shipVars PROVE ShipTypes' /\ TagInv'
  BY <1>1 DEF ShipTypes, TagInv
<1>2. ASSUME NEW o \in Operators, SeedStep(o) PROVE ShipTypes' /\ TagInv'
  BY <1>1, <1>2 DEF SeedStep
<1>3. ASSUME NEW o \in Operators, NewShip(o) PROVE ShipTypes' /\ TagInv'
  <2>1. PICK c \in Commits, dirty \in BOOLEAN, force \in BOOLEAN, gate \in BOOLEAN, answers \in BOOLEAN :
          BeginShip(o, c, dirty, force, gate, answers)
    BY <1>3 DEF NewShip
  <2>2. ImageNeeded(c, dirty, force, answers) \in BOOLEAN
    BY DEF ImageNeeded, ImageContextDirty
  <2>3. PICK s : s = [NoShip EXCEPT !.at = "test", !.gate = gate, !.image = ImageNeeded(c, dirty, force, answers)]
    OBVIOUS
  <2>4. s \in Ships /\ s.at = "test"
    BY <2>2, <2>3 DEF Ships, NoShip
  <2>5. ship' = [ship EXCEPT ![o] = s] /\ UNCHANGED <<local, registry>>
    BY <2>1, <2>3 DEF BeginShip
  <2>6. ship' \in [Operators -> Ships] /\ TagInv'
    BY <2>4, <2>5 DEF ShipTypes, TagInv
  <2>7. head' \in [Operators -> Commits] /\ edited' \subseteq Operators
    BY <2>1 DEF BeginShip, ShipTypes
  <2> QED
    BY <2>5, <2>6, <2>7 DEF ShipTypes
<1>4. ASSUME NEW o \in Operators, TestPasses(o) \/ PreflightPasses(o) \/ Deploy(o) \/ Deployed(o) \/ GateStep(o) \/ StepFails(o)
      PROVE  ShipTypes' /\ TagInv'
  <2>1. UNCHANGED <<head, edited, local, registry>>
    BY <1>4 DEF TestPasses, PreflightPasses, Deploy, Deployed, GateStep, StepFails
  <2>2. PICK at \in {"preflight", "deploy", "failed", "deploying", "gate", "build", "done"} : Reach(o, at)
    BY <1>4 DEF TestPasses, PreflightPasses, Deploy, Deployed, GateStep, StepFails
  <2>3. ShipTypes'
    BY <2>1, <2>2 DEF Reach, ShipTypes, Ships
  <2>4. TagInv'
    BY <2>2 DEF Reach, TagInv, ShipTypes, Ships
  <2> QED
    BY <2>3, <2>4
<1>5. ASSUME NEW o \in Operators, BuildImage(o) PROVE ShipTypes' /\ TagInv'
  <2>1. /\ UNCHANGED <<head, edited, registry>>
        /\ local' = [local EXCEPT ![o] = IF o \in edited THEN Edited ELSE Runtime[head[o]]]
        /\ ship' = [ship EXCEPT ![o].at = "push"]
    BY <1>5 DEF BuildImage, Reach
  <2>2. (IF o \in edited THEN Edited ELSE Runtime[head[o]]) \in Builds
    BY DEF Builds, ShipTypes
  <2> QED
    BY <2>1, <2>2 DEF ShipTypes, Ships, TagInv
<1>6. ASSUME NEW o \in Operators, PushLatest(o) PROVE ShipTypes' /\ TagInv'
  <2>1. /\ UNCHANGED <<head, edited, local>>
        /\ registry' = [registry EXCEPT ![Latest] = local[o]]
        /\ ship' = [ship EXCEPT ![o].at = "tag", ![o].tag = head[o]]
    BY <1>6 DEF PushLatest
  <2> QED
    BY <2>1 DEF ShipTypes, Ships, TagInv
<1>7. ASSUME NEW o \in Operators, PushTag(o) PROVE ShipTypes' /\ TagInv'
  <2>1. /\ UNCHANGED <<head, edited, local>>
        /\ registry' = [registry EXCEPT ![ship[o].tag] = local[o]]
        /\ ship' = [ship EXCEPT ![o].at = "done"]
    BY <1>7 DEF PushTag, Reach
  <2> QED
    BY <2>1 DEF ShipTypes, Ships, TagInv
<1>8. ASSUME NEW o \in Operators, NEW c \in Commits, Checkout(o, c) PROVE ShipTypes' /\ TagInv'
  BY <1>8 DEF Checkout, ShipTypes, TagInv
<1>9. CASE UNCHANGED vars
  BY <1>1, <1>9 DEF vars
<1> QED
  BY <1>2, <1>3, <1>4, <1>5, <1>6, <1>7, <1>8, <1>9 DEF Next, ShipStep

LEMMA NextCounts ==
  ASSUME runs \in Nat, fails \in 0 .. MaxFails, [Next]_vars
  PROVE  runs' \in Nat /\ fails' \in 0 .. MaxFails
<1>0. MaxFails \in Nat
  BY RunsAssumption
<1>1. ASSUME NEW o \in Operators, CommandStep(o) PROVE runs' \in Nat /\ fails' \in 0 .. MaxFails
  BY <1>0, <1>1 DEF CommandStep, ReadManifest, CopyFile, Copied, UploadManifest, VerifyManifest, Mark,
     UploadFile, ListBlobs, DeleteBlob, SyncEnds
<1>2. ASSUME NEW o \in Operators, CallFails(o) \/ StepFails(o) PROVE runs' \in Nat /\ fails' \in 0 .. MaxFails
  BY <1>0, <1>2 DEF CallFails, StepFails
<1>3. ASSUME NEW o \in Operators, NewCommand(o) \/ NewShip(o) PROVE runs' \in Nat /\ fails' \in 0 .. MaxFails
  <2>1. Counted /\ UNCHANGED fails
    BY <1>3 DEF NewCommand, NewShip, Begin, BeginPublish, BeginSync, BeginShip
  <2> QED
    BY <2>1 DEF Counted
<1>4. ASSUME NEW o \in Operators, ShipStep(o) \/ \E c \in Commits : Checkout(o, c)
      PROVE  runs' \in Nat /\ fails' \in 0 .. MaxFails
  BY <1>4 DEF ShipStep, TestPasses, PreflightPasses, Deploy, Begin, Deployed, GateStep, BuildImage,
     PushLatest, PushTag, Checkout
<1>5. CASE UNCHANGED vars
  BY <1>5 DEF vars
<1> QED
  BY <1>1, <1>2, <1>3, <1>4, <1>5 DEF Next, SeedStep

LEMMA InitTypes == Init => TypeOK /\ CopyInv /\ TagInv
<1> SUFFICES ASSUME Init PROVE TypeOK /\ CopyInv /\ TagInv
  OBVIOUS
<1>1. NoJob \in Jobs
  BY DEF NoJob, Jobs
<1>2. bucket \in [Paths -> Held]
  BY PathsAssumption DEF Init, SeedInit, Held
<1>3. SeedTypes /\ runs \in Nat /\ fails \in 0 .. MaxFails
  BY <1>1, <1>2, RunsAssumption DEF Init, SeedInit, SeedTypes, Stages, Held
<1>4. ShipTypes /\ TagInv
  BY PathsAssumption DEF Init, ShipTypes, Ships, TagInv, NoShip
<1>5. CopyInv
  BY DEF Init, SeedInit, CopyInv, NoJob
<1> QED
  BY <1>3, <1>4, <1>5, TypeParts

LEMMA NextTypes ==
  TypeOK /\ CopyInv /\ TagInv /\ [Next]_vars => TypeOK' /\ CopyInv' /\ TagInv'
<1> SUFFICES ASSUME TypeOK, CopyInv, TagInv, [Next]_vars PROVE TypeOK' /\ CopyInv' /\ TagInv'
  OBVIOUS
<1>1. SeedTypes /\ runs \in Nat /\ fails \in 0 .. MaxFails /\ ShipTypes
  BY TypeParts
<1>2. SeedTypes' /\ CopyInv'
  BY <1>1, NextSeedTypes DEF ShipTypes
<1>3. runs' \in Nat /\ fails' \in 0 .. MaxFails
  BY <1>1, NextCounts
<1>4. ShipTypes' /\ TagInv'
  BY <1>1, NextShipTypes
<1> QED
  BY <1>2, <1>3, <1>4 DEF TypeOK, SeedTypeOK, SeedTypes, Stages, Jobs, ShipTypes, Ships

(* The bucket, the manifest, the marker, the stages and the registry keep  *)
(* to their types: only commits are tagged, and only paths of a project    *)
(* are copied or deleted.                                                  *)
THEOREM ShipTypeCorrect == Spec => []TypeOK
  BY InitTypes, NextTypes, PTL DEF Spec

-----------------------------------------------------------------------------
(* The manifest is written by a deploy that has copied its stage, file by  *)
(* file or because the object was there before, so what it lists has been  *)
(* in the bucket, even if somebody else has replaced it since.             *)

Arrived(q, c) == c = None \/ <<q, c>> \in ever

ArrivedInv ==
  /\ \A q \in StagedPaths : Arrived(q, bucket[q])
  /\ seed # None => \A q \in StagedPaths : Arrived(q, seed[q])
  /\ \A o \in Operators, q \in StagedPaths :
       /\ job[o].pc = "rsync" => q \in job[o].todo \/ Arrived(q, stage[o][q])
       /\ job[o].pc = "seal" => Arrived(q, stage[o][q])

LEMMA InitArrived == Init => ArrivedInv
  BY PathsAssumption, StagedArePaths DEF Init, SeedInit, ArrivedInv, Arrived, StagedPaths, NoJob

LEMMA NextArrived ==
  ASSUME SeedTypes, CopyInv, ArrivedInv, NEW o \in Operators, Begins(o) \/ CommandStep(o) \/ CallFails(o)
  PROVE  ArrivedInv'
<1>0. job \in [Operators -> Jobs] /\ bucket \in [Paths -> Held]
  BY DEF SeedTypes
<1>1. \A x \in Operators \ {o} : job'[x] = job[x] /\ stage'[x] = stage[x]
  BY OthersKeep
<1>2. ever \subseteq ever'
  <2>1. CASE Begins(o)
    BY <2>1, BeginsFacts
  <2>2. CASE CallFails(o) \/ ReadManifest(o) \/ Copied(o) \/ UploadManifest(o) \/ VerifyManifest(o) \/ Mark(o)
    BY <2>2 DEF CallFails, ReadManifest, Copied, UploadManifest, VerifyManifest, Mark
  <2>3. CASE CopyFile(o) \/ UploadFile(o) \/ ListBlobs(o) \/ DeleteBlob(o) \/ SyncEnds(o)
    BY <2>3 DEF CopyFile, UploadFile, ListBlobs, DeleteBlob, SyncEnds, Put
  <2> QED
    BY <2>1, <2>2, <2>3 DEF CommandStep
<1>3. ASSUME UNCHANGED <<bucket, seed>>,
             \A q \in StagedPaths :
               /\ job'[o].pc = "rsync" => q \in job'[o].todo \/ Arrived(q, stage[o][q])'
               /\ job'[o].pc = "seal" => Arrived(q, stage[o][q])'
      PROVE  ArrivedInv'
  <2>1. \A q \in StagedPaths : Arrived(q, bucket[q])'
    BY <1>2, <1>3 DEF ArrivedInv, Arrived
  <2>2. seed' # None => \A q \in StagedPaths : Arrived(q, seed[q])'
    BY <1>2, <1>3 DEF ArrivedInv, Arrived
  <2>3. ASSUME NEW x \in Operators \ {o}, NEW q \in StagedPaths
        PROVE  /\ job'[x].pc = "rsync" => q \in job'[x].todo \/ Arrived(q, stage[x][q])'
               /\ job'[x].pc = "seal" => Arrived(q, stage[x][q])'
    BY <1>1, <1>2 DEF ArrivedInv, Arrived
  <2> QED
    BY <1>3, <2>1, <2>2, <2>3 DEF ArrivedInv
<1>4. CASE Begins(o)
  BY <1>3, <1>4, BeginsFacts
<1>5. CASE ReadManifest(o)
  <2>1. \/ job'[o].pc = "verify"
        \/ job'[o].pc = "rsync" /\ job'[o].todo = ToCopy(o)
    BY <1>0, <1>5 DEF ReadManifest, Jobs
  <2>2. \A q \in StagedPaths : q \in ToCopy(o) \/ Arrived(q, stage[o][q])
    BY DEF ToCopy, Arrived, ArrivedInv
  <2>3. UNCHANGED <<bucket, seed, stage, ever>>
    BY <1>5 DEF ReadManifest
  <2> QED
    BY <1>3, <2>1, <2>2, <2>3 DEF Arrived
<1>6. CASE CopyFile(o) \/ UploadFile(o)
  <2>1. PICK r \in StagedPaths :
          /\ Put(r, stage[o][r]) /\ UNCHANGED <<seed, stage>>
          /\ job'[o].pc = job[o].pc
          /\ job[o].pc = "rsync" => job'[o].todo = job[o].todo \ {r}
          /\ job[o].pc # "seal"
    <3>1. CASE CopyFile(o)
      BY <1>0, <3>1 DEF CopyFile, CopyInv, Jobs
    <3>2. CASE UploadFile(o)
      BY <1>0, <3>2 DEF UploadFile, ToUpload, Jobs
    <3> QED
      BY <1>6, <3>1, <3>2
  <2>2. Arrived(r, stage[o][r])' /\ \A q \in StagedPaths : Arrived(q, bucket[q])'
    <3>1. r \in Paths /\ \A q \in StagedPaths : q \in Paths
      BY StagedArePaths
    <3>2. bucket'[r] = stage[o][r] /\ \A q \in Paths \ {r} : bucket'[q] = bucket[q]
      BY <1>0, <2>1, <3>1 DEF Put
    <3>3. <<r, stage[o][r]>> \in ever'
      BY <2>1 DEF Put
    <3>4. \A q \in StagedPaths : Arrived(q, bucket[q])
      BY DEF ArrivedInv
    <3> QED
      BY <1>2, <2>1, <3>1, <3>2, <3>3, <3>4 DEF Arrived
  <2>3. seed' # None => \A q \in StagedPaths : Arrived(q, seed[q])'
    BY <1>2, <2>1 DEF ArrivedInv, Arrived
  <2>4. ASSUME NEW x \in Operators \ {o}, NEW q \in StagedPaths
        PROVE  /\ job'[x].pc = "rsync" => q \in job'[x].todo \/ Arrived(q, stage[x][q])'
               /\ job'[x].pc = "seal" => Arrived(q, stage[x][q])'
    BY <1>1, <1>2 DEF ArrivedInv, Arrived
  <2>5. ASSUME NEW q \in StagedPaths
        PROVE  /\ job'[o].pc = "rsync" => q \in job'[o].todo \/ Arrived(q, stage[o][q])'
               /\ job'[o].pc = "seal" => Arrived(q, stage[o][q])'
    BY <1>2, <2>1, <2>2 DEF ArrivedInv, Arrived
  <2> QED
    BY <2>2, <2>3, <2>4, <2>5 DEF ArrivedInv
<1>7. CASE Copied(o)
  <2>1. job'[o].pc = "seal" /\ job[o].pc = "rsync" /\ job[o].todo = {} /\ UNCHANGED <<bucket, seed, stage, ever>>
    BY <1>0, <1>7 DEF Copied, Goto, Jobs
  <2>2. \A q \in StagedPaths : Arrived(q, stage[o][q])
    BY <2>1 DEF ArrivedInv
  <2> QED
    BY <1>3, <2>1, <2>2 DEF Arrived
<1>8. CASE UploadManifest(o)
  <2>1. job[o].pc = "seal" /\ job'[o].pc = "verify" /\ seed' = stage[o] /\ UNCHANGED <<bucket, stage, ever>>
    BY <1>0, <1>8 DEF UploadManifest, Goto, Jobs
  <2> QED
    BY <1>1, <2>1 DEF ArrivedInv, Arrived
<1>9. CASE VerifyManifest(o) \/ Mark(o) \/ ListBlobs(o) \/ SyncEnds(o) \/ CallFails(o)
  <2>1. job'[o].pc \notin {"rsync", "seal"} /\ UNCHANGED <<bucket, seed>>
    <3>1. CASE VerifyManifest(o) \/ Mark(o) \/ SyncEnds(o)
      BY <1>0, <3>1 DEF VerifyManifest, Mark, SyncEnds, Goto, Ends, Jobs
    <3>2. CASE ListBlobs(o) \/ CallFails(o)
      BY <1>0, <3>2 DEF ListBlobs, CallFails, Ends, Jobs
    <3> QED
      BY <1>9, <3>1, <3>2
  <2> QED
    BY <1>3, <2>1
<1>10. CASE DeleteBlob(o)
  <2>1. job'[o].pc \notin {"rsync", "seal"} /\ UNCHANGED <<seed, stage, ever>>
    BY <1>0, <1>10 DEF DeleteBlob, Ends, Jobs
  <2>2. \A q \in StagedPaths : bucket'[q] \in {bucket[q], None}
    BY <1>0, <1>10, StagedArePaths DEF DeleteBlob
  <2> QED
    BY <1>1, <2>1, <2>2 DEF ArrivedInv, Arrived
<1> QED
  BY <1>4, <1>5, <1>6, <1>7, <1>8, <1>9, <1>10 DEF CommandStep

(* What the manifest of the last deploy lists has been in the bucket with  *)
(* that content, whoever deploys, publishes or fails at the same time.     *)
THEOREM ManifestListsWhatArrived == Spec => []SeedArrived
<1>1. Init => TypeOK /\ CopyInv /\ TagInv /\ ArrivedInv
  BY InitTypes, InitArrived
<1>2. TypeOK /\ CopyInv /\ TagInv /\ ArrivedInv /\ [Next]_vars => ArrivedInv'
  <2> SUFFICES ASSUME TypeOK, CopyInv, ArrivedInv, [Next]_vars PROVE ArrivedInv'
    OBVIOUS
  <2>1. CASE UNCHANGED <<mode, bucket, seed, marker, stage, job, ever>>
    BY <2>1 DEF ArrivedInv, Arrived
  <2> QED
    BY <2>1, TypeParts, NextArrived, SeedSteps DEF ShipTypes
<1>3. ArrivedInv => SeedArrived
  BY DEF ArrivedInv, Arrived, SeedArrived
<1> QED
  BY <1>1, <1>2, <1>3, NextTypes, PTL DEF Spec

-----------------------------------------------------------------------------
(* One command after the other: a deploy that copies has its stage in the  *)
(* bucket when it verifies, whatever an earlier command left behind.       *)

InBucket(o, q) == stage[o][q] # None => bucket[q] = stage[o][q]

SerialInv ==
  mode # "free" =>
    /\ \A x, y \in Operators : Busy(x) /\ Busy(y) => x = y
    /\ \A o \in Operators, q \in StagedPaths :
         /\ job[o].pc = "rsync" => q \in job[o].todo \/ InBucket(o, q)
         /\ job[o].pc = "seal" => InBucket(o, q)
         /\ job[o].pc \in {"verify", "mark"} /\ ~job[o].skipped => InBucket(o, q)

\* Only deploys, none of which fails: the manifest may be trusted, except
\* while a deploy is copying.
Rests(o) == job[o].pc \notin {"rsync", "seal"}

DeployInv ==
  mode \in {"ci", "tame"} =>
    /\ \A o \in Operators : Busy(o) => job[o].pc \in {"read", "rsync", "seal", "verify", "mark"}
    /\ \A o \in Operators : job[o].pc \in {"verify", "mark"} => seed = stage[o]
    /\ seed # None /\ (\A o \in Operators : Rests(o))
         => \A q \in StagedPaths : seed[q] # None => bucket[q] = seed[q]

\* Only releases: the marker names the commit the manifest describes.
ReleaseInv ==
  mode = "ci" =>
    /\ \A o \in Operators : Busy(o) =>
         job[o].cmd = "release" /\ job[o].commit \in Commits /\ stage[o] = Tree[job[o].commit]
    /\ marker # None /\ (\A o \in Operators : ~Busy(o)) => seed = Tree[marker]

OrderInv == SerialInv /\ DeployInv /\ ReleaseInv

LEMMA InitOrder == Init => OrderInv
  BY DEF Init, SeedInit, OrderInv, SerialInv, DeployInv, ReleaseInv, Busy, Rests, NoJob

LEMMA OrderKept ==
  ASSUME OrderInv, UNCHANGED <<mode, bucket, seed, marker, stage, job, ever>>
  PROVE  OrderInv'
  BY DEF OrderInv, SerialInv, DeployInv, ReleaseInv, Busy, Rests, InBucket

\* Outside of "free", who steps is the only one whose command runs.
LEMMA StepOfOne ==
  ASSUME SeedTypes, SerialInv, NEW o \in Operators, Begins(o) \/ CommandStep(o) \/ CallFails(o)
  PROVE  /\ UNCHANGED mode
         /\ mode # "free" => \A x \in Operators \ {o} : ~Busy(x)
<1>1. CASE Begins(o)
  BY <1>1, BeginsFacts
<1>2. CASE CallFails(o) \/ CommandStep(o)
  <2>1. UNCHANGED mode /\ Busy(o)
    BY <1>2 DEF CallFails, CommandStep, ReadManifest, CopyFile, Copied, UploadManifest, VerifyManifest, Mark,
       UploadFile, ListBlobs, DeleteBlob, SyncEnds, Busy
  <2> QED
    BY <2>1 DEF SerialInv
<1> QED
  BY <1>1, <1>2

LEMMA NextSerial ==
  ASSUME SeedTypes, CopyInv, SerialInv, NEW o \in Operators, Begins(o) \/ CommandStep(o) \/ CallFails(o)
  PROVE  SerialInv'
<1>0. job \in [Operators -> Jobs] /\ bucket \in [Paths -> Held]
  BY DEF SeedTypes
<1>1. \A x \in Operators \ {o} : job'[x] = job[x] /\ stage'[x] = stage[x]
  BY OthersKeep
<1>m. UNCHANGED mode /\ (mode # "free" => \A x \in Operators \ {o} : ~Busy(x))
  BY StepOfOne
<1> SUFFICES ASSUME mode # "free"
             PROVE  /\ (\A x, y \in Operators : Busy(x) /\ Busy(y) => x = y)'
                    /\ \A x \in Operators, q \in StagedPaths :
                         /\ job'[x].pc = "rsync" => q \in job'[x].todo \/ InBucket(x, q)'
                         /\ job'[x].pc = "seal" => InBucket(x, q)'
                         /\ job'[x].pc \in {"verify", "mark"} /\ ~job'[x].skipped => InBucket(x, q)'
  BY <1>m DEF SerialInv
<1>2. \A x \in Operators \ {o} : ~Busy(x)
  BY <1>m
<1>3. (\A x, y \in Operators : Busy(x) /\ Busy(y) => x = y)'
  BY <1>1, <1>2 DEF Busy
<1>4. SUFFICES ASSUME NEW q \in StagedPaths
               PROVE  /\ job'[o].pc = "rsync" => q \in job'[o].todo \/ InBucket(o, q)'
                      /\ job'[o].pc = "seal" => InBucket(o, q)'
                      /\ job'[o].pc \in {"verify", "mark"} /\ ~job'[o].skipped => InBucket(o, q)'
  BY <1>1, <1>2, <1>3 DEF Busy
<1>5. /\ job[o].pc = "rsync" => q \in job[o].todo \/ InBucket(o, q)
      /\ job[o].pc = "seal" => InBucket(o, q)
      /\ job[o].pc \in {"verify", "mark"} /\ ~job[o].skipped => InBucket(o, q)
  BY DEF SerialInv
<1>6. CASE Begins(o)
  BY <1>6, BeginsFacts
<1>7. CASE ReadManifest(o)
  <2>1. \/ job'[o].pc = "verify" /\ job'[o].skipped
        \/ job'[o].pc = "rsync" /\ job'[o].todo = ToCopy(o)
    BY <1>0, <1>7 DEF ReadManifest, Jobs
  <2>2. UNCHANGED <<bucket, stage>>
    BY <1>7 DEF ReadManifest
  <2> QED
    BY <2>1, <2>2 DEF ToCopy, InBucket
<1>8. CASE CopyFile(o)
  <2>1. PICK r \in job[o].todo : Put(r, stage[o][r]) /\ job' = [job EXCEPT ![o].todo = @ \ {r}]
    BY <1>8 DEF CopyFile
  <2>2. job[o].pc = "rsync" /\ r \in StagedPaths /\ UNCHANGED stage
    BY <1>8, <2>1 DEF CopyFile, CopyInv
  <2>3. job'[o].pc = "rsync" /\ job'[o].todo = job[o].todo \ {r}
    BY <1>0, <2>1, <2>2 DEF Jobs
  <2>4. bucket'[r] = stage[o][r] /\ (q # r => bucket'[q] = bucket[q])
    BY <1>0, <2>1, <2>2, StagedArePaths DEF Put
  <2> QED
    BY <1>5, <2>2, <2>3, <2>4 DEF InBucket
<1>9. CASE Copied(o) \/ UploadManifest(o)
  <2>1. UNCHANGED <<bucket, stage>> /\ InBucket(o, q)
    BY <1>5, <1>9 DEF Copied, UploadManifest
  <2>2. job'[o].pc # "rsync"
    BY <1>0, <1>9 DEF Copied, UploadManifest, Goto, Jobs
  <2> QED
    BY <2>1, <2>2 DEF InBucket
<1>10. CASE VerifyManifest(o)
  <2>1. UNCHANGED <<bucket, stage>> /\ job[o].pc = "verify" /\ job'[o].skipped = job[o].skipped
    BY <1>0, <1>10 DEF VerifyManifest, Ends, Jobs
  <2>2. job'[o].pc \in {"failed", "mark", "done"}
    BY <1>0, <1>10 DEF VerifyManifest, Ends, Jobs
  <2> QED
    BY <1>5, <2>1, <2>2 DEF InBucket
<1>11. CASE Mark(o) \/ SyncEnds(o) \/ ListBlobs(o) \/ CallFails(o)
  <2>1. job'[o].pc \in {"done", "delete", "failed"}
    BY <1>0, <1>11 DEF Mark, SyncEnds, ListBlobs, CallFails, Goto, Ends, Jobs
  <2> QED
    BY <2>1
<1>12. CASE UploadFile(o) \/ DeleteBlob(o)
  <2>1. job'[o].pc \in {"upload", "delete", "failed"}
    BY <1>0, <1>12 DEF UploadFile, DeleteBlob, Ends, Jobs
  <2> QED
    BY <2>1
<1> QED
  BY <1>6, <1>7, <1>8, <1>9, <1>10, <1>11, <1>12 DEF CommandStep

\* Where deploys alone write, only they begin.
LEMMA BeginsDeploy ==
  ASSUME SeedTypes, NEW o \in Operators, Begins(o), mode \in {"ci", "tame"}
  PROVE  /\ job'[o].pc = "read" /\ Rests(o)
         /\ mode = "ci" =>
              job'[o].cmd = "release" /\ job'[o].commit \in Commits /\ stage'[o] = Tree[job'[o].commit]
<1>1. PICK cmd \in {"deploy", "release"}, c \in Commits : Begin(o, cmd, c)
  BY DEF Begins, BeginPublish, BeginSync, Starts
<1>2. /\ job' = [job EXCEPT ![o] = [NoJob EXCEPT !.cmd = cmd, !.commit = c, !.project = None, !.pc = "read"]]
      /\ stage' = [stage EXCEPT ![o] = Materialized(o, c, TRUE)]
      /\ ~Busy(o) /\ (mode = "ci" => cmd = "release")
  BY <1>1 DEF Begin, Starts
<1>3. job'[o].pc = "read" /\ job'[o].cmd = cmd /\ job'[o].commit = c /\ stage'[o] = Materialized(o, c, TRUE)
  BY <1>2 DEF SeedTypes, NoJob
<1>4. Materialized(o, c, TRUE) = Tree[c]
  BY TreeAssumption DEF Materialized
<1> QED
  BY <1>2, <1>3, <1>4 DEF Busy, Rests

LEMMA NextDeploy ==
  ASSUME SeedTypes, SerialInv, DeployInv, NEW o \in Operators, Begins(o) \/ CommandStep(o) \/ CallFails(o)
  PROVE  DeployInv'
<1>0. job \in [Operators -> Jobs]
  BY DEF SeedTypes
<1>1. \A x \in Operators \ {o} : job'[x] = job[x] /\ stage'[x] = stage[x]
  BY OthersKeep
<1> SUFFICES ASSUME mode \in {"ci", "tame"}
             PROVE  /\ (\A x \in Operators : Busy(x) => job[x].pc \in {"read", "rsync", "seal", "verify", "mark"})'
                    /\ (\A x \in Operators : job[x].pc \in {"verify", "mark"} => seed = stage[x])'
                    /\ seed' # None /\ (\A x \in Operators : Rests(x))'
                         => \A q \in StagedPaths : seed'[q] # None => bucket'[q] = seed'[q]
  BY StepOfOne DEF DeployInv
<1>2. \A x \in Operators \ {o} : job[x].pc \in {"idle", "done", "failed"}
  BY StepOfOne DEF Busy
<1>3. SUFFICES /\ job'[o].pc \in {"idle", "done", "failed", "read", "rsync", "seal", "verify", "mark"}
               /\ job'[o].pc \in {"verify", "mark"} => seed' = stage'[o]
               /\ seed' # None /\ job'[o].pc \notin {"rsync", "seal"}
                    => \A q \in StagedPaths : seed'[q] # None => bucket'[q] = seed'[q]
  BY <1>1, <1>2 DEF Busy, Rests
<1>4. /\ Busy(o) => job[o].pc \in {"read", "rsync", "seal", "verify", "mark"}
      /\ job[o].pc \in {"verify", "mark"} => seed = stage[o]
      /\ seed # None /\ Rests(o) => \A q \in StagedPaths : seed[q] # None => bucket[q] = seed[q]
  BY <1>2 DEF DeployInv, Rests
<1>5. CASE Begins(o)
  BY <1>4, <1>5, BeginsDeploy, BeginsFacts
<1>6. CASE ReadManifest(o)
  <2>1. \/ job'[o].pc = "verify" /\ seed = stage[o]
        \/ job'[o].pc = "rsync"
    BY <1>0, <1>6 DEF ReadManifest, Jobs
  <2>2. UNCHANGED <<bucket, seed, stage>> /\ Rests(o)
    BY <1>6 DEF ReadManifest, Rests
  <2> QED
    BY <1>4, <2>1, <2>2
<1>7. CASE CopyFile(o) \/ Copied(o)
  BY <1>0, <1>7 DEF CopyFile, Copied, Goto, Jobs
<1>8. CASE UploadManifest(o)
  <2>1. /\ job[o].pc = "seal" /\ job'[o].pc = "verify"
        /\ seed' = stage[o] /\ UNCHANGED <<bucket, stage>>
    BY <1>0, <1>8 DEF UploadManifest, Goto, Jobs
  <2>2. \A q \in StagedPaths : InBucket(o, q)
    BY <2>1 DEF SerialInv
  <2> QED
    BY <2>1, <2>2 DEF InBucket
<1>9. CASE VerifyManifest(o) \/ Mark(o)
  <2>1. /\ job[o].pc \in {"verify", "mark"} /\ job'[o].pc \in {"mark", "done", "failed"}
        /\ UNCHANGED <<bucket, seed, stage>>
    BY <1>0, <1>9 DEF VerifyManifest, Mark, Goto, Ends, Jobs
  <2> QED
    BY <1>4, <2>1 DEF Rests
<1>10. CASE UploadFile(o) \/ ListBlobs(o) \/ DeleteBlob(o) \/ SyncEnds(o)
  BY <1>4, <1>10 DEF UploadFile, ListBlobs, DeleteBlob, SyncEnds, Busy
<1>11. CASE CallFails(o)
  BY <1>11 DEF CallFails
<1> QED
  BY <1>5, <1>6, <1>7, <1>8, <1>9, <1>10, <1>11 DEF CommandStep

LEMMA NextRelease ==
  ASSUME SeedTypes, SerialInv, DeployInv, ReleaseInv,
         NEW o \in Operators, Begins(o) \/ CommandStep(o) \/ CallFails(o)
  PROVE  ReleaseInv'
<1>0. job \in [Operators -> Jobs]
  BY DEF SeedTypes
<1>1. \A x \in Operators \ {o} : job'[x] = job[x] /\ stage'[x] = stage[x]
  BY OthersKeep
<1> SUFFICES ASSUME mode = "ci"
             PROVE  /\ (\A x \in Operators : Busy(x) =>
                          job[x].cmd = "release" /\ job[x].commit \in Commits /\ stage[x] = Tree[job[x].commit])'
                    /\ marker' # None /\ (\A x \in Operators : ~Busy(x))' => seed' = Tree[marker']
  BY StepOfOne DEF ReleaseInv
<1>2. \A x \in Operators \ {o} : ~Busy(x)
  BY StepOfOne
<1>3. SUFFICES /\ Busy(o)' => /\ job'[o].cmd = "release" /\ job'[o].commit \in Commits
                              /\ stage'[o] = Tree[job'[o].commit]
               /\ marker' # None /\ ~Busy(o)' => seed' = Tree[marker']
  BY <1>1, <1>2 DEF Busy
<1>4. /\ Busy(o) => job[o].cmd = "release" /\ job[o].commit \in Commits /\ stage[o] = Tree[job[o].commit]
      /\ Busy(o) => job[o].pc \in {"read", "rsync", "seal", "verify", "mark"}
      /\ job[o].pc \in {"verify", "mark"} => seed = stage[o]
  BY DEF ReleaseInv, DeployInv
<1>5. CASE Begins(o)
  BY <1>5, BeginsDeploy DEF Busy
<1>6. CASE ReadManifest(o) \/ CopyFile(o) \/ Copied(o) \/ UploadManifest(o) \/ VerifyManifest(o)
  <2>1. Busy(o) /\ UNCHANGED stage
    BY <1>6 DEF ReadManifest, CopyFile, Copied, UploadManifest, VerifyManifest, Busy
  <2>2. job'[o].cmd = job[o].cmd /\ job'[o].commit = job[o].commit
    <3>1. CASE ReadManifest(o) \/ CopyFile(o)
      BY <1>0, <3>1 DEF ReadManifest, CopyFile, Jobs
    <3>2. CASE Copied(o) \/ UploadManifest(o) \/ VerifyManifest(o)
      BY <1>0, <3>2 DEF Copied, UploadManifest, VerifyManifest, Goto, Ends, Jobs
    <3> QED
      BY <1>6, <3>1, <3>2
  <2>3. Busy(o)'
    <3>1. CASE ReadManifest(o) \/ CopyFile(o)
      BY <1>0, <3>1 DEF ReadManifest, CopyFile, Jobs, Busy
    <3>2. CASE Copied(o) \/ UploadManifest(o)
      BY <1>0, <3>2 DEF Copied, UploadManifest, Goto, Jobs, Busy
    <3>3. CASE VerifyManifest(o)
      BY <1>0, <1>4, <2>1, <3>3 DEF VerifyManifest, Ends, Jobs, Busy
    <3> QED
      BY <1>6, <3>1, <3>2, <3>3
  <2> QED
    BY <1>4, <2>1, <2>2, <2>3
<1>7. CASE Mark(o)
  <2>1. /\ job[o].pc = "mark" /\ job'[o].pc = "done" /\ marker' = job[o].commit /\ UNCHANGED seed
    BY <1>0, <1>7 DEF Mark, Goto, Jobs
  <2> QED
    BY <1>4, <2>1 DEF Busy
<1>8. CASE UploadFile(o) \/ ListBlobs(o) \/ DeleteBlob(o) \/ SyncEnds(o)
  BY <1>4, <1>8 DEF UploadFile, ListBlobs, DeleteBlob, SyncEnds, Busy
<1>9. CASE CallFails(o)
  BY <1>9 DEF CallFails
<1> QED
  BY <1>5, <1>6, <1>7, <1>8, <1>9 DEF CommandStep

SeedInv == TypeOK /\ CopyInv /\ TagInv /\ OrderInv

LEMMA SeedInvInit == Init => SeedInv
  BY InitTypes, InitOrder DEF SeedInv

LEMMA SeedInvNext == SeedInv /\ [Next]_vars => SeedInv'
<1> SUFFICES ASSUME SeedInv, [Next]_vars PROVE OrderInv'
  BY NextTypes DEF SeedInv
<1>1. CASE UNCHANGED <<mode, bucket, seed, marker, stage, job, ever>>
  BY <1>1, OrderKept DEF SeedInv
<1>2. ASSUME NEW o \in Operators, Begins(o) \/ CommandStep(o) \/ CallFails(o) PROVE OrderInv'
  BY <1>2, TypeParts, NextSerial, NextDeploy, NextRelease DEF SeedInv, OrderInv
<1> QED
  BY <1>1, <1>2, TypeParts, SeedSteps DEF SeedInv, ShipTypes

(* A deploy that reports success has its stage in the bucket: one that     *)
(* copied, even after commands that stopped halfway; one that was skipped, *)
(* where only deploys write and none fails.                                *)
THEOREM VerifiedMeansInBucket == Spec => VerifiedSeedIsInBucket
<1>1. SeedInv /\ [Next]_vars =>
        [\A o \in Operators :
           /\ mode # "free" /\ Deploying(o) /\ job[o].pc = "verify" /\ job'[o].pc \in {"mark", "done"}
           /\ job[o].skipped => mode \in {"ci", "tame"}
           => Covered(o)]_seedVars
  <2> SUFFICES ASSUME SeedInv, NEW o \in Operators, mode # "free", job[o].pc = "verify",
                      job[o].skipped => mode \in {"ci", "tame"},
                      NEW q \in StagedPaths, stage[o][q] # None
               PROVE  bucket[q] = stage[o][q]
    BY DEF Covered
  <2>1. CASE ~job[o].skipped
    BY <2>1 DEF SeedInv, OrderInv, SerialInv, InBucket
  <2>2. CASE job[o].skipped
    <3>1. mode \in {"ci", "tame"} /\ seed = stage[o]
      BY <2>2 DEF SeedInv, OrderInv, DeployInv
    <3>2. seed # None
      BY <3>1, TypeParts, NoneAssumption DEF SeedInv, SeedTypes, Stages, Held
    <3>3. \A x \in Operators : Rests(x)
      BY DEF SeedInv, OrderInv, SerialInv, Busy, Rests
    <3> QED
      BY <3>1, <3>2, <3>3 DEF SeedInv, OrderInv, DeployInv
  <2> QED
    BY <2>1, <2>2 DEF SeedInv, TypeOK, SeedTypeOK
<1> QED
  BY <1>1, SeedInvInit, SeedInvNext, PTL DEF Spec, VerifiedSeedIsInBucket

(* With releases only, one after the other, the commit a handoff is        *)
(* admitted for is the one whose sources the bucket serves.                *)
THEOREM AdmittedMeansServed == Spec => []AdmittedCommitIsServed
<1>1. SeedInv => AdmittedCommitIsServed
  <2> SUFFICES ASSUME SeedInv, NEW c \in Commits, mode = "ci", marker = c, \A o \in Operators : ~Busy(o),
                      NEW q \in StagedPaths, Tree[c][q] # None
               PROVE  bucket[q] = Tree[c][q]
    BY DEF AdmittedCommitIsServed, AssertMatches
  <2>1. seed = Tree[c] /\ seed # None
    BY NoneAssumption, TreeType DEF SeedInv, OrderInv, ReleaseInv, Stages, Held
  <2>2. \A o \in Operators : Rests(o)
    BY DEF Busy, Rests
  <2> QED
    BY <2>1, <2>2 DEF SeedInv, OrderInv, DeployInv
<1> QED
  BY <1>1, SeedInvInit, SeedInvNext, PTL DEF Spec

-----------------------------------------------------------------------------
(* A ship.  Unless commands overlap it has the bucket and the registry to  *)
(* itself from the decision about the image to its last step, so that what *)
(* it found is still so when it is done.                                   *)

Alone(o) ==
  \A x \in Operators :
    /\ Shipping(x) => x = o
    /\ Busy(x) => x = o /\ ship[o].at = "deploying"

\* Without an image step the registry had the tag.
ImageOf(o) ==
  Shipping(o) =>
    /\ Alone(o)
    /\ ~ship[o].image => registry[head[o]] # None
    /\ ship[o].at \in {"push", "tag"} => local[o] # None
    /\ ship[o].at = "tag" => ship[o].tag = head[o]

ImageInv == mode # "free" => \A o \in Operators : ImageOf(o)

\* Clean trees and working calls: a tag has nothing but the image of its
\* commit, and after its deploy the ship finds its sources in the bucket.
CleanOf(o) ==
  /\ ship[o].at \in {"push", "tag"} => local[o] = Runtime[head[o]]
  /\ \/ ship[o].at \in {"gate", "build", "push", "tag"}
     \/ ship[o].at = "deploying" /\ job[o].pc = "done"
     => Covered(o)

CleanInv ==
  mode = "tame" =>
    /\ edited = {} /\ \A c \in Commits : registry[c] \in {None, Runtime[c]}
    /\ \A o \in Operators : CleanOf(o)

ShipInv == ImageInv /\ CleanInv

LEMMA InitShip == Init => ShipInv
  BY DEF Init, ShipInv, ImageInv, ImageOf, CleanInv, CleanOf, Shipping, NoShip

LEMMA ShipKept == ASSUME ShipInv, UNCHANGED vars PROVE ShipInv'
  BY DEF vars, ShipInv, ImageInv, ImageOf, Alone, CleanInv, CleanOf, Shipping, Busy, Covered

\* A deploy about to end where deploys alone write has its stage in the
\* bucket, copied by itself or by the one whose manifest it found.
LEMMA VerifiedCovers ==
  ASSUME SeedInv, mode \in {"ci", "tame"}, NEW o \in Operators, job[o].pc \in {"verify", "mark"}
  PROVE  Covered(o)
<1> SUFFICES ASSUME NEW q \in StagedPaths, stage[o][q] # None PROVE bucket[q] = stage[o][q]
  BY DEF Covered
<1>1. seed = stage[o] /\ seed # None
  <2>1. seed = stage[o]
    BY DEF SeedInv, OrderInv, DeployInv
  <2> QED
    BY <2>1, TypeParts, NoneAssumption DEF SeedInv, SeedTypes, Stages, Held
<1>2. \A x \in Operators : Rests(x)
  BY DEF SeedInv, OrderInv, SerialInv, Busy, Rests
<1> QED
  BY <1>1, <1>2 DEF SeedInv, OrderInv, DeployInv

LEMMA ModeStays == ASSUME SeedInv, [Next]_vars PROVE mode' = mode
  BY SeedSteps, StepOfOne, TypeParts DEF SeedInv, OrderInv, ShipTypes

\* The commands of RuntimeSeed, the ship's own deploy among them.
LEMMA SeedStepKeeps ==
  ASSUME SeedInv, ShipInv, mode # "free", mode' = mode, NEW y \in Operators, SeedStep(y)
  PROVE  ShipInv'
<1>0. SeedTypes /\ job \in [Operators -> Jobs] /\ UNCHANGED shipVars
  BY TypeParts DEF SeedInv, SeedTypes, SeedStep
<1>1. CASE NewCommand(y) /\ \A x \in Operators : ~Shipping(x)
  BY <1>0, <1>1 DEF ShipInv, ImageInv, ImageOf, CleanInv, CleanOf, Shipping
<1>2. CASE CommandStep(y) \/ CallFails(y)
  <2>1. Busy(y)
    BY <1>2 DEF CallFails, CommandStep, ReadManifest, CopyFile, Copied, UploadManifest, VerifyManifest, Mark,
       UploadFile, ListBlobs, DeleteBlob, SyncEnds, Busy
  <2>2. \A x \in Operators \ {y} : job'[x] = job[x]
    BY <1>0, <1>2, OthersKeep
  <2>3. \A o \in Operators : Shipping(o) => o = y /\ ship[o].at = "deploying"
    BY <2>1 DEF ShipInv, ImageInv, ImageOf, Alone
  <2>4. ImageInv'
    BY <1>0, <2>2, <2>3 DEF ShipInv, ImageInv, ImageOf, Alone, Shipping, Busy
  <2>5. ASSUME mode = "tame", ship[y].at = "deploying", job'[y].pc = "done" PROVE Covered(y)'
    <3>1. job[y].pc \in {"read", "rsync", "seal", "verify", "mark"} /\ mode \in {"ci", "tame"}
      BY <2>1, <2>5 DEF SeedInv, OrderInv, DeployInv
    <3>2. ~CallFails(y)
      BY <2>5 DEF CallFails
    <3>3. ~(ReadManifest(y) \/ CopyFile(y) \/ Copied(y) \/ UploadManifest(y))
      BY <1>0, <2>5 DEF ReadManifest, CopyFile, Copied, UploadManifest, Goto, Jobs
    <3>4. ~(UploadFile(y) \/ ListBlobs(y) \/ DeleteBlob(y) \/ SyncEnds(y))
      BY <3>1 DEF UploadFile, ListBlobs, DeleteBlob, SyncEnds
    <3>5. VerifyManifest(y) \/ Mark(y)
      BY <1>2, <3>2, <3>3, <3>4 DEF CommandStep
    <3>6. job[y].pc \in {"verify", "mark"} /\ UNCHANGED <<bucket, stage>>
      BY <3>5 DEF VerifyManifest, Mark
    <3> QED
      BY <3>1, <3>6, VerifiedCovers DEF Covered
  <2>6. CleanInv'
    BY <1>0, <2>3, <2>5 DEF ShipInv, CleanInv, CleanOf, Shipping
  <2> QED
    BY <2>4, <2>6 DEF ShipInv
<1> QED
  BY <1>1, <1>2 DEF SeedStep

\* What a step of the ship of o has to show.
LEMMA OwnShip ==
  ASSUME ShipInv, mode # "free", mode' = mode, NEW o \in Operators,
         \A x \in Operators \ {o} : ~Shipping(x) /\ ~Busy(x) /\ ship'[x] = ship[x] /\ job'[x] = job[x],
         Shipping(o)' =>
           /\ Busy(o)' => ship'[o].at = "deploying"
           /\ ~ship'[o].image => registry'[head'[o]] # None
           /\ ship'[o].at \in {"push", "tag"} => local'[o] # None
           /\ ship'[o].at = "tag" => ship'[o].tag = head'[o],
         mode = "tame" =>
           edited' = {} /\ (\A c \in Commits : registry'[c] \in {None, Runtime[c]}) /\ CleanOf(o)'
  PROVE  ShipInv'
<1>1. \A x \in Operators \ {o} : ~Shipping(x)' /\ ~Busy(x)'
  BY DEF Shipping, Busy
<1>2. ImageInv'
  BY <1>1 DEF ImageInv, ImageOf, Alone
<1>3. CleanInv'
  BY <1>1 DEF CleanInv, CleanOf, Shipping
<1> QED
  BY <1>2, <1>3 DEF ShipInv

LEMMA ShipStepKeeps ==
  ASSUME SeedInv, ShipInv, mode # "free", mode' = mode, NEW o \in Operators, ShipStep(o)
  PROVE  ShipInv'
<1>0. /\ ship \in [Operators -> Ships] /\ job \in [Operators -> Jobs] /\ head \in [Operators -> Commits]
      /\ local \in [Operators -> Builds \cup {None}] /\ registry \in [Commits \cup {Latest} -> Builds \cup {None}]
  BY TypeParts DEF SeedInv, SeedTypes, ShipTypes
<1>1. Shipping(o)
  BY DEF ShipStep, TestPasses, PreflightPasses, Deploy, Deployed, GateStep, BuildImage, PushLatest, PushTag, Shipping
<1>2. ImageOf(o) /\ Alone(o)
  BY <1>1 DEF ShipInv, ImageInv, ImageOf
<1>3. mode = "tame" => edited = {} /\ (\A c \in Commits : registry[c] \in {None, Runtime[c]}) /\ CleanOf(o)
  BY DEF ShipInv, CleanInv
<1>4. \A x \in Operators \ {o} : ~Shipping(x) /\ ~Busy(x)
  BY <1>2 DEF Alone
<1>5. ship[o].at # "deploying" => ~Busy(o)
  BY <1>2 DEF Alone
<1>6. CASE TestPasses(o) \/ PreflightPasses(o)
  <2>1. PICK at \in {"preflight", "deploy", "failed"} : ship' = [ship EXCEPT ![o].at = at]
    BY <1>6 DEF TestPasses, PreflightPasses, Reach
  <2>2. ship[o].at # "deploying" /\ UNCHANGED <<bucket, stage, job, head, edited, local, registry>>
    BY <1>6 DEF TestPasses, PreflightPasses
  <2>3. ship'[o].at = at /\ ship'[o].image = ship[o].image /\ \A x \in Operators \ {o} : ship'[x] = ship[x]
    BY <1>0, <2>1 DEF Ships
  <2> QED
    BY <1>1, <1>2, <1>3, <1>4, <1>5, <2>2, <2>3, OwnShip DEF ImageOf, CleanOf, Busy
<1>7. CASE Deploy(o)
  <2>1. Begins(o) /\ ship' = [ship EXCEPT ![o].at = "deploying"] /\ UNCHANGED <<head, edited, local, registry>>
    BY <1>0, <1>7 DEF Deploy, Begins, Reach
  <2>2. ship'[o].at = "deploying" /\ ship'[o].image = ship[o].image /\ \A x \in Operators \ {o} : ship'[x] = ship[x]
    BY <1>0, <2>1 DEF Ships
  <2>3. job'[o].pc # "done" /\ \A x \in Operators \ {o} : job'[x] = job[x]
    BY <2>1, TypeParts, BeginsFacts, OthersKeep DEF SeedInv
  <2> QED
    BY <1>1, <1>2, <1>3, <1>4, <2>1, <2>2, <2>3, OwnShip DEF ImageOf, CleanOf
<1>8. CASE Deployed(o)
  <2>1. /\ ship[o].at = "deploying" /\ ~Busy(o) /\ UNCHANGED <<bucket, stage, job, head, edited, local, registry>>
        /\ ship' = [ship EXCEPT ![o].at = IF job[o].pc = "done" THEN "gate" ELSE "failed"]
    BY <1>8 DEF Deployed, Reach
  <2>2. /\ ship'[o].at = (IF job[o].pc = "done" THEN "gate" ELSE "failed") /\ ship'[o].image = ship[o].image
        /\ \A x \in Operators \ {o} : ship'[x] = ship[x]
    BY <1>0, <2>1 DEF Ships
  <2> QED
    BY <1>1, <1>2, <1>3, <1>4, <2>1, <2>2, OwnShip DEF ImageOf, CleanOf, Covered, Busy
<1>9. CASE GateStep(o)
  <2>1. ship[o].at = "gate" /\ UNCHANGED <<bucket, stage, job, head, edited, local, registry>>
    BY <1>9 DEF GateStep
  <2>2. PICK at \in {"failed", "build", "done"} : ship' = [ship EXCEPT ![o].at = at]
    BY <1>9 DEF GateStep, Reach
  <2>3. ship'[o].at = at /\ ship'[o].image = ship[o].image /\ \A x \in Operators \ {o} : ship'[x] = ship[x]
    BY <1>0, <2>2 DEF Ships
  <2> QED
    BY <1>1, <1>2, <1>3, <1>4, <1>5, <2>1, <2>3, OwnShip DEF ImageOf, CleanOf, Covered, Busy
<1>10. CASE BuildImage(o)
  <2>1. /\ ship[o].at = "build" /\ UNCHANGED <<bucket, stage, job, head, edited, registry>>
        /\ ship' = [ship EXCEPT ![o].at = "push"]
        /\ local' = [local EXCEPT ![o] = IF o \in edited THEN Edited ELSE Runtime[head[o]]]
    BY <1>10 DEF BuildImage, Reach
  <2>2. ship'[o].at = "push" /\ ship'[o].image = ship[o].image /\ \A x \in Operators \ {o} : ship'[x] = ship[x]
    BY <1>0, <2>1 DEF Ships
  <2>3. local'[o] = IF o \in edited THEN Edited ELSE Runtime[head[o]]
    BY <1>0, <2>1
  <2>4. local'[o] # None
    BY <1>0, <2>3, BuildsAssumption DEF Builds
  <2> QED
    BY <1>1, <1>2, <1>3, <1>4, <1>5, <2>1, <2>2, <2>3, <2>4, OwnShip DEF ImageOf, CleanOf, Covered, Busy
<1>11. CASE PushLatest(o)
  <2>1. /\ ship[o].at = "push" /\ UNCHANGED <<bucket, stage, job, head, edited, local>>
        /\ ship' = [ship EXCEPT ![o].at = "tag", ![o].tag = head[o]]
        /\ registry' = [registry EXCEPT ![Latest] = local[o]]
    BY <1>11 DEF PushLatest
  <2>2. /\ ship'[o].at = "tag" /\ ship'[o].image = ship[o].image /\ ship'[o].tag = head[o]
        /\ \A x \in Operators \ {o} : ship'[x] = ship[x]
    BY <1>0, <2>1 DEF Ships
  <2>3. \A c \in Commits : registry'[c] = registry[c]
    BY <1>0, <2>1, BuildsAssumption
  <2>4. ~ship'[o].image => registry'[head'[o]] # None
    BY <1>0, <1>1, <1>2, <2>1, <2>2, <2>3 DEF ImageOf
  <2>5. local'[o] # None /\ ~Busy(o)'
    BY <1>1, <1>2, <1>5, <2>1 DEF ImageOf, Busy
  <2>6. mode = "tame" => CleanOf(o)'
    BY <1>3, <2>1, <2>2 DEF CleanOf, Covered
  <2>7. mode = "tame" => edited' = {} /\ \A c \in Commits : registry'[c] \in {None, Runtime[c]}
    BY <1>3, <2>1, <2>3
  <2>8. \A x \in Operators \ {o} : ~Shipping(x) /\ ~Busy(x) /\ ship'[x] = ship[x] /\ job'[x] = job[x]
    BY <1>4, <2>1, <2>2
  <2> QED
    BY <2>1, <2>2, <2>4, <2>5, <2>6, <2>7, <2>8, OwnShip
<1>12. CASE PushTag(o)
  <2>1. /\ ship[o].at = "tag" /\ UNCHANGED <<bucket, stage, job, head, edited, local>>
        /\ ship' = [ship EXCEPT ![o].at = "done"]
        /\ registry' = [registry EXCEPT ![ship[o].tag] = local[o]]
    BY <1>12 DEF PushTag, Reach
  <2>2. ship'[o].at = "done" /\ \A x \in Operators \ {o} : ship'[x] = ship[x]
    BY <1>0, <2>1 DEF Ships
  <2>3. ship[o].tag = head[o] /\ head[o] \in Commits
    BY <1>0, <1>1, <1>2, <2>1 DEF ImageOf
  <2>4. mode = "tame" => \A c \in Commits : registry'[c] \in {None, Runtime[c]}
    BY <1>0, <1>3, <2>1, <2>3 DEF CleanOf
  <2> QED
    BY <1>3, <1>4, <2>1, <2>2, <2>4, OwnShip DEF CleanOf, Shipping
<1> QED
  BY <1>6, <1>7, <1>8, <1>9, <1>10, <1>11, <1>12 DEF ShipStep

LEMMA NewShipKeeps ==
  ASSUME SeedInv, ShipInv, mode # "free", mode' = mode, NEW o \in Operators, NewShip(o)
  PROVE  ShipInv'
<1>0. ship \in [Operators -> Ships] /\ head \in [Operators -> Commits]
  BY TypeParts DEF SeedInv, ShipTypes
<1>1. PICK c \in Commits, dirty \in BOOLEAN, force \in BOOLEAN, gate \in BOOLEAN, answers \in BOOLEAN :
        BeginShip(o, c, dirty, force, gate, answers)
  BY DEF NewShip
<1>2. (\A x \in Operators : ~Shipping(x) /\ ~Busy(x)) /\ UNCHANGED <<local, registry, job, bucket, stage>>
  BY <1>1 DEF BeginShip
<1>3. /\ ship'[o].at = "test" /\ ship'[o].image = ImageNeeded(c, dirty, force, answers) /\ head'[o] = c
      /\ \A x \in Operators \ {o} : ship'[x] = ship[x]
  BY <1>0, <1>1 DEF BeginShip, NoShip
<1>4. ~ImageNeeded(c, dirty, force, answers) => registry[c] # None
  BY DEF ImageNeeded
<1>5. mode = "tame" => edited' = {}
  BY <1>1 DEF BeginShip, ShipInv, CleanInv
<1>6. mode = "tame" => \A d \in Commits : registry[d] \in {None, Runtime[d]}
  BY DEF ShipInv, CleanInv
<1> QED
  BY <1>2, <1>3, <1>4, <1>5, <1>6, OwnShip DEF Busy, CleanOf

LEMMA StepFailsKeeps ==
  ASSUME SeedInv, ShipInv, mode # "free", mode' = mode, NEW o \in Operators, StepFails(o)
  PROVE  ShipInv'
<1>0. ship \in [Operators -> Ships]
  BY TypeParts DEF SeedInv, ShipTypes
<1>1. Shipping(o) /\ mode # "tame" /\ UNCHANGED job /\ ship' = [ship EXCEPT ![o].at = "failed"]
  BY DEF StepFails, Reach
<1>2. \A x \in Operators \ {o} : ~Shipping(x) /\ ~Busy(x)
  BY <1>1 DEF ShipInv, ImageInv, ImageOf, Alone
<1>3. ship'[o].at = "failed" /\ \A x \in Operators \ {o} : ship'[x] = ship[x]
  BY <1>0, <1>1 DEF Ships
<1> QED
  BY <1>1, <1>2, <1>3, OwnShip DEF Shipping

LEMMA NextShip == ASSUME SeedInv, ShipInv, [Next]_vars PROVE ShipInv'
<1>0. mode' = mode
  BY ModeStays
<1>1. CASE mode = "free"
  BY <1>0, <1>1 DEF ShipInv, ImageInv, CleanInv
<1>2. CASE mode # "free"
  <2>1. ASSUME NEW o \in Operators, NEW c \in Commits, Checkout(o, c) PROVE FALSE
    BY <1>2, <2>1 DEF Checkout
  <2> QED
    BY <1>0, <1>2, <2>1, SeedStepKeeps, ShipStepKeeps, NewShipKeeps, StepFailsKeeps, ShipKept DEF Next
<1> QED
  BY <1>1, <1>2

(* A ship that completes has an image under the tag of its commit, and     *)
(* with clean trees and working calls that image is the commit's and the   *)
(* sources are in the bucket, also when the build was skipped or the       *)
(* deploy found its manifest already there (ship_cmd.py:261).              *)
THEOREM ShipsDeliver == Spec => ShipDelivers
<1>1. ASSUME SeedInv, ShipInv, [Next]_vars, NEW o \in Operators,
             ship[o].at # "done", ship'[o].at = "done", mode # "free"
      PROVE  /\ registry'[head[o]] # None
             /\ mode = "tame" => Covered(o) /\ registry'[head[o]] = Runtime[head[o]]
  <2>0. /\ ship \in [Operators -> Ships] /\ head \in [Operators -> Commits]
        /\ registry \in [Commits \cup {Latest} -> Builds \cup {None}]
    BY <1>1, TypeParts DEF SeedInv, ShipTypes
  <2>1. GateStep(o) \/ PushTag(o)
    <3>1. ASSUME NEW x \in Operators, SeedStep(x) PROVE FALSE
      BY <1>1, <3>1 DEF SeedStep
    <3>2. ASSUME NEW x \in Operators, NewShip(x) PROVE FALSE
      BY <1>1, <2>0, <3>2 DEF NewShip, BeginShip, NoShip
    <3>3. ASSUME NEW x \in Operators, StepFails(x) \/ \E c \in Commits : Checkout(x, c) PROVE FALSE
      BY <1>1, <2>0, <3>3 DEF StepFails, Checkout, Reach, Ships
    <3>4. ASSUME NEW x \in Operators, ShipStep(x) PROVE x = o /\ (GateStep(o) \/ PushTag(o))
      BY <1>1, <2>0, <3>4 DEF ShipStep, TestPasses, PreflightPasses, Deploy, Deployed, GateStep, BuildImage,
         PushLatest, PushTag, Reach, Ships
    <3>5. ~UNCHANGED vars
      BY <1>1 DEF vars
    <3> QED
      BY <1>1, <3>1, <3>2, <3>3, <3>4, <3>5 DEF Next
  <2>2. ImageOf(o) /\ Shipping(o)
    BY <1>1, <2>1 DEF ShipInv, ImageInv, GateStep, PushTag, Shipping
  <2>3. mode = "tame" => CleanOf(o) /\ \A c \in Commits : registry[c] \in {None, Runtime[c]}
    BY <1>1 DEF ShipInv, CleanInv
  <2>4. CASE GateStep(o)
    <3>1. ship[o].at = "gate" /\ ~ship[o].image /\ UNCHANGED registry
      BY <1>1, <2>0, <2>4 DEF GateStep, Reach, Ships
    <3> QED
      BY <2>0, <2>2, <2>3, <3>1 DEF ImageOf, CleanOf
  <2>5. CASE PushTag(o)
    <3>1. /\ ship[o].at = "tag" /\ ship[o].tag = head[o] /\ local[o] # None
          /\ registry' = [registry EXCEPT ![ship[o].tag] = local[o]]
      BY <2>2, <2>5 DEF PushTag, ImageOf
    <3>2. registry'[head[o]] = local[o]
      BY <2>0, <3>1
    <3> QED
      BY <2>3, <3>1, <3>2 DEF CleanOf
  <2> QED
    BY <2>1, <2>4, <2>5
<1>2. SeedInv /\ ShipInv /\ [Next]_vars
        => [\A o \in Operators :
              ship[o].at # "done" /\ ship'[o].at = "done" /\ mode # "free"
                => /\ registry'[head[o]] # None
                   /\ mode = "tame" => Covered(o) /\ registry'[head[o]] = Runtime[head[o]]]_vars
  BY <1>1
<1> QED
  BY <1>2, SeedInvInit, SeedInvNext, InitShip, NextShip, PTL DEF Spec, ShipDelivers
=============================================================================
