-------------------------- MODULE RunnerGateProofs --------------------------
(***************************************************************************)
(* Theorems about RunnerGate, for any set of runs, projects and bundles.   *)
(***************************************************************************)
EXTENDS RunnerGate, TLAPS

USE DEF inputs, bucket, At, To

-----------------------------------------------------------------------------
(* Type correctness.                                                       *)

Legs == Uploading \cup Settled \cup {"wait", "blocked", "pinned", "ran", "refused"}
Jobs == [cursor : 1 .. FileCount + 1, row : Bundles, sent : BOOLEAN]
Contents == {Nothing} \cup UNION {{b[f] : f \in Files} : b \in UNION {Builds[r] : r \in Runs}}

LEMMA FilesType == FileCount \in Nat \ {0} /\ 1 \in Files /\ FileCount \in Files
  BY FilesAssumption DEF Files

LEMMA BuildType ==
  ASSUME NEW r \in Runs, NEW b \in Builds[r]
  PROVE  b \in Bundles /\ b[1] # Nothing /\ \A f \in Files : b[f] \in Contents
<1>1. b \in UNION {Builds[s] : s \in Runs}
  OBVIOUS
<1>2. \A f \in Files : b[f] \in Contents
  BY <1>1 DEF Contents
<1>3. b \in [Files -> {b[f] : f \in Files}] /\ b[1] # Nothing
  BY BuildsAssumption
<1> QED
  BY <1>2, <1>3 DEF Bundles, Contents

\* What the runs were given, of which no step changes anything.
InputsType ==
  /\ calm \in BOOLEAN /\ kind \in [Runs -> KindNames]
  /\ \A r \in Runs : built[r] \in Builds[r]
  /\ supported \subseteq Projects

\* The loops over the files stay inside the bundle: only an upload that is
\* through has its cursor behind the last file.
CursorInv ==
  \A r \in Runs, p \in Projects :
    /\ leg[r][p] # "meta" => job[r][p].cursor \in Files
    /\ leg[r][p] \in {"upload", "read"} => job[r][p].cursor = 1
    /\ run[r] \in {"idle", "filter"} => job[r][p] = NewJob

LEMMA InitCursor == Init => CursorInv
  BY FilesType DEF Init, CursorInv, Of, NewJob

LEMMA InitTypeOK == Init => TypeOK
<1> SUFFICES ASSUME Init PROVE TypeOK
  OBVIOUS
<1>1. NoBundle \in Bundles
  BY DEF NoBundle, Bundles
<1>2. NewJob \in Jobs
  BY <1>1, FilesType DEF NewJob, Jobs
<1>3. InputsType
  BY DEF Init, InputsType
<1> QED
  BY <1>1, <1>2, <1>3 DEF Init, TypeOK, InputsType, Of, Metas, Jobs, Legs

\* A file of a bundle may be replaced by one of a build.
LEMMA ObjectType ==
  ASSUME NEW x \in Bundles, NEW f \in Files, NEW c \in Contents
  PROVE  [x EXCEPT ![f] = c] \in Bundles
  BY DEF Bundles, Contents

LEMMA LegType ==
  ASSUME leg \in [Runs -> [Projects -> Legs]], NEW r \in Runs, NEW p \in Projects, NEW l \in Legs, To(r, p, l)
  PROVE  leg' \in [Runs -> [Projects -> Legs]]
  OBVIOUS

LEMMA JobType ==
  ASSUME job \in [Runs -> [Projects -> Jobs]], NEW r \in Runs, NEW p \in Projects, NEW j \in Jobs,
         job' = [job EXCEPT ![r][p] = j]
  PROVE  job' \in [Runs -> [Projects -> Jobs]]
  OBVIOUS

LEMMA NextTypeOK == TypeOK /\ CursorInv /\ [Next]_vars => TypeOK'
<1> SUFFICES ASSUME TypeOK, CursorInv, [Next]_vars PROVE TypeOK'
  OBVIOUS
<1> USE DEF TypeOK
<1>0. InputsType
  BY DEF InputsType
<1>1. ASSUME NEW r \in Runs, StartCi(r) PROVE TypeOK'
  <2>1. run' \in [Runs -> {"idle", "filter", "verify", "publish", "legs", "over", "failed"}]
    BY <1>1 DEF StartCi
  <2>2. artifacts' \in [Runs -> BOOLEAN]
    BY <1>1 DEF StartCi
  <2>3. leg' \in [Runs -> [Projects -> Legs]]
    <3>1. leg' = leg \/ leg' = [leg EXCEPT ![r] = Of("skip")]
      BY <1>1 DEF StartCi
    <3>2. leg \in [Runs -> [Projects -> Legs]] /\ Of("skip") \in [Projects -> Legs]
      BY DEF Legs, Of, Settled
    <3> QED
      BY <3>1, <3>2
  <2> QED
    BY <1>1, <2>1, <2>2, <2>3 DEF StartCi, Legs
<1>2. ASSUME NEW r \in Runs, FilterEnds(r) \/ FilterFails(r) PROVE TypeOK'
  BY <1>2 DEF FilterEnds, FilterFails
<1>3. ASSUME NEW r \in Runs, StartRelease(r) PROVE TypeOK'
  <2>1. NoBundle \in Bundles
    BY DEF NoBundle, Bundles
  <2> QED
    BY <1>3, <2>1 DEF StartRelease, Of, Uploading
<1>4. ASSUME NEW r \in Runs, StartBootstrap(r) PROVE TypeOK'
  BY <1>4 DEF StartBootstrap, Of, Uploading
<1>5. ASSUME NEW r \in Runs, PublishEnds(r) \/ FilterSupported(r) \/ LegsEnd(r) PROVE TypeOK'
  <2>1. run' \in [Runs -> {"idle", "filter", "verify", "publish", "legs", "over", "failed"}]
    BY <1>5 DEF PublishEnds, FilterSupported, LegsEnd
  <2>2. accepted' \in [Runs -> SUBSET Projects]
    <3>1. Wants[r] \cap AcceptedProjects(r) \subseteq Projects
      BY WantsAssumption
    <3> QED
      BY <1>5, <3>1 DEF PublishEnds, FilterSupported, LegsEnd
  <2> QED
    BY <1>5, <2>1, <2>2 DEF PublishEnds, FilterSupported, LegsEnd
<1>6. ASSUME NEW r \in Runs, NEW p \in Projects, FilterLeg(r, p) PROVE TypeOK'
  BY <1>6 DEF FilterLeg, ClassifySupportedLeg, Settled, Uploading
<1>7. ASSUME NEW r \in Runs, NEW p \in Projects, RotateFile(r, p) PROVE TypeOK'
  <2> DEFINE f == job[r][p].cursor
  <2>1. f \in Files /\ object[p] \in Bundles /\ previous[p] \in Bundles
    BY <1>7 DEF RotateFile, CursorInv
  <2>2. previous' \in [Projects -> Bundles]
    <3>1. object[p][f] \in Contents
      BY <2>1 DEF Bundles, Contents
    <3>2. [previous[p] EXCEPT ![f] = object[p][f]] \in Bundles
      BY <2>1, <3>1, ObjectType
    <3> QED
      BY <1>7, <3>2 DEF RotateFile
  <2>3. job' \in [Runs -> [Projects -> Jobs]]
    <3>1. job' = [job EXCEPT ![r][p].cursor = IF f = FileCount THEN 1 ELSE f + 1]
      BY <1>7 DEF RotateFile
    <3>2. (IF f = FileCount THEN 1 ELSE f + 1) \in 1 .. FileCount + 1
      BY <2>1, FilesType DEF Files
    <3>3. job[r][p] \in Jobs
      BY DEF Jobs
    <3>4. \A n \in 1 .. FileCount + 1 : [job[r][p] EXCEPT !.cursor = n] \in Jobs
      BY <3>3 DEF Jobs
    <3> QED
      BY <3>1, <3>2, <3>4 DEF Jobs
  <2>4. leg' \in [Runs -> [Projects -> Legs]]
    BY <1>7 DEF RotateFile, Legs, Uploading
  <2> QED
    BY <1>7, <2>2, <2>3, <2>4 DEF RotateFile, Legs, Jobs
<1>8. ASSUME NEW r \in Runs, NEW p \in Projects, NormalizeArtifact(r, p) PROVE TypeOK'
  BY <1>8 DEF NormalizeArtifact, Settled, Uploading
<1>9. ASSUME NEW r \in Runs, NEW p \in Projects, ReadMeta(r, p) PROVE TypeOK'
  <2>1. job' \in [Runs -> [Projects -> Jobs]]
    <3>1. (IF meta[p] = Nothing THEN NoBundle ELSE meta[p].files) \in Bundles
      BY DEF Metas, NoBundle, Bundles
    <3>2. PICK b \in Bundles : job' = [job EXCEPT ![r][p].row = b]
      BY <1>9, <3>1 DEF ReadMeta
    <3>3. [job[r][p] EXCEPT !.row = b] \in Jobs
      <4>1. job[r][p] \in Jobs
        BY DEF Jobs
      <4> QED
        BY <4>1 DEF Jobs
    <3> QED
      BY <3>2, <3>3 DEF Jobs
  <2>2. leg' \in [Runs -> [Projects -> Legs]]
    BY <1>9 DEF ReadMeta, Legs, Uploading
  <2> QED
    BY <1>9, <2>1, <2>2 DEF ReadMeta, Legs, Jobs
<1>10. ASSUME NEW r \in Runs, NEW p \in Projects, PutFile(r, p) PROVE TypeOK'
  <2> DEFINE f == job[r][p].cursor
  <2>0. built[r] \in Builds[r]
    OBVIOUS
  <2>1. object' \in [Projects -> Bundles]
    <3>1. [object[p] EXCEPT ![f] = built[r][f]] \in Bundles
      <4>1. f \in Files /\ object[p] \in Bundles
        BY <1>10 DEF PutFile, CursorInv
      <4> QED
        BY <2>0, <4>1, BuildType, ObjectType
    <3> QED
      BY <1>10, <3>1 DEF PutFile
  <2>2. job' \in [Runs -> [Projects -> Jobs]]
    <3> DEFINE same == built[r][f] \in {Nothing, job[r][p].row[f]}
    <3>1. f + 1 \in 1 .. FileCount + 1
      <4>1. f \in Files
        BY <1>10 DEF PutFile, CursorInv
      <4> QED
        BY <4>1, FilesType DEF Files
    <3>2. job[r][p] \in Jobs
      BY DEF Jobs
    <3>3. [job[r][p] EXCEPT !.sent = @ \/ ~same, !.cursor = f + 1] \in Jobs
      BY <3>1, <3>2 DEF Jobs
    <3>4. job' = [job EXCEPT ![r][p] = [job[r][p] EXCEPT !.sent = @ \/ ~same, !.cursor = f + 1]]
      BY <1>10 DEF PutFile
    <3> QED
      BY <3>3, <3>4, JobType DEF Jobs
  <2>3. leg' \in [Runs -> [Projects -> Legs]]
    BY <1>10 DEF PutFile, Legs, Uploading
  <2> QED
    BY <1>10, <2>1, <2>2, <2>3 DEF PutFile, Legs, Jobs
<1>11. ASSUME NEW r \in Runs, NEW p \in Projects, WriteMeta(r, p) PROVE TypeOK'
  <2>1. [ref |-> SourceRef(r), files |-> built[r]] \in Metas
    BY BuildType DEF Metas, Refs, SourceRef
  <2>2. meta' \in [Projects -> Metas]
    BY <1>11, <2>1 DEF WriteMeta
  <2>3. NewJob \in Jobs
    BY FilesType DEF NewJob, NoBundle, Bundles, Jobs
  <2>4. job' \in [Runs -> [Projects -> Jobs]]
    BY <1>11, <2>3, JobType DEF WriteMeta, Jobs
  <2>5. leg' \in [Runs -> [Projects -> Legs]]
    BY <1>11 DEF WriteMeta, Legs, Uploading, Settled
  <2> QED
    BY <1>11, <2>2, <2>4, <2>5 DEF WriteMeta, Legs, Jobs
<1>12. ASSUME NEW r \in Runs, NEW p \in Projects, ValidateInRepo(r, p) PROVE TypeOK'
  BY <1>12 DEF ValidateInRepo, Settled
<1>13. ASSUME NEW r \in Runs, NEW p \in Projects, PublishFails(r, p) PROVE TypeOK'
  <2>1. NewJob \in Jobs
    BY FilesType DEF NewJob, NoBundle, Bundles, Jobs
  <2>2. job' \in [Runs -> [Projects -> Jobs]]
    BY <1>13, <2>1, JobType DEF PublishFails, Jobs
  <2>3. leg' \in [Runs -> [Projects -> Legs]]
    BY <1>13 DEF PublishFails, Legs, Settled
  <2> QED
    BY <1>13, <2>2, <2>3 DEF PublishFails, Legs, Jobs
<1>14. ASSUME NEW r \in Runs, NEW p \in Projects, AssertRunnerPin(r, p) PROVE TypeOK'
  BY <1>14 DEF AssertRunnerPin
<1>15. ASSUME NEW r \in Runs, NEW p \in Projects, ExecuteLeg(r, p) PROVE TypeOK'
  BY <1>15 DEF ExecuteLeg
<1>16. ASSUME NEW r \in Runs, StartVerify(r) \/ VerifyEnds(r) PROVE TypeOK'
  <2>1. run' \in [Runs -> {"idle", "filter", "verify", "publish", "legs", "over", "failed"}]
    BY <1>16 DEF StartVerify, VerifyEnds
  <2>2. accepted' \in [Runs -> SUBSET Projects]
    <3>1. {p \in Wants[r] : leg[r][p] = "done"} \subseteq Projects
      BY WantsAssumption
    <3> QED
      BY <1>16, <3>1 DEF StartVerify, VerifyEnds
  <2> QED
    BY <1>16, <2>1, <2>2 DEF StartVerify, VerifyEnds
<1>17. ASSUME NEW r \in Runs, NEW p \in Projects, VerifyProject(r, p) PROVE TypeOK'
  BY <1>17 DEF VerifyProject, VerifyOutcomes, CheckRunner, Settled
<1>18. CASE UNCHANGED vars
  BY <1>18 DEF vars
<1> QED
  BY <1>1, <1>2, <1>3, <1>4, <1>5, <1>6, <1>7, <1>8, <1>9, <1>10, <1>11,
     <1>12, <1>13, <1>14, <1>15, <1>16, <1>17, <1>18 DEF Next, Step, Upload

LEMMA NextCursor == TypeOK /\ CursorInv /\ [Next]_vars => CursorInv'
<1> SUFFICES ASSUME TypeOK, CursorInv, [Next]_vars PROVE CursorInv'
  OBVIOUS
<1> USE DEF CursorInv
<1>0. /\ leg \in [Runs -> [Projects -> Legs]] /\ job \in [Runs -> [Projects -> Jobs]]
      /\ run \in [Runs -> {"idle", "filter", "verify", "publish", "legs", "over", "failed"}]
      /\ NewJob.cursor = 1
  BY DEF TypeOK, Legs, Jobs, NewJob
<1>1. ASSUME NEW r \in Runs, StartCi(r) \/ StartRelease(r) \/ StartBootstrap(r) PROVE CursorInv'
  <2>1. run[r] = "idle" /\ UNCHANGED job
    BY <1>1 DEF StartCi, StartRelease, StartBootstrap, MayStart
  <2>2. \A q \in Runs \ {r} : leg'[q] = leg[q] /\ run'[q] = run[q]
    BY <1>0, <1>1 DEF StartCi, StartRelease, StartBootstrap
  <2>3. \A p \in Projects : job[r][p] = NewJob /\ job[r][p].cursor \in Files
    BY <1>0, <2>1, FilesType
  <2> QED
    BY <1>0, <2>1, <2>2, <2>3
<1>2. ASSUME NEW r \in Runs, FilterEnds(r) \/ FilterFails(r) \/ PublishEnds(r) \/ FilterSupported(r) \/ LegsEnd(r)
      PROVE  CursorInv'
  BY <1>0, <1>2 DEF FilterEnds, FilterFails, PublishEnds, FilterSupported, LegsEnd
<1>v. ASSUME NEW r \in Runs, StartVerify(r) \/ VerifyEnds(r) PROVE CursorInv'
  BY <1>0, <1>v DEF StartVerify, VerifyEnds
<1>w. ASSUME NEW r \in Runs, NEW p \in Projects, VerifyProject(r, p) PROVE CursorInv'
  BY <1>0, <1>w DEF VerifyProject, VerifyOutcomes, CheckRunner
<1>3. ASSUME NEW r \in Runs, NEW p \in Projects, FilterLeg(r, p) PROVE CursorInv'
  BY <1>0, <1>3 DEF FilterLeg
<1>4. ASSUME NEW r \in Runs, NEW p \in Projects, RotateFile(r, p) PROVE CursorInv'
  <2>1. /\ leg[r][p] = "rotate" /\ run[r] = "publish" /\ UNCHANGED run
        /\ job' = [job EXCEPT ![r][p].cursor = IF job[r][p].cursor = FileCount THEN 1 ELSE job[r][p].cursor + 1]
        /\ leg' = [leg EXCEPT ![r][p] = IF job[r][p].cursor = FileCount THEN "read" ELSE "rotate"]
    BY <1>4 DEF RotateFile
  <2>2. job[r][p].cursor \in 1 .. FileCount /\ FileCount \in Nat
    BY <2>1, FilesType DEF Files
  <2>3. job'[r][p].cursor = IF job[r][p].cursor = FileCount THEN 1 ELSE job[r][p].cursor + 1
    BY <1>0, <2>1 DEF Jobs
  <2>4. leg'[r][p] = IF job[r][p].cursor = FileCount THEN "read" ELSE "rotate"
    BY <1>0, <2>1
  <2>5. \A s \in Runs, q \in Projects : s # r \/ q # p => job'[s][q] = job[s][q] /\ leg'[s][q] = leg[s][q]
    BY <1>0, <2>1
  <2> QED
    BY <2>1, <2>2, <2>3, <2>4, <2>5, FilesType DEF Files
<1>5. ASSUME NEW r \in Runs, NEW p \in Projects, NormalizeArtifact(r, p) PROVE CursorInv'
  BY <1>0, <1>5 DEF NormalizeArtifact
<1>6. ASSUME NEW r \in Runs, NEW p \in Projects, ReadMeta(r, p) PROVE CursorInv'
  BY <1>0, <1>6 DEF ReadMeta, Jobs
<1>7. ASSUME NEW r \in Runs, NEW p \in Projects, PutFile(r, p) PROVE CursorInv'
  <2>1. /\ leg[r][p] = "put" /\ run[r] = "publish" /\ UNCHANGED run
        /\ \A s \in Runs, q \in Projects : s # r \/ q # p => job'[s][q] = job[s][q] /\ leg'[s][q] = leg[s][q]
        /\ leg'[r][p] = IF job[r][p].cursor = FileCount THEN "meta" ELSE "put"
    BY <1>0, <1>7 DEF PutFile
  <2>2. job'[r][p].cursor = job[r][p].cursor + 1
    BY <1>0, <1>7 DEF PutFile, Jobs
  <2>3. job[r][p].cursor \in 1 .. FileCount /\ FileCount \in Nat
    BY <2>1, FilesType DEF Files
  <2> QED
    BY <2>1, <2>2, <2>3 DEF Files
<1>8. ASSUME NEW r \in Runs, NEW p \in Projects, WriteMeta(r, p) \/ PublishFails(r, p) PROVE CursorInv'
  BY <1>0, <1>8, FilesType DEF WriteMeta, PublishFails
<1>9. ASSUME NEW r \in Runs, NEW p \in Projects,
             ValidateInRepo(r, p) \/ AssertRunnerPin(r, p) \/ ExecuteLeg(r, p)
      PROVE  CursorInv'
  <2>1. leg[r][p] # "meta" /\ UNCHANGED <<run, job>>
    BY <1>9 DEF ValidateInRepo, AssertRunnerPin, ExecuteLeg, Settled
  <2>2. PICK l \in {"done", "refused", "pinned", "ran"} : leg' = [leg EXCEPT ![r][p] = l]
    BY <1>9 DEF ValidateInRepo, AssertRunnerPin, ExecuteLeg
  <2> QED
    BY <1>0, <2>1, <2>2
<1>10. CASE UNCHANGED vars
  BY <1>10 DEF vars
<1> QED
  BY <1>1, <1>2, <1>v, <1>w, <1>3, <1>4, <1>5, <1>6, <1>7, <1>8, <1>9, <1>10 DEF Next, Step, Upload

(* The bucket and the publications keep to their types, and no loop over   *)
(* the files of a bundle runs past its end.                                *)
THEOREM RunnerTypeCorrect == Spec => []TypeOK
<1>1. Init => TypeOK /\ CursorInv
  BY InitTypeOK, InitCursor
<1>2. TypeOK /\ CursorInv /\ [Next]_vars => TypeOK' /\ CursorInv'
  BY NextTypeOK, NextCursor
<1> QED
  BY <1>1, <1>2, PTL DEF Spec

-----------------------------------------------------------------------------
(* The binary.  Whatever makes a project acceptable was written after it.  *)

Binary(p) == object[p][1] # Nothing

BinaryInv ==
  \A p \in Projects :
    /\ meta[p] # Nothing => Binary(p)
    /\ \A r \in Runs :
         /\ p \in marker[r] \cup accepted[r] => Binary(p)
         /\ leg[r][p] \in {"meta", "mark", "done"} => Binary(p)
         /\ leg[r][p] = "put" /\ (job[r][p].cursor > 1 \/ job[r][p].row[1] # Nothing) => Binary(p)

LEMMA InitBinary == Init => BinaryInv
  BY FilesType DEF Init, BinaryInv, Of

\* No step takes a binary away.
LEMMA BinaryStays ==
  ASSUME TypeOK, [Next]_vars, NEW p \in Projects, Binary(p)
  PROVE  Binary(p)'
<1>1. ASSUME NEW r \in Runs, NEW q \in Projects, PutFile(r, q) PROVE Binary(p)'
  <2>1. built[r] \in Builds[r] /\ object \in [Projects -> Bundles]
    BY DEF TypeOK
  <2>2. built[r][1] # Nothing
    BY <2>1, BuildType
  <2> QED
    BY <1>1, <2>1, <2>2, FilesType DEF PutFile, Binary, Bundles
<1>2. CASE \A r \in Runs, q \in Projects : ~PutFile(r, q)
  BY <1>2 DEF Binary, Next, Step, Upload, StartCi, FilterEnds, FilterFails, StartRelease, StartBootstrap,
     PublishEnds, FilterSupported, LegsEnd, FilterLeg, RotateFile, NormalizeArtifact, ReadMeta, WriteMeta,
     ValidateInRepo, PublishFails, AssertRunnerPin, ExecuteLeg, StartVerify, VerifyProject, VerifyEnds, vars
<1> QED
  BY <1>1, <1>2

LEMMA NextBinary == TypeOK /\ CursorInv /\ BinaryInv /\ [Next]_vars => BinaryInv'
<1> SUFFICES ASSUME TypeOK, CursorInv, BinaryInv, [Next]_vars PROVE BinaryInv'
  OBVIOUS
<1>0. /\ leg \in [Runs -> [Projects -> Legs]] /\ job \in [Runs -> [Projects -> Jobs]]
      /\ object \in [Projects -> Bundles] /\ meta \in [Projects -> Metas]
      /\ marker \in [Runs -> SUBSET Projects] /\ accepted \in [Runs -> SUBSET Projects]
      /\ NewJob.cursor = 1 /\ NewJob.row[1] = Nothing
  BY FilesType DEF TypeOK, Legs, Jobs, NewJob, NoBundle
<1>s. \A p \in Projects : Binary(p) => Binary(p)'
  BY BinaryStays
<1> USE DEF BinaryInv
<1>1. ASSUME NEW r \in Runs, StartCi(r) \/ StartRelease(r) \/ StartBootstrap(r) PROVE BinaryInv'
  <2>1. run[r] = "idle" /\ UNCHANGED <<job, meta, object, marker, accepted>>
    BY <1>1 DEF StartCi, StartRelease, StartBootstrap, MayStart
  <2>2. \A q \in Runs \ {r} : leg'[q] = leg[q]
    BY <1>0, <1>1 DEF StartCi, StartRelease, StartBootstrap
  <2>3. \A p \in Projects : job[r][p] = NewJob /\ (leg'[r][p] \in {"meta", "mark", "done"} => leg'[r][p] = leg[r][p])
    BY <1>0, <1>1, <2>1 DEF StartCi, StartRelease, StartBootstrap, Of, CursorInv
  <2> QED
    BY <1>0, <1>s, <2>1, <2>2, <2>3 DEF Binary
<1>2. ASSUME NEW r \in Runs, FilterEnds(r) \/ FilterFails(r) \/ PublishEnds(r) \/ LegsEnd(r)
      PROVE  BinaryInv'
  BY <1>2 DEF FilterEnds, FilterFails, PublishEnds, LegsEnd, Binary
<1>3. ASSUME NEW r \in Runs, FilterSupported(r) PROVE BinaryInv'
  <2>1. \A p \in accepted'[r] : p \in Projects /\ Binary(p)
    BY <1>0, <1>3, WantsAssumption DEF FilterSupported, AcceptedProjects, HasRunner, Binary
  <2>2. \A q \in Runs \ {r} : accepted'[q] = accepted[q]
    BY <1>0, <1>3 DEF FilterSupported
  <2> QED
    BY <1>3, <2>1, <2>2 DEF FilterSupported, Binary
<1>4. ASSUME NEW r \in Runs, NEW p \in Projects, FilterLeg(r, p) PROVE BinaryInv'
  <2>1. PICK action : /\ leg' = [leg EXCEPT ![r][p] = action] /\ action \notin {"meta", "put", "mark", "done"}
                      /\ marker' = marker \/ (action = "skip" /\ marker' = [marker EXCEPT ![r] = @ \cup {p}])
                      /\ action \in ClassifySupportedLeg(r, p) \cup {"nobmt"}
    BY <1>4 DEF FilterLeg, ClassifySupportedLeg
  <2>2. action = "skip" => Binary(p)
    BY <2>1 DEF ClassifySupportedLeg, HasRunner, Binary
  <2>3. UNCHANGED <<job, meta, object, accepted>>
    BY <1>4 DEF FilterLeg
  <2> QED
    BY <1>0, <2>1, <2>2, <2>3 DEF Binary
<1>5. ASSUME NEW r \in Runs, NEW p \in Projects, RotateFile(r, p) PROVE BinaryInv'
  <2>1. /\ UNCHANGED <<meta, object, marker, accepted>>
        /\ \A s \in Runs, q \in Projects : s # r \/ q # p => job'[s][q] = job[s][q] /\ leg'[s][q] = leg[s][q]
        /\ leg'[r][p] \in {"read", "rotate"}
    BY <1>0, <1>5 DEF RotateFile
  <2> QED
    BY <2>1 DEF Binary
<1>6. ASSUME NEW r \in Runs, NEW p \in Projects, NormalizeArtifact(r, p) PROVE BinaryInv'
  BY <1>0, <1>6 DEF NormalizeArtifact, Binary
<1>7. ASSUME NEW r \in Runs, NEW p \in Projects, ReadMeta(r, p) PROVE BinaryInv'
  <2>1. /\ UNCHANGED <<meta, object, marker, accepted>>
        /\ \A s \in Runs, q \in Projects : s # r \/ q # p => job'[s][q] = job[s][q] /\ leg'[s][q] = leg[s][q]
        /\ leg'[r][p] = "put"
    BY <1>0, <1>7 DEF ReadMeta
  <2>2. job'[r][p].cursor = 1 /\ job'[r][p].row = IF meta[p] = Nothing THEN NoBundle ELSE meta[p].files
    BY <1>0, <1>7 DEF ReadMeta, Jobs, CursorInv
  <2>3. job'[r][p].row[1] # Nothing => Binary(p)
    BY <2>2, FilesType DEF NoBundle
  <2> QED
    BY <2>1, <2>2, <2>3 DEF Binary
<1>8. ASSUME NEW r \in Runs, NEW p \in Projects, PutFile(r, p) PROVE BinaryInv'
  <2>1. /\ UNCHANGED <<meta, marker, accepted>>
        /\ \A s \in Runs, q \in Projects : s # r \/ q # p => job'[s][q] = job[s][q] /\ leg'[s][q] = leg[s][q]
    BY <1>0, <1>8 DEF PutFile
  <2>2. Binary(p)'
    <3>1. job[r][p].cursor \in 1 .. FileCount /\ leg[r][p] = "put" /\ FileCount \in Nat
      BY <1>8, FilesType DEF PutFile, CursorInv, Files
    <3>2. CASE job[r][p].cursor > 1 \/ job[r][p].row[1] # Nothing
      BY <1>s, <3>1, <3>2
    <3>3. CASE job[r][p].cursor = 1 /\ job[r][p].row[1] = Nothing
      <4>1. built[r][1] # Nothing
        BY BuildType, FilesType DEF TypeOK
      <4>2. object'[p][1] = built[r][1]
        BY <1>0, <1>8, <3>3, <4>1, FilesType DEF PutFile, Bundles
      <4> QED
        BY <4>1, <4>2 DEF Binary
    <3> QED
      BY <3>1, <3>2, <3>3
  <2> QED
    BY <1>s, <2>1, <2>2
<1>9. ASSUME NEW r \in Runs, NEW p \in Projects, WriteMeta(r, p) PROVE BinaryInv'
  <2>1. Binary(p) /\ UNCHANGED <<object, marker, accepted>>
    BY <1>9 DEF WriteMeta
  <2>2. \A s \in Runs, q \in Projects : s # r \/ q # p => job'[s][q] = job[s][q] /\ leg'[s][q] = leg[s][q]
    BY <1>0, <1>9 DEF WriteMeta
  <2>3. \A q \in Projects \ {p} : meta'[q] = meta[q]
    BY <1>0, <1>9 DEF WriteMeta
  <2> QED
    BY <2>1, <2>2, <2>3 DEF Binary
<1>10. ASSUME NEW r \in Runs, NEW p \in Projects, ValidateInRepo(r, p) PROVE BinaryInv'
  BY <1>0, <1>10 DEF ValidateInRepo, Binary
<1>11. ASSUME NEW r \in Runs, NEW p \in Projects, PublishFails(r, p) PROVE BinaryInv'
  BY <1>0, <1>11 DEF PublishFails, Binary
<1>v. ASSUME NEW r \in Runs, StartVerify(r) \/ VerifyEnds(r) PROVE BinaryInv'
  <2>1. UNCHANGED <<meta, object, marker, job, leg>>
    BY <1>v DEF StartVerify, VerifyEnds
  <2>2. \A q \in Runs : accepted'[q] = accepted[q] \/ \A p \in accepted'[q] : p \in Projects /\ leg[q][p] = "done"
    BY <1>0, <1>v, WantsAssumption DEF StartVerify, VerifyEnds
  <2> QED
    BY <2>1, <2>2 DEF Binary
<1>w. ASSUME NEW r \in Runs, NEW p \in Projects, VerifyProject(r, p) PROVE BinaryInv'
  <2>1. UNCHANGED <<meta, object, marker, job, accepted>>
    BY <1>w DEF VerifyProject
  <2>2. PICK l \in {"nobmt", "lost", "done"} : leg' = [leg EXCEPT ![r][p] = l] /\ (l = "done" => Binary(p))
    BY <1>w DEF VerifyProject, VerifyOutcomes, CheckRunner, Binary
  <2> QED
    BY <1>0, <2>1, <2>2 DEF Binary
<1>12. ASSUME NEW r \in Runs, NEW p \in Projects, AssertRunnerPin(r, p) \/ ExecuteLeg(r, p) PROVE BinaryInv'
  <2>1. UNCHANGED <<meta, object, marker, accepted, job>>
    BY <1>12 DEF AssertRunnerPin, ExecuteLeg
  <2>2. PICK l \in {"refused", "pinned", "ran"} : leg' = [leg EXCEPT ![r][p] = l]
    BY <1>12 DEF AssertRunnerPin, ExecuteLeg
  <2> QED
    BY <1>0, <2>1, <2>2 DEF Binary
<1>13. CASE UNCHANGED vars
  BY <1>13 DEF vars, Binary
<1> QED
  BY <1>1, <1>2, <1>3, <1>4, <1>5, <1>6, <1>7, <1>8, <1>9, <1>10, <1>11, <1>12, <1>13, <1>v, <1>w
     DEF Next, Step, Upload

(* A project is accepted only when its binary is in the bucket, whatever   *)
(* overlaps, fails or rotates: every skip, every row of the metadata and   *)
(* every marker is paid for by a write that was done before.               *)
THEOREM AcceptedProjectsHaveRunners == Spec => []AcceptedHasRunner
<1>1. Init => TypeOK /\ CursorInv /\ BinaryInv
  BY InitTypeOK, InitCursor, InitBinary
<1>2. TypeOK /\ CursorInv /\ BinaryInv /\ [Next]_vars => TypeOK' /\ CursorInv' /\ BinaryInv'
  BY NextTypeOK, NextCursor, NextBinary
<1>3. TypeOK /\ BinaryInv => AcceptedHasRunner
  BY DEF TypeOK, BinaryInv, Binary, AcceptedHasRunner
<1> QED
  BY <1>1, <1>2, <1>3, PTL DEF Spec

-----------------------------------------------------------------------------
(* Calm histories: runs one after the other, no failing call.  Between     *)
(* uploads every row of the metadata is true of the bucket; in the middle  *)
(* of one, the files of the bundle up to the cursor are the run's and the  *)
(* others are what the metadata still say, which is why skipping by a row  *)
(* of the metadata leaves no file of another commit.  What neither names   *)
(* may be anything.                                                        *)

Active(r) == run[r] \in {"filter", "publish", "legs"}
Writing(r, p) == run[r] = "publish" /\ p \in Wants[r] /\ leg[r][p] \in {"put", "meta"}
Old(p) == IF meta[p] = Nothing THEN NoBundle ELSE meta[p].files
Described(p) == Holds(object[p], Old(p)) /\ (meta[p] = Nothing => object[p][1] = Nothing)

\* The runs whose bundle the metadata may list.
Owners(p) == IF meta[p].ref = Nothing THEN {s \in Runs : kind[s] = "bare"} ELSE {meta[p].ref}

\* The files before the cursor c are those of the bundle b, as far as it has
\* them; the others are as the metadata (old) say.
Filed(o, old, b, c) ==
  \A f \in Files :
    /\ f < c /\ b[f] # Nothing => o[f] = b[f]
    /\ ~(f < c /\ b[f] # Nothing) /\ old[f] # Nothing => o[f] = old[f]

Compared(row, b, c) == \A f \in Files : f < c => b[f] \in {Nothing, row[f]}

Halfway(r, p) ==
  /\ job[r][p].row \in {NoBundle, Old(p)}
  /\ ~job[r][p].sent => Compared(job[r][p].row, built[r], job[r][p].cursor)
  /\ Filed(object[p], Old(p), built[r], job[r][p].cursor)
  /\ leg[r][p] = "meta" => job[r][p].cursor = FileCount + 1

Alone == \A r, s \in Runs : Active(r) /\ Active(s) => r = s

BucketInv(p) ==
  /\ meta[p] # Nothing => \E s \in Owners(p) : meta[p].files = built[s]
  /\ Described(p) \/ \E r \in Runs : Writing(r, p)
  /\ \A r \in Runs : Writing(r, p) => Halfway(r, p)
  /\ \A r \in Runs : run[r] \in {"idle", "filter"} => leg[r][p] \notin {"put", "meta"}

PinInv(r, p) ==
  /\ leg[r][p] = "pinned" => run[r] = "legs" /\ p \in Planned(r)
  /\ ContextCi(kind[r]) /\ leg[r][p] = "pinned" => \E s \in MayPass(r) : Holds(object[p], built[s])
  /\ ContextCi(kind[r]) /\ leg[r][p] = "ran" => \E s \in MayPass(r) : Holds(ran[r][p], built[s])

CalmInv ==
  calm => /\ Alone
          /\ \A p \in Projects : BucketInv(p)
          /\ \A r \in Runs, p \in Projects : PinInv(r, p)

LEMMA InitCalm == Init => CalmInv
  BY FilesType DEF Init, CalmInv, Alone, Active, BucketInv, Described, Holds, Old, NoBundle, Writing, PinInv, Of

LEMMA InputsKept == ASSUME [Next]_vars PROVE UNCHANGED inputs
<1>1. ASSUME NEW r \in Runs, StartCi(r) \/ FilterEnds(r) \/ FilterFails(r) \/ StartRelease(r)
      PROVE  UNCHANGED inputs
  BY <1>1 DEF StartCi, FilterEnds, FilterFails, StartRelease
<1>2. ASSUME NEW r \in Runs, StartBootstrap(r) \/ PublishEnds(r) \/ FilterSupported(r) \/ LegsEnd(r)
      PROVE  UNCHANGED inputs
  BY <1>2 DEF StartBootstrap, PublishEnds, FilterSupported, LegsEnd
<1>3. ASSUME NEW r \in Runs, NEW p \in Projects, Upload(r, p) PROVE UNCHANGED inputs
  BY <1>3 DEF Upload, RotateFile, NormalizeArtifact, ReadMeta, PutFile, WriteMeta, ValidateInRepo, PublishFails
<1>4. ASSUME NEW r \in Runs, NEW p \in Projects, FilterLeg(r, p) \/ AssertRunnerPin(r, p) \/ ExecuteLeg(r, p)
      PROVE  UNCHANGED inputs
  BY <1>4 DEF FilterLeg, AssertRunnerPin, ExecuteLeg
<1>5. ASSUME NEW r \in Runs, StartVerify(r) \/ VerifyEnds(r) \/ \E p \in Projects : VerifyProject(r, p)
      PROVE  UNCHANGED inputs
  BY <1>5 DEF StartVerify, VerifyEnds, VerifyProject
<1>6. CASE UNCHANGED vars
  BY <1>6 DEF vars
<1> QED
  BY <1>1, <1>2, <1>3, <1>4, <1>5, <1>6 DEF Next, Step

LEMMA NextAlone ==
  ASSUME TypeOK, calm, Alone, [Next]_vars
  PROVE  Alone'
<1>1. ASSUME NEW r \in Runs, StartCi(r) \/ StartRelease(r) \/ StartBootstrap(r) PROVE Alone'
  <2>1. \A s \in Runs : ~Active(s)
    BY <1>1 DEF StartCi, StartRelease, StartBootstrap, MayStart, Ended, Active
  <2>2. \A s \in Runs \ {r} : run'[s] = run[s]
    BY <1>1 DEF StartCi, StartRelease, StartBootstrap, TypeOK
  <2> QED
    BY <2>1, <2>2 DEF Alone, Active
<1>2. ASSUME NEW r \in Runs, FilterEnds(r) \/ FilterFails(r) \/ PublishEnds(r) \/ FilterSupported(r) \/ LegsEnd(r)
      PROVE  Alone'
  <2>1. Active(r) /\ \A s \in Runs \ {r} : run'[s] = run[s]
    BY <1>2 DEF FilterEnds, FilterFails, PublishEnds, Published, FilterSupported, LegsEnd, Active, TypeOK
  <2> QED
    BY <2>1 DEF Alone, Active
<1>3. ASSUME NEW r \in Runs, NEW p \in Projects,
             FilterLeg(r, p) \/ Upload(r, p) \/ AssertRunnerPin(r, p) \/ ExecuteLeg(r, p)
      PROVE  Alone'
  <2>1. UNCHANGED run
    BY <1>3 DEF Upload, FilterLeg, RotateFile, NormalizeArtifact, ReadMeta, PutFile,
       WriteMeta, ValidateInRepo, PublishFails, AssertRunnerPin, ExecuteLeg
  <2> QED
    BY <2>1 DEF Alone, Active
<1>4. ASSUME NEW r \in Runs, StartVerify(r) \/ VerifyEnds(r) \/ \E p \in Projects : VerifyProject(r, p)
      PROVE  Alone'
  <2>1. run' = run \/ \E l \in {"verify", "over", "failed"} : run' = [run EXCEPT ![r] = l]
    BY <1>4 DEF StartVerify, VerifyEnds, VerifyProject
  <2> QED
    BY <2>1 DEF Alone, Active, TypeOK
<1>5. CASE UNCHANGED vars
  BY <1>5 DEF vars, Alone, Active
<1> QED
  BY <1>1, <1>2, <1>3, <1>4, <1>5 DEF Next, Step

\* One file is put, or skipped because the metadata already list it as it is
\* or the bundle lacks it.
LEMMA PutFiles ==
  ASSUME NEW o, NEW put, NEW old, NEW row, NEW b, NEW c \in Files,
         Filed(o, old, b, c), row \in {NoBundle, old},
         \A f \in Files \ {c} : put[f] = o[f],
         put[c] = IF b[c] \in {Nothing, row[c]} THEN o[c] ELSE b[c]
  PROVE  /\ Filed(put, old, b, c + 1)
         /\ Compared(row, b, c) /\ b[c] \in {Nothing, row[c]} => Compared(row, b, c + 1)
<1>1. \A f \in Files : (f < c + 1 <=> f < c \/ f = c) /\ ~(c < c)
  BY FilesType DEF Files
<1>2. b[c] # Nothing /\ b[c] = row[c] => row = old
  BY DEF NoBundle
<1>3. b[c] # Nothing => put[c] = b[c]
  BY <1>1, <1>2 DEF Filed
<1>4. b[c] = Nothing /\ old[c] # Nothing => put[c] = old[c]
  BY <1>1 DEF Filed
<1> QED
  BY <1>1, <1>3, <1>4 DEF Filed, Compared

\* A project that a step does not write stays as it is.
LEMMA BucketKept ==
  ASSUME NEW p \in Projects, BucketInv(p),
         UNCHANGED <<built, kind>>, object'[p] = object[p], meta'[p] = meta[p],
         \A r \in Runs : Writing(r, p)' <=> Writing(r, p),
         \A r \in Runs : Writing(r, p) => job'[r][p] = job[r][p] /\ leg'[r][p] = leg[r][p],
         \A r \in Runs : run'[r] \in {"idle", "filter"} => leg'[r][p] \notin {"put", "meta"}
  PROVE  BucketInv(p)'
  BY DEF BucketInv, Described, Old, Owners, Halfway

\* A run that begins to write a described project has everything before it.
LEMMA WritingBegins ==
  ASSUME NEW p \in Projects, NEW r \in Runs, BucketInv(p), Described(p),
         UNCHANGED <<built, kind>>, object'[p] = object[p], meta'[p] = meta[p],
         \A s \in Runs \ {r} : ~Writing(s, p)',
         Writing(r, p)', leg'[r][p] = "put", run'[r] = "publish",
         job'[r][p].cursor = 1, job'[r][p].row \in {NoBundle, Old(p)},
         \A s \in Runs : run'[s] \in {"idle", "filter"} => leg'[s][p] \notin {"put", "meta"}
  PROVE  BucketInv(p)'
<1>1. \A f \in Files : ~(f < 1)
  BY DEF Files
<1> QED
  BY <1>1 DEF BucketInv, Described, Holds, Old, Owners, Halfway, Filed, Compared

LEMMA NextBucket ==
  ASSUME TypeOK, CursorInv, calm, Alone, [Next]_vars, NEW p \in Projects, BucketInv(p)
  PROVE  BucketInv(p)'
<1>0. /\ leg \in [Runs -> [Projects -> Legs]] /\ job \in [Runs -> [Projects -> Jobs]]
      /\ object \in [Projects -> Bundles] /\ meta \in [Projects -> Metas]
      /\ run \in [Runs -> {"idle", "filter", "verify", "publish", "legs", "over", "failed"}]
  BY DEF TypeOK, Legs, Jobs
<1>i. UNCHANGED <<built, kind>>
  BY InputsKept
<1>n. \A r \in Runs : run[r] \in {"idle", "filter"} => leg[r][p] \notin {"put", "meta"}
  BY DEF BucketInv
<1>1. ASSUME NEW r \in Runs, StartCi(r) \/ StartRelease(r) PROVE BucketInv(p)'
  <2>1. /\ run[r] = "idle" /\ leg'[r][p] \notin {"put", "meta"}
        /\ UNCHANGED <<object, meta, job>>
        /\ \A s \in Runs \ {r} : run'[s] = run[s] /\ leg'[s] = leg[s]
    BY <1>0, <1>1, <1>n DEF StartCi, StartRelease, MayStart, Of
  <2> QED
    BY <1>i, <1>n, <2>1, BucketKept DEF Writing
<1>2. ASSUME NEW r \in Runs, FilterEnds(r) \/ PublishEnds(r) \/ FilterSupported(r) \/ LegsEnd(r)
      PROVE  BucketInv(p)'
  <2>1. /\ UNCHANGED <<object, meta, job, leg>>
        /\ \A s \in Runs \ {r} : run'[s] = run[s]
        /\ run'[r] \in {"failed", "publish", "legs", "over"}
    BY <1>0, <1>2 DEF FilterEnds, PublishEnds, FilterSupported, LegsEnd
  <2>2. p \in Wants[r] /\ run[r] = "publish" => leg[r][p] \in Settled
    BY <1>2 DEF FilterEnds, PublishEnds, FilterSupported, LegsEnd, Published
  <2>3. run[r] \in {"filter", "publish", "legs"} /\ (run[r] = "legs" => run'[r] = "over")
    BY <1>0, <1>2 DEF FilterEnds, PublishEnds, FilterSupported, LegsEnd, Published
  <2>4. ~Writing(r, p) /\ ~Writing(r, p)'
    BY <1>n, <2>1, <2>2, <2>3 DEF Writing, Settled
  <2> QED
    BY <1>i, <1>n, <2>1, <2>4, BucketKept DEF Writing
<1>3. ASSUME NEW r \in Runs, StartBootstrap(r) PROVE BucketInv(p)'
  <2>1. /\ run[r] = "idle" /\ UNCHANGED <<object, meta, job>>
        /\ run'[r] = "publish" /\ leg'[r][p] = "put"
        /\ \A s \in Runs \ {r} : run'[s] = run[s] /\ leg'[s] = leg[s]
    BY <1>0, <1>3 DEF StartBootstrap, MayStart, Of
  <2>2. \A s \in Runs : ~Writing(s, p)
    BY <1>3 DEF StartBootstrap, MayStart, Ended, Writing
  <2>3. \A s \in Runs \ {r} : ~Writing(s, p)'
    BY <2>1, <2>2 DEF Writing
  <2>4. job'[r][p] = NewJob
    BY <2>1 DEF CursorInv
  <2>5. CASE p \in Wants[r]
    <3>1. Writing(r, p)'
      BY <2>1, <2>5 DEF Writing
    <3>2. Described(p)
      BY <2>2 DEF BucketInv
    <3>3. job'[r][p].cursor = 1 /\ job'[r][p].row = NoBundle
      BY <2>4 DEF NewJob
    <3> QED
      BY <1>i, <1>n, <2>1, <2>3, <3>1, <3>2, <3>3, WritingBegins
  <2>6. CASE p \notin Wants[r]
    BY <1>i, <1>n, <2>1, <2>2, <2>3, <2>6, BucketKept DEF Writing
  <2> QED
    BY <2>5, <2>6
<1>4. ASSUME NEW r \in Runs, NEW q \in Projects,
             \/ FilterLeg(r, q)
             \/ RotateFile(r, q)
             \/ NormalizeArtifact(r, q)
             \/ ValidateInRepo(r, q)
             \/ AssertRunnerPin(r, q)
             \/ ExecuteLeg(r, q)
      PROVE  BucketInv(p)'
  <2>1. /\ UNCHANGED <<object, meta, run>>
        /\ \A s \in Runs : s # r \/ p # q => job'[s][p] = job[s][p] /\ leg'[s][p] = leg[s][p]
    <3>1. UNCHANGED <<object, meta, run>>
      BY <1>4 DEF FilterLeg, RotateFile, NormalizeArtifact, ValidateInRepo, AssertRunnerPin, ExecuteLeg
    <3>2. PICK l : leg' = [leg EXCEPT ![r][q] = l]
      BY <1>4 DEF FilterLeg, RotateFile, NormalizeArtifact, ValidateInRepo, AssertRunnerPin, ExecuteLeg
    <3>3. job' = job \/ \E c : job' = [job EXCEPT ![r][q].cursor = c]
      BY <1>4 DEF FilterLeg, RotateFile, NormalizeArtifact, ValidateInRepo, AssertRunnerPin, ExecuteLeg
    <3> QED
      BY <1>0, <3>1, <3>2, <3>3
  <2>2. /\ leg[r][q] \notin {"put", "meta"} \/ run[r] # "publish"
        /\ leg'[r][q] \notin {"put", "meta"}
    <3>1. CASE FilterLeg(r, q)
      BY <1>0, <3>1 DEF FilterLeg, ClassifySupportedLeg
    <3>2. CASE RotateFile(r, q) \/ NormalizeArtifact(r, q) \/ ValidateInRepo(r, q)
      BY <1>0, <3>2 DEF RotateFile, NormalizeArtifact, ValidateInRepo
    <3>3. CASE AssertRunnerPin(r, q) \/ ExecuteLeg(r, q)
      <4>1. PICK l \in {"refused", "pinned", "ran"} : leg' = [leg EXCEPT ![r][q] = l]
        BY <3>3 DEF AssertRunnerPin, ExecuteLeg
      <4>2. run[r] = "legs"
        BY <3>3 DEF AssertRunnerPin, ExecuteLeg
      <4> QED
        BY <1>0, <4>1, <4>2
    <3> QED
      BY <1>4, <3>1, <3>2, <3>3
  <2> QED
    BY <1>i, <1>n, <2>1, <2>2, BucketKept DEF Writing
<1>5. ASSUME NEW r \in Runs, NEW q \in Projects, ReadMeta(r, q) PROVE BucketInv(p)'
  <2>1. /\ run[r] = "publish" /\ leg[r][q] = "read" /\ q \in Wants[r] /\ UNCHANGED <<object, meta, run>>
        /\ job' = [job EXCEPT ![r][q].row = Old(q)]
        /\ leg' = [leg EXCEPT ![r][q] = "put"]
    BY <1>5 DEF ReadMeta, Old
  <2>2. \A s \in Runs : s # r \/ p # q => job'[s][p] = job[s][p] /\ leg'[s][p] = leg[s][p]
    BY <1>0, <2>1
  <2>3. CASE p = q
    <3>1. \A s \in Runs : ~Writing(s, p)
      BY <2>1, <2>3 DEF Writing, Alone, Active
    <3>2. \A s \in Runs \ {r} : ~Writing(s, p)'
      BY <2>1, <2>2, <3>1 DEF Writing
    <3>3. Described(p)
      BY <3>1 DEF BucketInv
    <3>4. leg'[r][p] = "put" /\ Writing(r, p)'
      BY <1>0, <2>1, <2>3 DEF Writing
    <3>5. job'[r][p].cursor = 1 /\ job'[r][p].row = Old(p)
      BY <1>0, <2>1, <2>3 DEF Jobs, CursorInv
    <3>6. \A s \in Runs : run'[s] \in {"idle", "filter"} => leg'[s][p] \notin {"put", "meta"}
      BY <1>n, <2>1, <2>2
    <3> QED
      BY <1>i, <2>1, <3>2, <3>3, <3>4, <3>5, <3>6, WritingBegins
  <2>4. CASE p # q
    BY <1>i, <1>n, <2>1, <2>2, <2>4, BucketKept DEF Writing
  <2> QED
    BY <2>3, <2>4
<1>6. ASSUME NEW r \in Runs, NEW q \in Projects, PutFile(r, q) PROVE BucketInv(p)'
  <2>1. /\ run[r] = "publish" /\ leg[r][q] = "put" /\ q \in Wants[r] /\ UNCHANGED <<meta, run>>
        /\ \A s \in Runs : s # r \/ p # q => job'[s][p] = job[s][p] /\ leg'[s][p] = leg[s][p]
        /\ p # q => object'[p] = object[p]
    BY <1>0, <1>6 DEF PutFile
  <2>2. CASE p # q
    BY <1>i, <1>n, <2>1, <2>2, BucketKept DEF Writing
  <2>3. CASE p = q
    <3> DEFINE c == job[r][p].cursor
               same == built[r][c] \in {Nothing, job[r][p].row[c]}
    <3>1. Writing(r, p) /\ Halfway(r, p) /\ \A s \in Runs \ {r} : ~Writing(s, p)
      BY <2>1, <2>3 DEF Writing, BucketInv, Alone, Active
    <3>2. c \in Files /\ FileCount \in Nat
      BY <2>1, <2>3, FilesType DEF CursorInv, TypeOK
    <3>3. /\ job'[r][p].row = job[r][p].row /\ job'[r][p].cursor = c + 1
          /\ job'[r][p].sent = (job[r][p].sent \/ ~same)
          /\ leg'[r][p] = IF c = FileCount THEN "meta" ELSE "put"
      BY <1>0, <1>6, <2>3 DEF PutFile, Jobs
    <3>4. /\ same => object' = object
          /\ ~same => object'[p] = [object[p] EXCEPT ![c] = built[r][c]]
      BY <1>0, <1>6, <2>3 DEF PutFile
    <3>5. object[p] \in [Files -> Contents]
      BY <1>0 DEF Bundles, Contents
    <3>6. /\ \A f \in Files \ {c} : object'[p][f] = object[p][f]
          /\ object'[p][c] = IF same THEN object[p][c] ELSE built[r][c]
      BY <3>2, <3>4, <3>5
    <3>7. /\ Filed(object[p], Old(p), built[r], c) /\ job[r][p].row \in {NoBundle, Old(p)}
          /\ ~job[r][p].sent => Compared(job[r][p].row, built[r], c)
      BY <3>1 DEF Halfway
    <3>9. /\ Filed(object'[p], Old(p), built[r], c + 1)
          /\ ~job'[r][p].sent => Compared(job[r][p].row, built[r], c + 1)
      <4> HIDE DEF c
      <4>1. Filed(object'[p], Old(p), built[r], c + 1)
        BY <3>2, <3>6, <3>7, PutFiles
      <4>2. ASSUME ~job[r][p].sent, same PROVE Compared(job[r][p].row, built[r], c + 1)
        BY <3>2, <3>6, <3>7, <4>2, PutFiles
      <4> QED
        BY <3>3, <4>1, <4>2
    <3>10. Old(p)' = Old(p)
      BY <2>1 DEF Old
    <3>11. Halfway(r, p)'
      BY <1>i, <3>1, <3>3, <3>9, <3>10 DEF Halfway
    <3>12. Writing(r, p)' /\ \A s \in Runs \ {r} : ~Writing(s, p)'
      BY <2>1, <2>3, <3>1, <3>3 DEF Writing
    <3>13. \A s \in Runs : run'[s] \in {"idle", "filter"} => leg'[s][p] \notin {"put", "meta"}
      BY <1>n, <2>1
    <3> QED
      BY <1>i, <2>1, <3>11, <3>12, <3>13 DEF BucketInv, Owners
  <2> QED
    BY <2>2, <2>3
<1>7. ASSUME NEW r \in Runs, NEW q \in Projects, WriteMeta(r, q) PROVE BucketInv(p)'
  <2>1. /\ run[r] = "publish" /\ leg[r][q] = "meta" /\ q \in Wants[r] /\ UNCHANGED <<object, run>>
        /\ \A s \in Runs : s # r \/ p # q => job'[s][p] = job[s][p] /\ leg'[s][p] = leg[s][p]
        /\ p # q => meta'[p] = meta[p]
    BY <1>0, <1>7 DEF WriteMeta
  <2>2. CASE p # q
    BY <1>i, <1>n, <2>1, <2>2, BucketKept DEF Writing
  <2>3. CASE p = q
    <3>1. Writing(r, p) /\ Halfway(r, p) /\ \A s \in Runs \ {r} : ~Writing(s, p)
      BY <2>1, <2>3 DEF Writing, BucketInv, Alone, Active
    <3>2. built[r][1] # Nothing /\ 1 \in Files
      BY BuildType, FilesType DEF TypeOK
    <3>3. job[r][p].cursor = FileCount + 1 /\ \A f \in Files : f < FileCount + 1
      BY <2>1, <2>3, <3>1, FilesType DEF Halfway, Files
    <3>4. \A f \in Files : IF built[r][f] # Nothing THEN object[p][f] = built[r][f]
                           ELSE Old(p)[f] # Nothing => object[p][f] = Old(p)[f]
      BY <3>1, <3>3 DEF Halfway, Filed
    <3>5. leg'[r][p] \in {"mark", "done"}
      BY <1>0, <1>7, <2>3 DEF WriteMeta
    <3>6. \A s \in Runs : ~Writing(s, p)'
      BY <2>1, <3>1, <3>5 DEF Writing
    <3>7. /\ meta'[p] # Nothing /\ \E s \in Owners(p)' : meta'[p].files = built[s]
          /\ Holds(object[p], Old(p)')
      <4>1. CASE job[r][p].sent
        <5>1. meta'[p] = [ref |-> SourceRef(r), files |-> built[r]]
          BY <1>0, <1>7, <2>3, <4>1 DEF WriteMeta
        <5>0. built[r] \in Bundles
          BY BuildType DEF TypeOK
        <5>2. meta'[p] # Nothing
          BY <5>0, <5>1, NothingAssumption DEF SourceRef, Refs
        <5>3. r \in Owners(p)'
          BY <1>i, <5>1, NothingAssumption DEF Owners, SourceRef
        <5> QED
          BY <3>4, <5>1, <5>2, <5>3 DEF Old, Holds
      <4>2. CASE ~job[r][p].sent
        <5>1. meta' = meta
          BY <1>7, <2>3, <4>2 DEF WriteMeta
        <5>2. \A f \in Files : built[r][f] \in {Nothing, job[r][p].row[f]}
          BY <3>1, <3>3, <4>2 DEF Halfway, Compared
        <5>3. job[r][p].row = Old(p) /\ meta[p] # Nothing
          BY <3>1, <3>2, <5>2 DEF Halfway, NoBundle, Old
        <5>4. Holds(object[p], Old(p))
          BY <3>4, <5>2, <5>3 DEF Holds
        <5> QED
          BY <1>i, <5>1, <5>3, <5>4 DEF Old, Owners, BucketInv
      <4> QED
        BY <4>1, <4>2
    <3>8. Described(p)'
      BY <2>1, <3>7 DEF Described
    <3>9. \A s \in Runs : run'[s] \in {"idle", "filter"} => leg'[s][p] \notin {"put", "meta"}
      BY <1>n, <2>1
    <3> QED
      BY <1>i, <3>6, <3>7, <3>8, <3>9 DEF BucketInv
  <2> QED
    BY <2>2, <2>3
<1>8. ASSUME NEW r \in Runs, FilterFails(r) \/ \E q \in Projects : PublishFails(r, q) PROVE BucketInv(p)'
  BY <1>8 DEF FilterFails, PublishFails
<1>v. ASSUME NEW r \in Runs, StartVerify(r) \/ VerifyEnds(r) PROVE BucketInv(p)'
  <2>1. UNCHANGED <<object, meta, job, leg>> /\ run[r] \in {"idle", "verify"}
    BY <1>v DEF StartVerify, VerifyEnds, MayStart
  <2>2. PICK l \in {"verify", "over", "failed"} : run' = [run EXCEPT ![r] = l]
    BY <1>v DEF StartVerify, VerifyEnds
  <2> QED
    BY <1>0, <1>i, <1>n, <2>1, <2>2, BucketKept DEF Writing
<1>w. ASSUME NEW r \in Runs, NEW q \in Projects, VerifyProject(r, q) PROVE BucketInv(p)'
  <2>1. UNCHANGED <<object, meta, job, run>> /\ run[r] = "verify"
    BY <1>w DEF VerifyProject
  <2>2. PICK l \in {"nobmt", "lost", "done"} : leg' = [leg EXCEPT ![r][q] = l]
    BY <1>w DEF VerifyProject, VerifyOutcomes, CheckRunner
  <2> QED
    BY <1>0, <1>i, <1>n, <2>1, <2>2, BucketKept DEF Writing
<1>9. CASE UNCHANGED vars
  BY <1>9, <1>n, BucketKept DEF vars, Writing
<1> QED
  BY <1>1, <1>2, <1>3, <1>4, <1>5, <1>6, <1>7, <1>8, <1>v, <1>w, <1>9 DEF Next, Step, Upload

\* What the pin lets through is described by the metadata it compared.
LEMMA PinMeansOwnBundle ==
  ASSUME TypeOK, BinaryInv, Alone, NEW r \in Runs, NEW p \in Projects, BucketInv(p),
         run[r] = "legs", p \in accepted[r], meta[p] # Nothing => meta[p].ref \in {r, Nothing}
  PROVE  \E s \in MayPass(r) : Holds(object[p], built[s])
<1>1. \A s \in Runs : ~Writing(s, p)
  BY DEF Writing, Alone, Active
<1>2. Described(p)
  BY <1>1 DEF BucketInv
<1>3. object[p][1] # Nothing
  BY DEF BinaryInv, Binary
<1>4. meta[p] # Nothing /\ Holds(object[p], meta[p].files)
  BY <1>2, <1>3 DEF Described, Old
<1>5. PICK s \in Owners(p) : meta[p].files = built[s]
  BY <1>4 DEF BucketInv
<1>6. s \in MayPass(r)
  BY <1>4, <1>5 DEF Owners, MayPass
<1> QED
  BY <1>4, <1>5, <1>6

LEMMA NextPin ==
  ASSUME TypeOK, BinaryInv, calm, Alone, [Next]_vars, NEW r \in Runs, NEW p \in Projects,
         BucketInv(p), PinInv(r, p)
  PROVE  PinInv(r, p)'
<1>0. /\ leg \in [Runs -> [Projects -> Legs]] /\ ran \in [Runs -> [Projects -> Bundles]]
      /\ run \in [Runs -> {"idle", "filter", "verify", "publish", "legs", "over", "failed"}]
      /\ accepted \in [Runs -> SUBSET Projects] /\ object \in [Projects -> Bundles]
  BY DEF TypeOK, Legs
<1>i. UNCHANGED <<built, kind, supported>> /\ \A s \in Runs : MayPass(s)' = MayPass(s)
  BY InputsKept DEF MayPass
<1>1. ASSUME NEW s \in Runs, StartCi(s) \/ StartRelease(s) \/ StartBootstrap(s) PROVE PinInv(r, p)'
  <2>1. /\ run[s] = "idle" /\ UNCHANGED <<object, accepted, ran>>
        /\ \A t \in Runs \ {s} : run'[t] = run[t] /\ leg'[t] = leg[t]
    BY <1>0, <1>1 DEF StartCi, StartRelease, StartBootstrap, MayStart
  <2>2. leg'[s][p] \in {"skip", "rotate", "put"} \/ leg' = leg
    <3>1. leg' = leg \/ \E l \in {"skip", "rotate", "put"} : leg' = [leg EXCEPT ![s] = Of(l)]
      BY <1>1 DEF StartCi, StartRelease, StartBootstrap
    <3> QED
      BY <1>0, <3>1 DEF Of
  <2> QED
    BY <1>i, <2>1, <2>2 DEF PinInv, Planned, ContextCi
<1>2. ASSUME NEW s \in Runs, FilterEnds(s) \/ PublishEnds(s) \/ FilterSupported(s) PROVE PinInv(r, p)'
  <2>1. /\ run[s] # "legs" /\ UNCHANGED <<object, ran, leg>>
        /\ \A t \in Runs \ {s} : run'[t] = run[t] /\ accepted'[t] = accepted[t]
    BY <1>0, <1>2 DEF FilterEnds, PublishEnds, FilterSupported, Published
  <2> QED
    BY <1>i, <2>1 DEF PinInv, Planned, ContextCi
<1>3. ASSUME NEW s \in Runs, LegsEnd(s) PROVE PinInv(r, p)'
  <2>1. /\ UNCHANGED <<object, ran, leg, accepted>>
        /\ \A t \in Runs \ {s} : run'[t] = run[t]
        /\ p \in Planned(s) => leg[s][p] # "pinned"
    BY <1>0, <1>3 DEF LegsEnd
  <2> QED
    BY <1>i, <2>1 DEF PinInv, Planned, ContextCi
<1>4. ASSUME NEW s \in Runs, NEW q \in Projects,
             \/ FilterLeg(s, q)
             \/ RotateFile(s, q)
             \/ NormalizeArtifact(s, q)
             \/ ReadMeta(s, q)
             \/ WriteMeta(s, q)
             \/ ValidateInRepo(s, q)
      PROVE  PinInv(r, p)'
  <2>1. UNCHANGED <<object, ran, run, accepted>>
    BY <1>4 DEF FilterLeg, RotateFile, NormalizeArtifact, ReadMeta, WriteMeta, ValidateInRepo
  <2>2. PICK l : leg' = [leg EXCEPT ![s][q] = l] /\ l \notin {"pinned", "ran"}
    <3>1. CASE FilterLeg(s, q)
      BY <3>1 DEF FilterLeg, ClassifySupportedLeg
    <3>2. CASE \E l \in Uploading \cup {"lost", "done"} : To(s, q, l)
      BY <3>2 DEF Uploading
    <3>3. RotateFile(s, q) \/ NormalizeArtifact(s, q) \/ ReadMeta(s, q)
            => \E l \in Uploading \cup {"lost", "done"} : To(s, q, l)
      BY DEF RotateFile, NormalizeArtifact, ReadMeta, Uploading
    <3>4. WriteMeta(s, q) \/ ValidateInRepo(s, q)
            => \E l \in Uploading \cup {"lost", "done"} : To(s, q, l)
      BY DEF WriteMeta, ValidateInRepo, Uploading
    <3> QED
      BY <1>4, <3>1, <3>2, <3>3, <3>4
  <2> QED
    BY <1>0, <1>i, <2>1, <2>2 DEF PinInv, Planned, ContextCi
<1>5. ASSUME NEW s \in Runs, NEW q \in Projects, PutFile(s, q) PROVE PinInv(r, p)'
  <2>1. /\ UNCHANGED <<ran, run, accepted>> /\ run[s] = "publish"
        /\ \A u \in Projects \ {q} : object'[u] = object[u]
    BY <1>0, <1>5 DEF PutFile
  <2>2. PICK l \in {"put", "meta"} : leg' = [leg EXCEPT ![s][q] = l]
    BY <1>5 DEF PutFile
  <2>3. run[r] = "legs" => FALSE
    BY <2>1 DEF Alone, Active
  <2> QED
    BY <1>0, <1>i, <2>1, <2>2, <2>3 DEF PinInv, Planned, ContextCi
<1>6. ASSUME NEW s \in Runs, NEW q \in Projects, AssertRunnerPin(s, q) PROVE PinInv(r, p)'
  <2>1. UNCHANGED <<object, ran, run, accepted>> /\ run[s] = "legs" /\ q \in Planned(s)
    BY <1>6 DEF AssertRunnerPin
  <2>2. PICK l \in {"pinned", "refused"} :
          /\ leg' = [leg EXCEPT ![s][q] = l]
          /\ l = "pinned" /\ ContextCi(kind[s]) /\ meta[q] # Nothing => meta[q].ref \in {s, Nothing}
    BY <1>6 DEF AssertRunnerPin
  <2>3. CASE s = r /\ q = p
    <3>1. l = "pinned" /\ ContextCi(kind[r]) => \E o \in MayPass(r) : Holds(object[p], built[o])
      BY <2>1, <2>2, <2>3, PinMeansOwnBundle DEF Planned
    <3>2. leg'[r][p] = l
      BY <1>0, <2>2, <2>3
    <3> QED
      BY <1>i, <2>1, <2>3, <3>1, <3>2 DEF PinInv, Planned, ContextCi
  <2>4. CASE s # r \/ q # p
    BY <1>0, <1>i, <2>1, <2>2, <2>4 DEF PinInv, Planned, ContextCi
  <2> QED
    BY <2>3, <2>4
<1>7. ASSUME NEW s \in Runs, NEW q \in Projects, ExecuteLeg(s, q) PROVE PinInv(r, p)'
  <2>1. /\ UNCHANGED <<object, run, accepted>> /\ leg[s][q] = "pinned"
        /\ ran' = [ran EXCEPT ![s][q] = object[q]]
        /\ leg' = [leg EXCEPT ![s][q] = "ran"]
    BY <1>7 DEF ExecuteLeg
  <2>2. CASE s = r /\ q = p
    BY <1>0, <1>i, <2>1, <2>2 DEF PinInv, Planned, ContextCi
  <2>3. CASE s # r \/ q # p
    BY <1>0, <1>i, <2>1, <2>3 DEF PinInv, Planned, ContextCi
  <2> QED
    BY <2>2, <2>3
<1>8. ASSUME NEW s \in Runs, FilterFails(s) \/ \E q \in Projects : PublishFails(s, q) PROVE PinInv(r, p)'
  BY <1>8 DEF FilterFails, PublishFails
<1>v. ASSUME NEW s \in Runs, StartVerify(s) \/ VerifyEnds(s) PROVE PinInv(r, p)'
  <2>1. /\ run[s] # "legs" /\ UNCHANGED <<object, ran, leg>>
        /\ \A t \in Runs \ {s} : run'[t] = run[t] /\ accepted'[t] = accepted[t]
    BY <1>0, <1>v DEF StartVerify, VerifyEnds, MayStart
  <2> QED
    BY <1>i, <2>1 DEF PinInv, Planned, ContextCi
<1>w. ASSUME NEW s \in Runs, NEW q \in Projects, VerifyProject(s, q) PROVE PinInv(r, p)'
  <2>1. UNCHANGED <<object, ran, run, accepted>>
    BY <1>w DEF VerifyProject
  <2>2. PICK l \in {"nobmt", "lost", "done"} : leg' = [leg EXCEPT ![s][q] = l]
    BY <1>w DEF VerifyProject, VerifyOutcomes, CheckRunner
  <2> QED
    BY <1>0, <1>i, <2>1, <2>2 DEF PinInv, Planned, ContextCi
<1>9. CASE UNCHANGED vars
  BY <1>i, <1>9 DEF vars, PinInv, Planned, ContextCi
<1> QED
  BY <1>1, <1>2, <1>3, <1>4, <1>5, <1>6, <1>7, <1>8, <1>v, <1>w, <1>9 DEF Next, Step, Upload

RunnerInv == TypeOK /\ CursorInv /\ BinaryInv /\ CalmInv

LEMMA RunnerInvariant == Spec => []RunnerInv
<1>1. Init => RunnerInv
  BY InitTypeOK, InitCursor, InitBinary, InitCalm DEF RunnerInv
<1>2. ASSUME RunnerInv, [Next]_vars PROVE RunnerInv'
  <2>1. TypeOK' /\ CursorInv' /\ BinaryInv'
    BY <1>2, NextTypeOK, NextCursor, NextBinary DEF RunnerInv
  <2>2. CASE calm
    <3>1. Alone'
      BY <1>2, <2>2, NextAlone DEF RunnerInv, CalmInv
    <3>2. ASSUME NEW p \in Projects PROVE BucketInv(p)'
      BY <1>2, <2>2, NextBucket DEF RunnerInv, CalmInv
    <3>3. ASSUME NEW r \in Runs, NEW p \in Projects PROVE PinInv(r, p)'
      BY <1>2, <2>2, NextPin DEF RunnerInv, CalmInv
    <3> QED
      BY <2>1, <3>1, <3>2, <3>3 DEF RunnerInv, CalmInv
  <2>3. CASE ~calm
    BY <1>2, <2>1, <2>3, InputsKept DEF RunnerInv, CalmInv
  <2> QED
    BY <2>2, <2>3
<1> QED
  BY <1>1, <1>2, PTL DEF Spec

(* Between the uploads of runs that do not overlap and whose calls do not  *)
(* fail, every row of runner_meta.json is true of the gate prefix,         *)
(* whatever sets of files the commits build, so skipping a file by its row *)
(* is sound.                                                               *)
THEOREM MetadataDescribeTheBucket == Spec => []MetaDescribesBucket
<1>1. RunnerInv => MetaDescribesBucket
  BY DEF RunnerInv, CalmInv, BucketInv, Described, Old, Writing, Uploading, MetaDescribesBucket
<1> QED
  BY <1>1, RunnerInvariant, PTL

(* Under the same condition a leg of the context "ci" that the pin lets    *)
(* through runs with every file its own commit built (or the commit of a   *)
(* publish job that named none), through re-runs, releases, bootstraps and *)
(* skipped uploads.                                                        *)
THEOREM PinSelectsOwnBundle == Spec => []PinnedLegRunsItsCommit
<1>1. RunnerInv => PinnedLegRunsItsCommit
  BY DEF RunnerInv, CalmInv, PinInv, PinnedLegRunsItsCommit
<1> QED
  BY <1>1, RunnerInvariant, PTL
=============================================================================
