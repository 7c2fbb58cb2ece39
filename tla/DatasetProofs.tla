---------------------------- MODULE DatasetProofs ----------------------------
(***************************************************************************)
(* Theorems about Dataset, for any finite set of member names, any sources *)
(* and any number of commands and attempts.                                *)
(***************************************************************************)
EXTENDS Dataset, FiniteSetTheorems, TLAPS

USE DEF inputs

-----------------------------------------------------------------------------
(* Type correctness.                                                       *)

Commands ==
  [kind : Kinds \cup {"none"}, src : Datasets, listed : Datasets,
   at : {"idle", "check", "sync", "stage", "wait", "validate", "list", "write", "end"},
   todo : SUBSET (Names \cup {Manifest}), ok : BOOLEAN]

Jobs ==
  [at : {"none", "fetch", "copy", "done", "failed"}, todo : SUBSET Names,
   absent : SUBSET Names, tries : 0 .. MaxTries]

Gates ==
  [at : {"idle", "listed", "accepted", "refused", "ran"}, count : Nat,
   told : Datasets \cup {NoManifest}, read : Datasets]

Types ==
  /\ calm \in BOOLEAN /\ neighbour \in 0 .. 1
  /\ bucket \in Datasets /\ manifest \in Datasets \cup {NoManifest}
  /\ archive \in [Ops -> BOOLEAN]
  /\ op \in [Ops -> Commands] /\ job \in [Ops -> Jobs] /\ gate \in Gates

LEMMA TypesAreTypeOK == Types <=> TypeOK
  BY DEF Types, TypeOK, Commands, Jobs, Gates

\* A step of one command or of its job, and a step of the handoff.
Acts(i) == Begin(i) \/ BeginDrive(i) \/ Command(i) \/ ImportJob(i)
Looks == GateLists \/ GateDecides \/ LegReads

LEMMA Steps == [Next]_vars => UNCHANGED vars \/ Looks \/ \E i \in Ops : Acts(i)
  BY DEF Next, Looks, Acts

LEMMA PresentIsFinite ==
  ASSUME NEW d PROVE Present(d) \subseteq Names /\ IsFiniteSet(Present(d)) /\ Count(d) \in Nat
<1>1. Present(d) \subseteq Names
  BY DEF Present
<1>2. IsFiniteSet(Present(d))
  BY <1>1, NamesAssumption, FS_Subset
<1> QED
  BY <1>1, <1>2, FS_CardinalityType DEF Count

\* Two sets of members of which one holds the other and is no larger.
LEMMA SameMembers ==
  ASSUME NEW d, NEW e, Present(d) \subseteq Present(e), Count(e) <= Count(d)
  PROVE  Present(d) = Present(e)
<1>1. Count(d) <= Count(e) /\ (Count(e) = Count(d) => Present(e) = Present(d))
  BY PresentIsFinite, FS_Subset DEF Count
<1> QED
  BY <1>1, PresentIsFinite

LEMMA AudioIsFinite ==
  ASSUME NEW d PROVE Audio(d) \subseteq Wavs /\ IsFiniteSet(Audio(d)) /\ Cardinality(Audio(d)) \in Nat
<1>1. Audio(d) \subseteq Present(d) /\ Audio(d) \subseteq Wavs
  BY DEF Audio
<1>2. IsFiniteSet(Audio(d))
  BY <1>1, PresentIsFinite, FS_Subset
<1> QED
  BY <1>1, <1>2, FS_CardinalityType

\* The same for a listing of .wav members and the .wav members of the bucket.
LEMMA SameAudio ==
  ASSUME NEW d, NEW e, Present(d) \subseteq Audio(e), Cardinality(Audio(e)) = Count(d)
  PROVE  Present(d) = Audio(e)
  BY AudioIsFinite, FS_Subset DEF Count

LEMMA InitTypes == Init => Types
<1> SUFFICES ASSUME Init PROVE Types
  OBVIOUS
<1>1. Empty \in Datasets
  BY DEF Empty, Datasets
<1>2. [kind |-> "none", at |-> "idle", src |-> Empty, todo |-> {}, listed |-> Empty, ok |-> FALSE] \in Commands
  BY <1>1 DEF Commands
<1>3. [at |-> "none", todo |-> {}, absent |-> {}, tries |-> 0] \in Jobs
  BY BoundsAssumption DEF Jobs
<1>4. [at |-> "idle", count |-> 0, told |-> NoManifest, read |-> Empty] \in Gates
  BY <1>1 DEF Gates
<1> QED
  BY <1>1, <1>2, <1>3, <1>4 DEF Init, Types

LEMMA BeginTypes == ASSUME Types, NEW i \in Ops, Begin(i) \/ BeginDrive(i) PROVE Types'
<1>1. PICK k \in Kinds, src \in Sources, todo \in SUBSET (Names \cup {Manifest}), at \in {"check", "stage", "sync"} :
        op' = [op EXCEPT ![i].kind = k, ![i].src = src, ![i].todo = todo, ![i].at = at]
  <2>1. CASE Begin(i)
    <3>1. PICK k \in Kinds \ {"drive"}, src \in Sources :
            op' = [op EXCEPT ![i].kind = k, ![i].src = src,
                     ![i].todo = IF k \in Rsyncs THEN Names \cup {Manifest} ELSE Present(src),
                     ![i].at = CASE k = "dir" -> "check" [] k = "zip" -> "stage" [] OTHER -> "sync"]
      BY <2>1 DEF Begin
    <3>2. (IF k \in Rsyncs THEN Names \cup {Manifest} ELSE Present(src)) \in SUBSET (Names \cup {Manifest})
      BY PresentIsFinite
    <3>3. (CASE k = "dir" -> "check" [] k = "zip" -> "stage" [] OTHER -> "sync") \in {"check", "stage", "sync"}
      OBVIOUS
    <3> QED
      BY <3>1, <3>2, <3>3
  <2>2. CASE BeginDrive(i)
    <3>1. PICK src \in Sources :
            op' = [op EXCEPT ![i].kind = "drive", ![i].src = src, ![i].todo = Present(src), ![i].at = "sync"]
      BY <2>2 DEF BeginDrive
    <3>2. "drive" \in Kinds /\ Present(src) \in SUBSET (Names \cup {Manifest})
      BY PresentIsFinite DEF Kinds, Copies
    <3> QED
      BY <3>1, <3>2
  <2> QED
    BY <2>1, <2>2
<1>2. src \in Datasets
  BY SourcesAssumption DEF Datasets
<1>3. [op[i] EXCEPT !.kind = k, !.src = src, !.todo = todo, !.at = at] \in Commands
  BY <1>2 DEF Types, Commands
<1>4. op' \in [Ops -> Commands]
  BY <1>1, <1>3 DEF Types
<1> QED
  BY <1>4 DEF Begin, BeginDrive, Types

LEMMA CommandTypes == ASSUME Types, NEW i \in Ops, Command(i) PROVE Types'
<1>0. /\ op[i] \in Commands /\ op \in [Ops -> Commands] /\ bucket \in Datasets
      /\ op[i].src \in Datasets /\ op[i].listed \in Datasets /\ op[i].todo \subseteq Names \cup {Manifest}
  BY DEF Types, Commands
<1>g. ASSUME NEW at \in {"sync", "stage", "wait", "validate", "list", "end"}, Goto(i, at)
      PROVE  op' \in [Ops -> Commands]
  BY <1>0, <1>g DEF Goto, Commands
<1>e. ASSUME NEW ok \in BOOLEAN, Ends(i, ok)
      PROVE  op' \in [Ops -> Commands]
  <2>1. [op[i] EXCEPT !.at = "end", !.ok = ok, !.todo = {}, !.listed = Empty] \in Commands
    BY <1>0 DEF Commands, Empty, Datasets
  <2> QED
    BY <1>0, <1>e, <2>1 DEF Ends
<1>1. CASE CheckSynced(i) \/ Transferred(i) \/ DriveTransferred(i)
  BY <1>1, <1>g DEF CheckSynced, Transferred, DriveTransferred, Types
<1>2. CASE Transfer(i)
  <2>1. PICK n \in op[i].todo :
          /\ op' = [op EXCEPT ![i].todo = @ \ {n}]
          /\ IF n = Manifest THEN manifest' = NoManifest /\ UNCHANGED bucket
             ELSE /\ bucket' = IF op[i].kind = "promote" /\ bucket[n] # 0 THEN bucket
                               ELSE [bucket EXCEPT ![n] = op[i].src[n]]
                  /\ UNCHANGED manifest
    BY <1>2 DEF Transfer
  <2>2. op' \in [Ops -> Commands]
    BY <1>0, <2>1 DEF Commands
  <2>3. bucket' \in Datasets
    BY <1>0, <2>1 DEF Datasets
  <2>4. manifest' \in Datasets \cup {NoManifest}
    BY <2>1 DEF Types
  <2> QED
    BY <1>2, <2>2, <2>3, <2>4 DEF Transfer, Types
<1>3. CASE TransferStops(i)
  BY <1>3, <1>e DEF TransferStops, Fail, Types
<1>4. CASE StageArchive(i)
  <2>1. op' \in [Ops -> Commands]
    BY <1>4, <1>e, <1>g DEF StageArchive, Fail
  <2>2. [at |-> "fetch", todo |-> {}, absent |-> {}, tries |-> 1] \in Jobs
    BY BoundsAssumption DEF Jobs
  <2> QED
    BY <1>4, <2>1, <2>2 DEF StageArchive, Types
<1>5. CASE WaitForJob(i)
  BY <1>5, <1>e, <1>g DEF WaitForJob, Fail, Types
<1>6. CASE Validate(i)
  <2>1. op' \in [Ops -> Commands]
    BY <1>6, <1>e, <1>g DEF Validate, Fail
  <2> QED
    BY <1>6, <2>1 DEF Validate, Types
<1>7. CASE ListObjects(i)
  <2>1. (op[i].kind \notin Copies \ {"file"}) \in BOOLEAN
    OBVIOUS
  <2>2. [op[i] EXCEPT !.at = "write", !.listed = bucket] \in Commands
    BY <1>0 DEF Commands
  <2>3. op' \in [Ops -> Commands]
    BY <1>0, <1>7, <1>e, <2>1, <2>2 DEF ListObjects
  <2> QED
    BY <1>7, <2>3 DEF ListObjects, Types
<1>8. CASE WriteManifest(i)
  BY <1>0, <1>8, <1>e DEF WriteManifest, Types
<1> QED
  BY <1>1, <1>2, <1>3, <1>4, <1>5, <1>6, <1>7, <1>8 DEF Command

LEMMA JobTypes == ASSUME Types, NEW i \in Ops, ImportJob(i) PROVE Types'
<1>0. /\ job[i] \in Jobs /\ job \in [Ops -> Jobs] /\ op[i] \in Commands /\ bucket \in Datasets
      /\ job[i].todo \subseteq Names /\ job[i].absent \subseteq Names /\ op[i].src \in Datasets
      /\ job[i].tries \in 0 .. MaxTries
  BY DEF Types, Commands, Jobs
<1>1. CASE Fetch(i)
  <2>1. [job[i] EXCEPT !.at = "copy", !.todo = Present(op[i].src), !.absent = {}] \in Jobs
    BY <1>0, PresentIsFinite DEF Jobs
  <2> QED
    BY <1>0, <1>1, <2>1 DEF Fetch, Types
<1>2. CASE LookUp(i)
  <2>1. PICK n \in job[i].todo :
          job' = [job EXCEPT ![i].todo = @ \ {n}, ![i].absent = IF bucket[n] = 0 THEN {n} ELSE {}]
    BY <1>2 DEF LookUp
  <2>2. [job[i] EXCEPT !.todo = job[i].todo \ {n}, !.absent = IF bucket[n] = 0 THEN {n} ELSE {}] \in Jobs
    BY <1>0 DEF Jobs
  <2> QED
    BY <1>0, <1>2, <2>1, <2>2 DEF LookUp, Types
<1>3. CASE UploadMember(i)
  <2>1. job' \in [Ops -> Jobs]
    BY <1>0, <1>3 DEF UploadMember, Jobs
  <2>2. bucket' \in Datasets
    BY <1>0, <1>3 DEF UploadMember, Datasets
  <2> QED
    BY <1>3, <2>1, <2>2 DEF UploadMember, Types
<1>4. CASE DeleteArchive(i)
  BY <1>0, <1>4 DEF DeleteArchive, Jobs, Types
<1>5. CASE AttemptFails(i)
  <2>1. job[i].tries < MaxTries =>
          [at |-> "fetch", todo |-> {}, absent |-> {}, tries |-> job[i].tries + 1] \in Jobs
    BY <1>0, BoundsAssumption DEF Jobs
  <2>2. [job[i] EXCEPT !.at = "failed"] \in Jobs
    BY <1>0 DEF Jobs
  <2>3. job' \in [Ops -> Jobs]
    BY <1>0, <1>5, <2>1, <2>2 DEF AttemptFails
  <2> QED
    BY <1>5, <2>3 DEF AttemptFails, Types
<1> QED
  BY <1>1, <1>2, <1>3, <1>4, <1>5 DEF ImportJob

LEMMA LookTypes == ASSUME Types, Looks PROVE Types'
<1>1. gate' \in Gates
  <2>1. CASE GateLists
    BY <2>1, AudioIsFinite DEF GateLists, Gates, Empty, Datasets
  <2>2. CASE GateDecides
    <3>1. PICK told \in {manifest, NoManifest}, at \in {"accepted", "refused"} :
            gate' = [gate EXCEPT !.told = told, !.at = at]
      BY <2>2 DEF GateDecides
    <3> QED
      BY <3>1 DEF Types, Gates
  <2>3. CASE LegReads
    BY <2>3 DEF LegReads, Types, Gates
  <2> QED
    BY <2>1, <2>2, <2>3 DEF Looks
<1> QED
  BY <1>1 DEF Looks, GateLists, GateDecides, LegReads, Types

LEMMA NextTypes == Types /\ [Next]_vars => Types'
<1>1. Types /\ UNCHANGED vars => Types'
  BY DEF vars, Types
<1> QED
  BY <1>1, Steps, BeginTypes, CommandTypes, JobTypes, LookTypes DEF Acts

(* The commands, the import jobs and the handoff keep to their types; the  *)
(* attempts of a job stay within their bound.                              *)
THEOREM DatasetTypeCorrect == Spec => []TypeOK
<1>1. Spec => []Types
  BY InitTypes, NextTypes, PTL DEF Spec
<1> QED
  BY <1>1, TypesAreTypeOK, PTL
-----------------------------------------------------------------------------
(* What a command is doing, and what it has done so far.                   *)

\* The mode of a command decides the steps it goes through; only a folder
\* removes anything, and only an archive has an import job.
Shape(i) ==
  /\ op[i].kind = "none" <=> op[i].at = "idle"
  /\ op[i].at = "check" => op[i].kind = "dir"
  /\ op[i].at \in {"stage", "wait"} => op[i].kind = "zip"
  /\ op[i].at = "sync" => op[i].kind # "zip"
  /\ op[i].at = "validate" => op[i].kind \in Rsyncs \cup {"file", "zip"}
  /\ op[i].kind \notin Rsyncs => op[i].todo \subseteq Present(op[i].src)
  /\ job[i].at = "none" => job[i].todo = {} /\ job[i].absent = {}
  /\ job[i].at # "none" => op[i].kind = "zip" /\ op[i].at # "stage"
  /\ job[i].todo \cup job[i].absent \subseteq Present(op[i].src)
  /\ \A m, n \in job[i].absent : m = n

InOrder == \A i, j \in Ops : Begun(i) /\ j < i => Begun(j)

ShapeInv == InOrder /\ \A i \in Ops : Shape(i)

\* What the last command has brought, in the terms of its mode.
Delivered(i) ==
  /\ op[i].kind \in {"zip", "file"} => Present(bucket) = Present(op[i].src)
  /\ op[i].kind = "force" => bucket = op[i].src
  /\ op[i].kind \in {"promote", "clobber"} => Present(op[i].src) \subseteq Present(bucket)

Progress(i) ==
  /\ op[i].at = "sync" /\ op[i].kind \in {"file", "promote", "clobber"} =>
       Present(op[i].src) \subseteq Present(bucket) \cup op[i].todo
  /\ op[i].at = "sync" /\ op[i].kind = "force" =>
       \A n \in Names \ op[i].todo : bucket[n] = op[i].src[n]
  /\ job[i].at = "copy" => Present(op[i].src) \subseteq Present(bucket) \cup job[i].todo \cup job[i].absent
  /\ job[i].at = "done" => Present(op[i].src) \subseteq Present(bucket)
  /\ op[i].at = "validate" /\ op[i].kind = "file" => Present(op[i].src) \subseteq Present(bucket)
  /\ op[i].at = "validate" /\ op[i].kind = "force" => bucket = op[i].src
  /\ op[i].at \in {"list", "write"} \/ (op[i].at = "end" /\ op[i].ok) => Delivered(i)

\* Commands that do not overlap: only the last one is under way, its job
\* runs while it waits, and nobody else has touched what it brought.
Alone(i) ==
  /\ Begun(i) /\ ~Ended(i) => LastOp(i)
  /\ job[i].at \in {"fetch", "copy"} => op[i].at = "wait"
  /\ op[i].kind = "zip" /\ op[i].at = "validate" => job[i].at = "done"
  /\ LastOp(i) => Progress(i)

CalmInv == calm => \A i \in Ops : Alone(i)

OnlyAdds == \A i \in Ops : op[i].kind \notin Rsyncs

\* A listing names what was there, and members only come.
ListingInv ==
  OnlyAdds =>
    /\ manifest # NoManifest => Present(manifest) \subseteq Present(bucket)
    /\ \A i \in Ops : op[i].at = "write" => Present(op[i].listed) \subseteq Present(bucket)

\* Nothing moves between the listing of the handoff and the reading of the
\* leg, and equal numbers of nested sets are equal sets; the listed members
\* are among the counted ones where they are all .wav.
LookInv ==
  calm =>
    /\ gate.at \in {"listed", "accepted"} => Quiet
    /\ gate.at = "listed" => gate.count = Cardinality(Audio(bucket))
    /\ OnlyAdds /\ gate.told # NoManifest /\ Present(gate.told) \subseteq Wavs =>
         /\ gate.at = "accepted" => Present(gate.told) = Audio(bucket)
         /\ gate.at = "ran" => Audio(gate.read) = Present(gate.told)

LEMMA GotoFields ==
  ASSUME Types, NEW i \in Ops, NEW at, Goto(i, at)
  PROVE  /\ op'[i].at = at /\ op'[i].kind = op[i].kind /\ op'[i].src = op[i].src
         /\ op'[i].todo = op[i].todo /\ op'[i].listed = op[i].listed /\ op'[i].ok = op[i].ok
         /\ \A j \in Ops \ {i} : op'[j] = op[j]
  BY DEF Types, Commands, Goto

LEMMA EndsFields ==
  ASSUME Types, NEW i \in Ops, NEW ok, Ends(i, ok)
  PROVE  /\ op'[i].at = "end" /\ op'[i].kind = op[i].kind /\ op'[i].src = op[i].src
         /\ op'[i].todo = {} /\ op'[i].ok = ok
         /\ \A j \in Ops \ {i} : op'[j] = op[j]
  BY DEF Types, Commands, Ends

LEMMA BeginFields ==
  ASSUME Types, NEW i \in Ops, Begin(i) \/ BeginDrive(i)
  PROVE  /\ CanBegin(i) /\ op'[i].kind \in Kinds
         /\ op'[i].at = CASE op'[i].kind = "dir" -> "check" [] op'[i].kind = "zip" -> "stage" [] OTHER -> "sync"
         /\ op'[i].todo = IF op'[i].kind \in Rsyncs THEN Names \cup {Manifest} ELSE Present(op'[i].src)
         /\ op'[i].src \in Sources
         /\ \A j \in Ops \ {i} : op'[j] = op[j]
         /\ UNCHANGED <<calm, bucket, manifest, job, gate>>
<1>1. CASE Begin(i)
  <2>1. PICK k \in Kinds, src \in Sources :
          op' = [op EXCEPT ![i].kind = k, ![i].src = src,
                   ![i].todo = IF k \in Rsyncs THEN Names \cup {Manifest} ELSE Present(src),
                   ![i].at = CASE k = "dir" -> "check" [] k = "zip" -> "stage" [] OTHER -> "sync"]
    BY <1>1 DEF Begin
  <2>2. op'[i] = [op[i] EXCEPT !.kind = k, !.src = src,
                    !.todo = IF k \in Rsyncs THEN Names \cup {Manifest} ELSE Present(src),
                    !.at = CASE k = "dir" -> "check" [] k = "zip" -> "stage" [] OTHER -> "sync"]
    BY <2>1 DEF Types
  <2>3. /\ op'[i].kind = k /\ op'[i].src = src
        /\ op'[i].todo = IF k \in Rsyncs THEN Names \cup {Manifest} ELSE Present(src)
        /\ op'[i].at = CASE k = "dir" -> "check" [] k = "zip" -> "stage" [] OTHER -> "sync"
    BY <2>2 DEF Types, Commands
  <2>4. \A j \in Ops \ {i} : op'[j] = op[j]
    BY <2>1 DEF Types
  <2> QED
    BY <1>1, <2>3, <2>4 DEF Begin
<1>2. CASE BeginDrive(i)
  <2>1. PICK src \in Sources :
          op' = [op EXCEPT ![i].kind = "drive", ![i].src = src, ![i].todo = Present(src), ![i].at = "sync"]
    BY <1>2 DEF BeginDrive
  <2>2. /\ op'[i].kind = "drive" /\ op'[i].src = src /\ op'[i].todo = Present(src) /\ op'[i].at = "sync"
        /\ \A j \in Ops \ {i} : op'[j] = op[j]
    BY <2>1 DEF Types, Commands
  <2> QED
    BY <1>2, <2>2 DEF BeginDrive, Kinds, Copies, Rsyncs
<1> QED
  BY <1>1, <1>2

\* What a command and a job never do.
LEMMA CommandFields ==
  ASSUME Types, NEW i \in Ops, Command(i)
  PROVE  /\ op[i].at \notin {"idle", "end"} /\ op'[i].at # "idle"
         /\ op'[i].kind = op[i].kind /\ op'[i].src = op[i].src
         /\ \A j \in Ops \ {i} : op'[j] = op[j] /\ job'[j] = job[j]
         /\ UNCHANGED <<calm, gate>>
<1>1. CASE CheckSynced(i) \/ Transferred(i) \/ DriveTransferred(i)
  BY <1>1, GotoFields DEF CheckSynced, Transferred, DriveTransferred
<1>2. CASE Transfer(i)
  BY <1>2 DEF Transfer, Types, Commands
<1>3. CASE TransferStops(i)
  BY <1>3, EndsFields DEF TransferStops, Fail
<1>4. CASE StageArchive(i)
  <2>1. \A j \in Ops \ {i} : job'[j] = job[j]
    BY <1>4 DEF StageArchive, Types
  <2>2. CASE Fail(i)
    BY <1>4, <2>1, <2>2, EndsFields DEF StageArchive, Fail
  <2>3. CASE Goto(i, "wait")
    BY <1>4, <2>1, <2>3, GotoFields DEF StageArchive
  <2> QED
    BY <1>4, <2>2, <2>3 DEF StageArchive
<1>5. CASE WaitForJob(i) \/ Validate(i)
  BY <1>5, EndsFields, GotoFields DEF WaitForJob, Validate, Fail
<1>6. CASE ListObjects(i)
  <2>1. CASE op' = [op EXCEPT ![i].at = "write", ![i].listed = bucket]
    BY <1>6, <2>1 DEF ListObjects, Types, Commands
  <2> QED
    BY <1>6, <2>1, EndsFields DEF ListObjects
<1>7. CASE WriteManifest(i)
  BY <1>7, EndsFields DEF WriteManifest
<1> QED
  BY <1>1, <1>2, <1>3, <1>4, <1>5, <1>6, <1>7 DEF Command

LEMMA JobFields ==
  ASSUME Types, NEW i \in Ops, ImportJob(i)
  PROVE  /\ job[i].at \in {"fetch", "copy"} /\ job'[i].at # "none"
         /\ \A j \in Ops \ {i} : job'[j] = job[j]
         /\ UNCHANGED <<calm, gate, op, manifest>>
<1>1. CASE Fetch(i) \/ LookUp(i) \/ UploadMember(i) \/ DeleteArchive(i)
  BY <1>1 DEF Fetch, LookUp, UploadMember, DeleteArchive, Types, Jobs
<1>2. CASE AttemptFails(i)
  BY <1>2 DEF AttemptFails, Types, Jobs
<1> QED
  BY <1>1, <1>2 DEF ImportJob

LEMMA OthersStay ==
  ASSUME Types, NEW i \in Ops, Acts(i)
  PROVE  /\ \A j \in Ops \ {i} : op'[j] = op[j] /\ job'[j] = job[j]
         /\ calm' = calm /\ gate' = gate
  BY BeginFields, CommandFields, JobFields DEF Acts

-----------------------------------------------------------------------------
(* The shape of a command.                                                 *)

LEMMA InitShape == Init => ShapeInv
  BY DEF Init, ShapeInv, InOrder, Shape, Begun, Ops, Rsyncs

LEMMA OrderSteps == ASSUME Types, InOrder, NEW i \in Ops, Acts(i) PROVE InOrder'
<1>1. CASE Begin(i) \/ BeginDrive(i)
  BY <1>1, BeginFields DEF CanBegin, InOrder, Begun, Ops
<1>2. CASE Command(i)
  BY <1>2, CommandFields DEF InOrder, Begun
<1>3. CASE ImportJob(i)
  BY <1>3, JobFields DEF InOrder, Begun
<1> QED
  BY <1>1, <1>2, <1>3 DEF Acts

LEMMA CommandShape == ASSUME Types, NEW i \in Ops, Shape(i), Command(i) PROVE Shape(i)'
<1> USE DEF Shape, Rsyncs, Copies
<1>1. CASE CheckSynced(i) \/ Transferred(i) \/ DriveTransferred(i)
  BY <1>1, GotoFields DEF CheckSynced, Transferred, DriveTransferred, Kinds, Types, Commands
<1>2. CASE Transfer(i)
  <2>1. PICK n \in op[i].todo : op' = [op EXCEPT ![i].todo = @ \ {n}]
    BY <1>2 DEF Transfer
  <2>2. /\ op'[i].at = op[i].at /\ op'[i].kind = op[i].kind /\ op'[i].src = op[i].src
        /\ op'[i].todo \subseteq op[i].todo
    BY <2>1 DEF Types, Commands
  <2> QED
    BY <1>2, <2>2 DEF Transfer
<1>3. CASE TransferStops(i)
  BY <1>3, EndsFields DEF TransferStops, Fail
<1>4. CASE StageArchive(i)
  <2>1. CASE Fail(i) /\ UNCHANGED job
    BY <1>4, <2>1, EndsFields DEF StageArchive, Fail
  <2>2. CASE Goto(i, "wait") /\ job' = [job EXCEPT ![i] = [at |-> "fetch", todo |-> {}, absent |-> {}, tries |-> 1]]
    <3>1. job'[i] = [at |-> "fetch", todo |-> {}, absent |-> {}, tries |-> 1]
      BY <2>2 DEF Types
    <3> QED
      BY <1>4, <2>2, <3>1, GotoFields DEF StageArchive
  <2> QED
    BY <1>4, <2>1, <2>2 DEF StageArchive
<1>5. CASE WaitForJob(i) \/ Validate(i)
  <2>1. op[i].at \in {"wait", "validate"} /\ UNCHANGED job
    BY <1>5 DEF WaitForJob, Validate
  <2>2. CASE Fail(i)
    BY <2>1, <2>2, EndsFields DEF Fail
  <2>3. CASE Goto(i, "validate") /\ op[i].at = "wait"
    BY <2>1, <2>3, GotoFields
  <2>4. CASE Goto(i, "list")
    BY <2>1, <2>4, GotoFields
  <2> QED
    BY <1>5, <2>2, <2>3, <2>4 DEF WaitForJob, Validate
<1>6. CASE ListObjects(i)
  <2>1. CASE op' = [op EXCEPT ![i].at = "write", ![i].listed = bucket]
    <3>1. /\ op'[i].at = "write" /\ op'[i].kind = op[i].kind /\ op'[i].src = op[i].src
          /\ op'[i].todo = op[i].todo
      BY <2>1 DEF Types, Commands
    <3> QED
      BY <1>6, <3>1 DEF ListObjects
  <2> QED
    BY <1>6, <2>1, EndsFields DEF ListObjects
<1>7. CASE WriteManifest(i)
  BY <1>7, EndsFields DEF WriteManifest
<1> QED
  BY <1>1, <1>2, <1>3, <1>4, <1>5, <1>6, <1>7 DEF Command

LEMMA JobShape == ASSUME Types, NEW i \in Ops, Shape(i), ImportJob(i) PROVE Shape(i)'
<1>0. UNCHANGED op /\ job[i].at # "none" /\ job'[i].at # "none"
  BY JobFields
<1>1. /\ job'[i].todo \cup job'[i].absent \subseteq Present(op[i].src)
      /\ \A m, n \in job'[i].absent : m = n
  <2>1. CASE Fetch(i) \/ UploadMember(i) \/ DeleteArchive(i)
    BY <2>1 DEF Fetch, UploadMember, DeleteArchive, Types, Jobs, Shape
  <2>2. CASE LookUp(i)
    <3>1. PICK n \in job[i].todo :
            job' = [job EXCEPT ![i].todo = @ \ {n}, ![i].absent = IF bucket[n] = 0 THEN {n} ELSE {}]
      BY <2>2 DEF LookUp
    <3>2. job'[i].todo = job[i].todo \ {n} /\ job'[i].absent = IF bucket[n] = 0 THEN {n} ELSE {}
      BY <3>1 DEF Types, Jobs
    <3>3. job'[i].absent \subseteq {n}
      BY <3>2
    <3>4. job[i].todo \subseteq Present(op[i].src)
      BY DEF Shape
    <3> QED
      BY <3>2, <3>3, <3>4
  <2>3. CASE AttemptFails(i)
    BY <2>3 DEF AttemptFails, Types, Jobs, Shape
  <2> QED
    BY <2>1, <2>2, <2>3 DEF ImportJob
<1> QED
  BY <1>0, <1>1 DEF Shape

LEMMA ShapeSteps == ASSUME Types, ShapeInv, NEW i \in Ops, Acts(i) PROVE ShapeInv'
<1>1. ASSUME NEW j \in Ops \ {i} PROVE Shape(j)'
  BY <1>1, OthersStay DEF ShapeInv, Shape
<1>2. Shape(i)'
  <2>1. CASE Begin(i) \/ BeginDrive(i)
    <3>1. UNCHANGED job /\ Shape(i) /\ op[i].at = "idle"
      BY <2>1, BeginFields DEF CanBegin, ShapeInv
    <3>2. job[i].at = "none"
      BY <3>1 DEF Shape
    <3>3. job[i].todo = {} /\ job[i].absent = {}
      BY <3>1, <3>2 DEF Shape
    <3> QED
      BY <2>1, <3>1, <3>2, <3>3, BeginFields DEF Shape, Rsyncs, Copies, Kinds
  <2>2. CASE Command(i)
    BY <2>2, CommandShape DEF ShapeInv
  <2>3. CASE ImportJob(i)
    BY <2>3, JobShape DEF ShapeInv
  <2> QED
    BY <2>1, <2>2, <2>3 DEF Acts
<1> QED
  BY <1>1, <1>2, OrderSteps DEF ShapeInv
-----------------------------------------------------------------------------
(* Commands that only add.                                                 *)

LEMMA AddsStays == ASSUME Types, ShapeInv, NEW i \in Ops, Acts(i), OnlyAdds' PROVE OnlyAdds
<1>1. \A j \in Ops \ {i} : op[j].kind \notin Rsyncs
  BY OthersStay DEF OnlyAdds
<1>2. op[i].kind \notin Rsyncs
  <2>1. CASE Begin(i) \/ BeginDrive(i)
    BY <2>1, BeginFields DEF CanBegin, ShapeInv, Shape, Rsyncs
  <2>2. CASE Command(i)
    BY <2>2, CommandFields DEF OnlyAdds
  <2>3. CASE ImportJob(i)
    BY <2>3, JobFields DEF OnlyAdds
  <2> QED
    BY <2>1, <2>2, <2>3 DEF Acts
<1> QED
  BY <1>1, <1>2 DEF OnlyAdds

\* Then the members only come, and the manifest is one that a command listed.
LEMMA MembersGrow ==
  ASSUME Types, ShapeInv, OnlyAdds, NEW i \in Ops, Acts(i)
  PROVE  /\ Present(bucket) \subseteq Present(bucket')
         /\ manifest' = manifest \/ (op[i].at = "write" /\ manifest' = op[i].listed)
<1>1. CASE Begin(i) \/ BeginDrive(i)
  BY <1>1, BeginFields
<1>2. CASE Transfer(i)
  <2>1. PICK n \in op[i].todo :
          /\ op' = [op EXCEPT ![i].todo = @ \ {n}]
          /\ IF n = Manifest THEN manifest' = NoManifest /\ UNCHANGED bucket
             ELSE /\ bucket' = IF op[i].kind = "promote" /\ bucket[n] # 0 THEN bucket
                               ELSE [bucket EXCEPT ![n] = op[i].src[n]]
                  /\ UNCHANGED manifest
    BY <1>2 DEF Transfer
  <2>2. n \in Present(op[i].src)
    BY <2>1 DEF OnlyAdds, ShapeInv, Shape
  <2>3. n \in Names /\ n # Manifest /\ op[i].src[n] # 0
    BY <2>2, NamesAssumption DEF Present
  <2> QED
    BY <2>1, <2>3 DEF Present, Types, Datasets
<1>3. CASE Command(i) /\ ~Transfer(i)
  <2>1. bucket' = bucket
    BY <1>3 DEF Command, CheckSynced, TransferStops, Transferred, DriveTransferred, StageArchive, WaitForJob,
                Validate, ListObjects, WriteManifest
  <2>2. manifest' = manifest \/ (op[i].at = "write" /\ manifest' = op[i].listed)
    BY <1>3 DEF Command, CheckSynced, TransferStops, Transferred, DriveTransferred, StageArchive, WaitForJob,
                Validate, ListObjects, WriteManifest
  <2> QED
    BY <2>1, <2>2
<1>4. CASE ImportJob(i)
  <2>1. CASE UploadMember(i)
    <3>1. PICK n \in job[i].absent : bucket' = [bucket EXCEPT ![n] = op[i].src[n]]
      BY <2>1 DEF UploadMember
    <3>2. n \in Present(op[i].src)
      BY DEF ShapeInv, Shape
    <3> QED
      BY <2>1, <3>1, <3>2, JobFields, <1>4 DEF Present, Types, Datasets
  <2>2. CASE ~UploadMember(i)
    BY <1>4, <2>2, JobFields DEF ImportJob, Fetch, LookUp, DeleteArchive, AttemptFails
  <2> QED
    BY <2>1, <2>2
<1> QED
  BY <1>1, <1>2, <1>3, <1>4 DEF Acts

LEMMA WritesWhatItLists ==
  ASSUME Types, ShapeInv, NEW i \in Ops, Acts(i), op'[i].at = "write", op[i].at # "write"
  PROVE  op'[i].listed = bucket /\ bucket' = bucket
<1>1. ~(Begin(i) \/ BeginDrive(i))
  BY BeginFields
<1>2. ~ImportJob(i)
  BY JobFields
<1>3. Command(i)
  BY <1>1, <1>2 DEF Acts
<1>4. ASSUME NEW ok PROVE ~Ends(i, ok)
  BY <1>4, EndsFields
<1>5. ASSUME NEW at, at # "write" PROVE ~Goto(i, at)
  BY <1>5, GotoFields
<1>6. ~Transfer(i)
  BY DEF Transfer, Types, Commands
<1>7. ListObjects(i)
  BY <1>3, <1>4, <1>5, <1>6 DEF Command, Fail, CheckSynced, TransferStops, Transferred, DriveTransferred,
                                StageArchive, WaitForJob, Validate, WriteManifest
<1> QED
  BY <1>4, <1>7 DEF ListObjects, Types, Commands

LEMMA InitListing == Init => ListingInv
  BY DEF Init, ListingInv

LEMMA ListingSteps == ASSUME Types, ShapeInv, ListingInv, NEW i \in Ops, Acts(i) PROVE ListingInv'
<1> SUFFICES ASSUME OnlyAdds'
             PROVE  /\ manifest' # NoManifest => Present(manifest') \subseteq Present(bucket')
                    /\ \A j \in Ops : op'[j].at = "write" => Present(op'[j].listed) \subseteq Present(bucket')
  BY DEF ListingInv, Present
<1>1. OnlyAdds
  BY AddsStays
<1>2. Present(bucket) \subseteq Present(bucket')
  BY <1>1, MembersGrow
<1>3. manifest' # NoManifest => Present(manifest') \subseteq Present(bucket')
  BY <1>1, <1>2, MembersGrow DEF ListingInv
<1>4. ASSUME NEW j \in Ops \ {i}, op'[j].at = "write"
      PROVE  Present(op'[j].listed) \subseteq Present(bucket')
  BY <1>1, <1>2, <1>4, OthersStay DEF ListingInv
<1>5. ASSUME op'[i].at = "write"
      PROVE  Present(op'[i].listed) \subseteq Present(bucket')
  <2>1. CASE op[i].at # "write"
    BY <1>5, <2>1, WritesWhatItLists
  <2>2. CASE op[i].at = "write"
    <3>1. ImportJob(i)
      <4>1. ~WriteManifest(i)
        BY <1>5, EndsFields DEF WriteManifest
      <4>2. ~(Begin(i) \/ BeginDrive(i))
        BY <2>2, BeginFields DEF CanBegin
      <4> QED
        BY <2>2, <4>1, <4>2 DEF Acts, Command, CheckSynced, Transfer, TransferStops, Transferred,
                                DriveTransferred, StageArchive, WaitForJob, Validate, ListObjects
    <3> QED
      BY <1>1, <1>2, <2>2, <3>1, JobFields DEF ListingInv
  <2> QED
    BY <2>1, <2>2
<1> QED
  BY <1>3, <1>4, <1>5
-----------------------------------------------------------------------------
(* Commands that do not overlap.                                           *)

\* Of these, a step is one of the last command, and the others are over.
LEMMA OnlyTheLastActs ==
  ASSUME Types, ShapeInv, CalmInv, calm, NEW i \in Ops, Acts(i)
  PROVE  /\ LastOp(i)'
         /\ \A j \in Ops \ {i} : ~LastOp(j)' /\ (Begun(j) => Ended(j))
<1>1. CASE Begin(i) \/ BeginDrive(i)
  <2>1. /\ op[i].at = "idle" /\ op'[i].at # "idle" /\ \A j \in Ops : j < i => Begun(j)
        /\ Quiet /\ \A j \in Ops \ {i} : op'[j] = op[j]
    BY <1>1, BeginFields DEF CanBegin
  <2>2. \A j \in Ops : j > i => ~Begun(j)
    BY <2>1 DEF ShapeInv, InOrder, Begun, Ops
  <2> QED
    BY <2>1, <2>2 DEF LastOp, Begun, Quiet, Ops
<1>2. CASE Command(i) \/ ImportJob(i)
  <2>1. Begun(i) /\ ~Ended(i)
    <3>1. CASE Command(i)
      BY <3>1, CommandFields DEF Begun, Ended
    <3>2. CASE ImportJob(i)
      BY <3>2, JobFields DEF Begun, Ended, CalmInv, Alone
    <3> QED
      BY <1>2, <3>1, <3>2
  <2>2. LastOp(i)
    BY <2>1 DEF CalmInv, Alone
  <2>3. \A j \in Ops : Begun(j)' <=> Begun(j)
    <3>1. CASE Command(i)
      BY <3>1, CommandFields DEF Begun
    <3>2. CASE ImportJob(i)
      BY <3>2, JobFields DEF Begun
    <3> QED
      BY <1>2, <3>1, <3>2
  <2>4. \A j \in Ops \ {i} : ~LastOp(j)
    BY <2>2 DEF LastOp, Ops
  <2>5. \A j \in Ops \ {i} : Begun(j) => Ended(j)
    BY <2>4 DEF CalmInv, Alone
  <2> QED
    BY <2>2, <2>3, <2>4, <2>5 DEF LastOp
<1> QED
  BY <1>1, <1>2 DEF Acts

\* What is uploaded is there, and what was there stays.
LEMMA Uploaded ==
  ASSUME Types, NEW n \in Names, NEW size \in Sizes \cup {0}, size # 0, bucket' = [bucket EXCEPT ![n] = size]
  PROVE  Present(bucket') = Present(bucket) \cup {n}
  BY DEF Types, Datasets, Present

LEMMA SourceSizes == ASSUME Types, NEW i \in Ops, NEW n \in Names PROVE op[i].src[n] \in Sizes \cup {0}
  BY DEF Types, Commands, Datasets

LEMMA TransferProgress ==
  ASSUME Types, ShapeInv, NEW i \in Ops, Transfer(i), Progress(i), job[i].at = "none"
  PROVE  Progress(i)'
<1>1. PICK n \in op[i].todo :
        /\ op' = [op EXCEPT ![i].todo = @ \ {n}]
        /\ IF n = Manifest THEN manifest' = NoManifest /\ UNCHANGED bucket
           ELSE /\ bucket' = IF op[i].kind = "promote" /\ bucket[n] # 0 THEN bucket
                             ELSE [bucket EXCEPT ![n] = op[i].src[n]]
                /\ UNCHANGED manifest
  BY DEF Transfer
<1>2. /\ op'[i].at = op[i].at /\ op'[i].kind = op[i].kind /\ op'[i].src = op[i].src
      /\ op'[i].todo = op[i].todo \ {n} /\ op[i].at = "sync" /\ job' = job
      /\ op[i].todo \subseteq Names \cup {Manifest}
  BY <1>1 DEF Transfer, Types, Commands
<1>3. ASSUME op[i].kind \in {"file", "promote", "clobber"}
      PROVE  Present(op[i].src) \subseteq Present(bucket') \cup op'[i].todo
  <2>1. Present(op[i].src) \subseteq Present(bucket) \cup op[i].todo
    BY <1>2, <1>3 DEF Progress
  <2>2. n \in Present(op[i].src)
    BY <1>3 DEF ShapeInv, Shape, Rsyncs
  <2>3. n \in Names /\ n # Manifest /\ op[i].src[n] # 0
    BY <2>2, NamesAssumption DEF Present
  <2>4. Present(bucket') = Present(bucket) \cup {n}
    <3>1. CASE op[i].kind = "promote" /\ bucket[n] # 0
      BY <1>1, <2>3, <3>1 DEF Present
    <3>2. CASE ~(op[i].kind = "promote" /\ bucket[n] # 0)
      BY <1>1, <2>3, <3>2, SourceSizes, Uploaded
    <3> QED
      BY <3>1, <3>2
  <2> QED
    BY <1>2, <2>1, <2>4
<1>4. ASSUME op[i].kind = "force"
      PROVE  \A m \in Names \ op'[i].todo : bucket'[m] = op[i].src[m]
  <2>1. \A m \in Names \ op[i].todo : bucket[m] = op[i].src[m]
    BY <1>2, <1>4 DEF Progress
  <2>2. CASE n = Manifest
    BY <1>1, <1>2, <2>1, <2>2, NamesAssumption
  <2>3. CASE n # Manifest
    BY <1>1, <1>2, <1>4, <2>1, <2>3 DEF Types, Datasets
  <2> QED
    BY <2>2, <2>3
<1> QED
  BY <1>2, <1>3, <1>4 DEF Progress

\* The comparison of numbers finds what is missing, and what is too much.
LEMMA EqualStats ==
  ASSUME Types, NEW i \in Ops, PrefixStats = SourceStats(i), Present(op[i].src) \subseteq Present(bucket)
  PROVE  Present(bucket) = Present(op[i].src)
<1> DEFINE listing == IF manifest = NoManifest THEN 0 ELSE 1
<1>1. Count(bucket) + neighbour + listing = Count(op[i].src)
  BY DEF PrefixStats, SourceStats
<1>2. Count(bucket) <= Count(op[i].src)
  BY <1>1, PresentIsFinite DEF Types
<1> QED
  BY <1>2, SameMembers
LEMMA CommandProgress ==
  ASSUME Types, ShapeInv, NEW i \in Ops, Alone(i), LastOp(i), Command(i)
  PROVE  Progress(i)'
<1>1. Progress(i) /\ Shape(i)
  BY DEF Alone, ShapeInv
<1>k. op'[i].kind = op[i].kind /\ op'[i].src = op[i].src
  BY CommandFields
<1>d. bucket' = bucket /\ Delivered(i) => Delivered(i)'
  BY <1>k DEF Delivered
\* A command that fails promises nothing; its job keeps what it has done.
<1>f. ASSUME Fail(i), bucket' = bucket, job' = job
      PROVE  Progress(i)'
  BY <1>1, <1>k, <1>f, EndsFields DEF Fail, Progress
<1>2. CASE CheckSynced(i)
  <2>1. op[i].kind = "dir" /\ op'[i].at \in {"validate", "sync"} /\ job' = job /\ job[i].at = "none"
    BY <1>1, <1>2, GotoFields DEF CheckSynced, Shape, Types, Jobs
  <2> QED
    BY <1>k, <2>1 DEF Progress
<1>3. CASE Transfer(i)
  BY <1>1, <1>3, TransferProgress DEF Transfer, Shape
<1>4. CASE TransferStops(i)
  BY <1>4, <1>f DEF TransferStops
<1>5. CASE Transferred(i)
  <2>1. /\ op[i].todo = {} /\ op[i].at = "sync" /\ UNCHANGED <<bucket, job>> /\ job[i].at = "none"
        /\ op'[i].at = IF op[i].kind \in Rsyncs \cup {"file"} THEN "validate" ELSE "list"
    BY <1>1, <1>5, GotoFields DEF Transferred, Shape, Types, Jobs
  <2>2. op[i].kind = "force" => bucket = op[i].src
    BY <1>1, <2>1 DEF Progress, Types, Commands, Datasets
  <2>3. op[i].kind \in {"file", "promote", "clobber"} => Present(op[i].src) \subseteq Present(bucket)
    BY <1>1, <2>1 DEF Progress
  <2>4. op[i].kind # "zip"
    BY <1>1, <2>1 DEF Shape
  <2> QED
    BY <1>k, <2>1, <2>2, <2>3, <2>4 DEF Progress, Delivered, Rsyncs
<1>6. CASE DriveTransferred(i)
  BY <1>1, <1>6, <1>k, GotoFields DEF DriveTransferred, Progress, Delivered
<1>7. CASE StageArchive(i)
  <2>1. CASE Fail(i) /\ UNCHANGED job
    BY <1>7, <2>1, <1>f DEF StageArchive
  <2>2. CASE Goto(i, "wait") /\ job' = [job EXCEPT ![i] = [at |-> "fetch", todo |-> {}, absent |-> {}, tries |-> 1]]
    <3>1. op'[i].at = "wait" /\ job'[i].at = "fetch"
      BY <2>2, GotoFields DEF Types
    <3> QED
      BY <3>1 DEF Progress
  <2> QED
    BY <1>7, <2>1, <2>2 DEF StageArchive
<1>8. CASE WaitForJob(i)
  <2>1. CASE Goto(i, "validate")
    BY <1>1, <1>8, <1>k, <2>1, GotoFields DEF WaitForJob, Progress, Shape
  <2>2. CASE Fail(i)
    BY <1>8, <1>f, <2>2 DEF WaitForJob
  <2> QED
    BY <1>8, <2>1, <2>2 DEF WaitForJob
<1>9. CASE Validate(i)
  <2>1. CASE Fail(i)
    BY <1>9, <1>f, <2>1 DEF Validate
  <2>2. CASE PrefixStats = SourceStats(i) /\ Goto(i, "list")
    <3>1. op[i].kind \in {"zip", "file"} => Present(bucket) = Present(op[i].src)
      BY <1>1, <1>9, <2>2, EqualStats DEF Alone, Progress, Validate
    <3>2. Delivered(i)
      BY <1>1, <1>9, <3>1 DEF Validate, Shape, Progress, Delivered, Rsyncs
    <3> QED
      BY <1>1, <1>9, <1>d, <1>k, <2>2, <3>2, GotoFields DEF Validate, Progress
  <2> QED
    BY <1>9, <2>1, <2>2 DEF Validate
<1>10. CASE ListObjects(i) \/ WriteManifest(i)
  <2>1. Delivered(i)' /\ UNCHANGED <<bucket, job>>
    BY <1>1, <1>10, <1>d DEF ListObjects, WriteManifest, Progress
  <2>2. op'[i].at \in {"write", "end"}
    <3>1. CASE op' = [op EXCEPT ![i].at = "write", ![i].listed = bucket]
      BY <3>1 DEF Types, Commands
    <3>2. CASE \E ok : Ends(i, ok)
      BY <3>2, EndsFields
    <3> QED
      BY <1>10, <3>1, <3>2 DEF ListObjects, WriteManifest
  <2> QED
    BY <1>1, <1>k, <2>1, <2>2 DEF Progress
<1> QED
  BY <1>2, <1>3, <1>4, <1>5, <1>6, <1>7, <1>8, <1>9, <1>10 DEF Command

LEMMA JobProgress ==
  ASSUME Types, ShapeInv, NEW i \in Ops, Alone(i), LastOp(i), ImportJob(i)
  PROVE  Progress(i)'
<1>1. Progress(i) /\ Shape(i) /\ UNCHANGED op /\ job[i].at \in {"fetch", "copy"} /\ op[i].at = "wait"
  BY JobFields DEF Alone, ShapeInv
<1>2. /\ job'[i].at = "copy" =>
           Present(op[i].src) \subseteq Present(bucket') \cup job'[i].todo \cup job'[i].absent
      /\ job'[i].at = "done" => Present(op[i].src) \subseteq Present(bucket')
  <2>1. CASE Fetch(i)
    BY <2>1 DEF Fetch, Types, Jobs
  <2>2. CASE LookUp(i)
    <3>1. PICK n \in job[i].todo :
            job' = [job EXCEPT ![i].todo = @ \ {n}, ![i].absent = IF bucket[n] = 0 THEN {n} ELSE {}]
      BY <2>2 DEF LookUp
    <3>2. /\ job'[i].todo = job[i].todo \ {n} /\ job'[i].at = "copy" /\ bucket' = bucket
          /\ job'[i].absent = IF bucket[n] = 0 THEN {n} ELSE {}
      BY <2>2, <3>1 DEF LookUp, Types, Jobs
    <3>3. n \in Present(bucket') \cup job'[i].absent
      BY <3>1, <3>2 DEF Present, Types, Jobs
    <3> QED
      BY <1>1, <2>2, <3>2, <3>3 DEF Progress, LookUp
  <2>3. CASE UploadMember(i)
    <3>1. PICK n \in job[i].absent : bucket' = [bucket EXCEPT ![n] = op[i].src[n]]
      BY <2>3 DEF UploadMember
    <3>2. n \in Names /\ op[i].src[n] # 0 /\ job[i].absent \subseteq {n}
      BY <1>1, <3>1 DEF Shape, Present
    <3>3. Present(bucket') = Present(bucket) \cup {n}
      BY <3>1, <3>2, SourceSizes, Uploaded
    <3>4. job'[i].todo = job[i].todo /\ job'[i].at = "copy"
      BY <2>3 DEF UploadMember, Types, Jobs
    <3> QED
      BY <1>1, <2>3, <3>2, <3>3, <3>4 DEF Progress, UploadMember
  <2>4. CASE DeleteArchive(i)
    BY <1>1, <2>4 DEF DeleteArchive, Types, Jobs, Progress
  <2>5. CASE AttemptFails(i)
    BY <2>5 DEF AttemptFails, Types, Jobs
  <2> QED
    BY <2>1, <2>2, <2>3, <2>4, <2>5 DEF ImportJob
<1> QED
  BY <1>1, <1>2 DEF Progress

\* A command starts its job, waits for it and goes on when it is done.
LEMMA CommandWaits ==
  ASSUME Types, calm, NEW i \in Ops, Shape(i), Alone(i), Command(i)
  PROVE  /\ job'[i].at \in {"fetch", "copy"} => op'[i].at = "wait"
         /\ op'[i].kind = "zip" /\ op'[i].at = "validate" => job'[i].at = "done"
<1>1. CASE StageArchive(i)
  <2>1. CASE Fail(i) /\ UNCHANGED job
    BY <1>1, <2>1, EndsFields DEF Fail, StageArchive, Alone
  <2>2. CASE Goto(i, "wait")
    BY <2>2, GotoFields
  <2> QED
    BY <1>1, <2>1, <2>2 DEF StageArchive
<1>2. CASE WaitForJob(i)
  <2>1. CASE Goto(i, "validate") /\ job[i].at = "done"
    BY <1>2, <2>1 DEF WaitForJob
  <2>2. CASE Fail(i) /\ job[i].at = "failed"
    BY <1>2, <2>2, EndsFields DEF WaitForJob, Fail
  <2> QED
    BY <1>2, <2>1, <2>2 DEF WaitForJob
<1>3. CASE Command(i) /\ ~StageArchive(i) /\ ~WaitForJob(i)
  <2>1. op[i].at # "wait" /\ job' = job
    BY <1>3 DEF Command, CheckSynced, Transfer, TransferStops, Transferred, DriveTransferred, Validate,
                ListObjects, WriteManifest
  <2>2. op[i].kind = "zip" => op[i].at \notin {"check", "sync"}
    BY DEF Shape
  <2>3. op[i].kind = "zip" => op'[i].at # "validate"
    <3>1. CASE Validate(i)
      <4>1. CASE Fail(i)
        BY <4>1, EndsFields DEF Fail
      <4>2. CASE Goto(i, "list")
        BY <4>2, GotoFields
      <4> QED
        BY <3>1, <4>1, <4>2 DEF Validate
    <3>2. CASE ListObjects(i)
      <4>1. CASE op' = [op EXCEPT ![i].at = "write", ![i].listed = bucket]
        BY <4>1 DEF Types, Commands
      <4> QED
        BY <3>2, <4>1, EndsFields DEF ListObjects
    <3>3. CASE WriteManifest(i)
      BY <3>3, EndsFields DEF WriteManifest
    <3> QED
      BY <1>3, <2>2, <3>1, <3>2, <3>3 DEF Command, CheckSynced, Transfer, TransferStops, Transferred, DriveTransferred
  <2> QED
    BY <2>1, <2>3, CommandFields DEF Alone
<1> QED
  BY <1>1, <1>2, <1>3

LEMMA InitCalm == Init => CalmInv
  BY DEF Init, CalmInv, Alone, LastOp, Begun, Ops

LEMMA CalmSteps == ASSUME Types, ShapeInv, CalmInv, NEW i \in Ops, Acts(i) PROVE CalmInv'
<1> SUFFICES ASSUME calm PROVE \A j \in Ops : Alone(j)'
  BY OthersStay DEF CalmInv
<1>1. ASSUME NEW j \in Ops \ {i} PROVE Alone(j)'
  <2>1. op'[j] = op[j] /\ job'[j] = job[j] /\ ~LastOp(j)' /\ (Begun(j) => Ended(j)) /\ Alone(j)
    BY OthersStay, OnlyTheLastActs DEF CalmInv
  <2> QED
    BY <2>1 DEF Alone, Begun, Ended
<1>2. LastOp(i)'
  BY OnlyTheLastActs
<1>3. Alone(i)'
  <2>1. CASE Begin(i) \/ BeginDrive(i)
    <3>1. job'[i] = job[i] /\ job[i].at = "none"
      BY <2>1, BeginFields DEF CanBegin, ShapeInv, Shape, Types, Jobs
    <3>2. op'[i].at \in {"check", "stage", "sync"}
      BY <2>1, BeginFields
    <3>3. op'[i].at = "sync" /\ op'[i].kind \in {"file", "promote", "clobber"} => op'[i].todo = Present(op'[i].src)
      BY <2>1, BeginFields DEF Rsyncs
    <3>4. op'[i].kind = "force" => op'[i].todo = Names \cup {Manifest}
      BY <2>1, BeginFields DEF Rsyncs
    <3> QED
      BY <1>2, <3>1, <3>2, <3>3, <3>4 DEF Alone, Progress
  <2>2. CASE Command(i)
    <3>1. op[i].at \notin {"idle", "end"} /\ LastOp(i) /\ Alone(i) /\ Shape(i)
      BY <2>2, CommandFields DEF CalmInv, Alone, Begun, Ended, ShapeInv
    <3>2. Progress(i)'
      BY <2>2, <3>1, CommandProgress
    <3>3. /\ job'[i].at \in {"fetch", "copy"} => op'[i].at = "wait"
          /\ op'[i].kind = "zip" /\ op'[i].at = "validate" => job'[i].at = "done"
      BY <2>2, <3>1, CommandWaits
    <3> QED
      BY <1>2, <3>2, <3>3 DEF Alone
  <2>3. CASE ImportJob(i)
    <3>1. op[i].at = "wait" /\ Begun(i) /\ ~Ended(i) /\ LastOp(i) /\ Alone(i)
      BY <2>3, JobFields DEF CalmInv, Alone, Begun, Ended
    <3>2. Progress(i)'
      BY <2>3, <3>1, JobProgress
    <3> QED
      BY <1>2, <2>3, <3>1, <3>2, JobFields DEF Alone
  <2> QED
    BY <2>1, <2>2, <2>3 DEF Acts
<1> QED
  BY <1>1, <1>3
-----------------------------------------------------------------------------
(* The handoff.                                                            *)

LEMMA InitLook == Init => LookInv
  BY DEF Init, LookInv

LEMMA LookSteps == ASSUME Types, ListingInv, LookInv, Looks PROVE LookInv'
<1>1. UNCHANGED <<calm, bucket, manifest, op, job>>
  BY DEF Looks, GateLists, GateDecides, LegReads, inputs
<1>2. Quiet' = Quiet /\ OnlyAdds' = OnlyAdds
  BY <1>1 DEF Quiet, OnlyAdds, Begun, Ended
<1> SUFFICES ASSUME calm
             PROVE  /\ gate'.at \in {"listed", "accepted"} => Quiet
                    /\ gate'.at = "listed" => gate'.count = Cardinality(Audio(bucket))
                    /\ OnlyAdds /\ gate'.told # NoManifest /\ Present(gate'.told) \subseteq Wavs =>
                         /\ gate'.at = "accepted" => Present(gate'.told) = Audio(bucket)
                         /\ gate'.at = "ran" => Audio(gate'.read) = Present(gate'.told)
  BY <1>1, <1>2 DEF LookInv, Audio, Present
<1>3. CASE GateLists
  BY <1>3 DEF GateLists
<1>4. CASE GateDecides
  <2>1. PICK told \in {manifest, NoManifest} :
          LET fits == IF told = NoManifest THEN gate.count > 0 ELSE gate.count = Count(told)
          IN  gate' = [gate EXCEPT !.told = told, !.at = IF fits THEN "accepted" ELSE "refused"]
    BY <1>4 DEF GateDecides
  <2>2. gate'.told = told /\ gate'.at \in {"accepted", "refused"}
    BY <2>1 DEF Types, Gates
  <2>3. gate'.at = "accepted" /\ told # NoManifest => told = manifest /\ gate.count = Count(told)
    BY <2>1 DEF Types, Gates
  <2>4. gate.count = Cardinality(Audio(bucket)) /\ Quiet
    BY <1>4 DEF GateDecides, LookInv
  <2>5. ASSUME OnlyAdds, gate'.told # NoManifest, Present(gate'.told) \subseteq Wavs, gate'.at = "accepted"
        PROVE  Present(gate'.told) = Audio(bucket)
    <3>1. told = manifest /\ Cardinality(Audio(bucket)) = Count(manifest) /\ Present(manifest) \subseteq Present(bucket)
      BY <2>2, <2>3, <2>4, <2>5 DEF ListingInv
    <3>2. Present(manifest) \subseteq Audio(bucket)
      BY <2>2, <2>5, <3>1 DEF Audio
    <3> QED
      BY <2>2, <3>1, <3>2, SameAudio
  <2> QED
    BY <2>2, <2>4, <2>5
<1>5. CASE LegReads
  <2>1. gate'.at = "ran" /\ gate'.told = gate.told /\ gate'.read = bucket /\ gate.at = "accepted"
    BY <1>5 DEF LegReads, Types, Gates
  <2> QED
    BY <2>1 DEF LookInv
<1> QED
  BY <1>3, <1>4, <1>5 DEF Looks

\* No command moves while the handoff looks.
LEMMA CommandsLeaveTheLook ==
  ASSUME Types, ShapeInv, CalmInv, LookInv, NEW i \in Ops, Acts(i)
  PROVE  LookInv'
<1>1. calm' = calm /\ gate' = gate
  BY OthersStay
<1>2. OnlyAdds' => OnlyAdds
  BY AddsStays
<1>3. calm => gate.at \notin {"listed", "accepted"}
  <2>1. CASE Begin(i) \/ BeginDrive(i)
    BY <2>1, BeginFields DEF CanBegin
  <2>2. CASE Command(i)
    BY <2>2, CommandFields DEF LookInv, Quiet, Begun, Ended
  <2>3. CASE ImportJob(i)
    BY <2>3, JobFields DEF LookInv, Quiet, Begun, Ended, CalmInv, Alone
  <2> QED
    BY <2>1, <2>2, <2>3 DEF Acts
<1> QED
  BY <1>1, <1>2, <1>3 DEF LookInv

-----------------------------------------------------------------------------
DatasetInv == Types /\ ShapeInv /\ CalmInv /\ ListingInv /\ LookInv

LEMMA InitInv == Init => DatasetInv
  BY InitTypes, InitShape, InitCalm, InitListing, InitLook DEF DatasetInv

LEMMA NextInv == DatasetInv /\ [Next]_vars => DatasetInv'
<1> SUFFICES ASSUME DatasetInv, [Next]_vars PROVE DatasetInv'
  OBVIOUS
<1>0. Types'
  BY NextTypes DEF DatasetInv
<1>1. CASE UNCHANGED vars
  BY <1>0, <1>1 DEF vars, DatasetInv, ShapeInv, InOrder, Shape, Begun, CalmInv, Alone, LastOp, Ended, Progress,
                    Delivered, ListingInv, OnlyAdds, LookInv, Quiet, Present, Audio
<1>2. CASE Looks
  <2>1. UNCHANGED <<calm, bucket, manifest, op, job>>
    BY <1>2 DEF Looks, GateLists, GateDecides, LegReads, inputs
  <2>2. ShapeInv' /\ CalmInv' /\ ListingInv'
    BY <2>1 DEF DatasetInv, ShapeInv, InOrder, Shape, Begun, CalmInv, Alone, LastOp, Ended, Progress,
                Delivered, ListingInv, OnlyAdds, Present
  <2> QED
    BY <1>0, <1>2, <2>2, LookSteps DEF DatasetInv
<1>3. CASE \E i \in Ops : Acts(i)
  BY <1>0, <1>3, ShapeSteps, CalmSteps, ListingSteps, CommandsLeaveTheLook DEF DatasetInv
<1> QED
  BY <1>1, <1>2, <1>3, Steps

LEMMA DatasetInvariant == Spec => []DatasetInv
  BY InitInv, NextInv, PTL DEF Spec

(* A command that reports success has delivered: the comparison of counts  *)
(* is enough because the members of the source are known to be there.      *)
THEOREM UploadsDeliver == Spec => []SuccessfulUploadIsComplete
<1>1. DatasetInv => SuccessfulUploadIsComplete
  BY DEF DatasetInv, CalmInv, Alone, Progress, Delivered, SuccessfulUploadIsComplete
<1> QED
  BY <1>1, DatasetInvariant, PTL

(* Where commands only add members and the manifest lists .wav files       *)
(* alone, the number of .wav files the handoff compares stands for the     *)
(* files themselves.                                                       *)
THEOREM LegsReadTheManifest == Spec => []AcceptedMatchesManifest
<1>1. DatasetInv => AcceptedMatchesManifest
  BY DEF DatasetInv, LookInv, OnlyAdds, RanByManifest, AcceptedMatchesManifest
<1> QED
  BY <1>1, DatasetInvariant, PTL
=============================================================================
