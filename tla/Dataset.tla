------------------------------ MODULE Dataset ------------------------------
(***************************************************************************)
(* One dataset prefix, projects/<project>/inputs/<dataset>, of the gate    *)
(* bucket: the commands that fill it (`bmt bucket upload-dataset' with a   *)
(* folder, an archive, a file or a Drive folder, `promote-dataset'), the   *)
(* Cloud Run job that expands a staged archive, and the handoff that       *)
(* checks the prefix before its legs read it.  The objects are written one *)
(* call at a time, the listing dataset_manifest.json last; nothing locks.  *)
(***************************************************************************)
EXTENDS Naturals, FiniteSets, FiniteSetsExt

CONSTANTS
  Names,      \* members of a dataset
  Wavs,       \* those whose name ends in .wav
  Sizes,      \* a content is told apart by its size; 0 is no object
  Sources,    \* what the commands may be given
  MaxOps,     \* bound: commands, over the whole history
  MaxTries,   \* attempts of a Cloud Run task (max_retries + 1)
  NoManifest  \* there is no dataset_manifest.json

Manifest == "dataset_manifest.json"

ASSUME NamesAssumption == IsFiniteSet(Names) /\ Wavs \subseteq Names /\ Manifest \notin Names
ASSUME SizesAssumption == Sizes \subseteq Nat \ {0}
ASSUME SourcesAssumption ==
  Sources \subseteq [Names -> Sizes \cup {0}] /\ \A s \in Sources : \E n \in Names : s[n] # 0
ASSUME BoundsAssumption == MaxOps \in Nat \ {0} /\ MaxTries \in Nat \ {0}

VARIABLES
  calm,       \* commands and handoffs do not overlap, nobody stops waiting (chosen once)
  neighbour,  \* objects of datasets whose name extends this one's (chosen once)
  bucket,     \* the members under the prefix
  manifest,   \* what dataset_manifest.json lists
  archive,    \* the staged imports/<project>/<uuid>.zip of a command exists
  op,         \* of each command: [kind, at, src, todo, listed, ok]
  job,        \* of each command, its import job: [at, todo, absent, tries]
  gate        \* the dataset check of a handoff: [at, count, told, read]

vars == <<calm, neighbour, bucket, manifest, archive, op, job, gate>>
inputs == <<calm, neighbour>>

Ops == 1 .. MaxOps
Datasets == [Names -> Sizes \cup {0}]
Empty == [n \in Names |-> 0]
Present(d) == {n \in Names : d[n] # 0}
Count(d) == Cardinality(Present(d))
Bytes(d) == MapThenSumSet(LAMBDA n : d[n], Names)

Rsyncs == {"dir", "force"}       \* a folder, without and with --force
Copies == {"file", "promote", "clobber", "drive"}
Kinds == Rsyncs \cup Copies \cup {"zip"}
Ended(i) == op[i].at = "end" /\ job[i].at \in {"none", "done", "failed"}
Begun(i) == op[i].at # "idle"
Quiet == \A i \in Ops : Begun(i) => Ended(i)

TypeOK ==
  /\ calm \in BOOLEAN /\ neighbour \in 0 .. 1
  /\ bucket \in Datasets /\ manifest \in Datasets \cup {NoManifest}
  /\ archive \in [Ops -> BOOLEAN]
  /\ op \in [Ops -> [kind : Kinds \cup {"none"}, src : Datasets, listed : Datasets,
                     at : {"idle", "check", "sync", "stage", "wait", "validate", "list", "write", "end"},
                     todo : SUBSET (Names \cup {Manifest}), ok : BOOLEAN]]
  /\ job \in [Ops -> [at : {"none", "fetch", "copy", "done", "failed"}, todo : SUBSET Names,
                      absent : SUBSET Names, tries : 0 .. MaxTries]]
  /\ gate \in [at : {"idle", "listed", "accepted", "refused", "ran"}, count : Nat,
               told : Datasets \cup {NoManifest}, read : Datasets]

Init ==
  /\ calm \in BOOLEAN /\ neighbour \in 0 .. 1
  /\ bucket = Empty /\ manifest = NoManifest
  /\ archive = [i \in Ops |-> FALSE]
  /\ op = [i \in Ops |-> [kind |-> "none", at |-> "idle", src |-> Empty, todo |-> {}, listed |-> Empty, ok |-> FALSE]]
  /\ job = [i \in Ops |-> [at |-> "none", todo |-> {}, absent |-> {}, tries |-> 0]]
  /\ gate = [at |-> "idle", count |-> 0, told |-> NoManifest, read |-> Empty]

Goto(i, at) == op' = [op EXCEPT ![i].at = at]
Ends(i, ok) == op' = [op EXCEPT ![i].at = "end", ![i].ok = ok, ![i].todo = {}, ![i].listed = Empty]
Fail(i) == Ends(i, FALSE)

\* prefix_stats counts every object whose name starts with the prefix: the
\* manifest and the datasets next to it as well.
PrefixStats ==
  LET listing == IF manifest = NoManifest THEN 0 ELSE 1
  IN  <<Count(bucket) + neighbour + listing, Bytes(bucket) + neighbour + 1000 * listing>>

SourceStats(i) == <<Count(op[i].src), Bytes(op[i].src)>>

-----------------------------------------------------------------------------
(* The commands                                                            *)

CanBegin(i) ==
  /\ op[i].at = "idle" /\ \A j \in Ops : j < i => Begun(j)
  /\ calm => Quiet /\ gate.at \notin {"listed", "accepted"}

\* The mode follows from what the source is; a single file is one member.
Begin(i) ==
  /\ CanBegin(i)
  /\ \E k \in Kinds \ {"drive"}, src \in Sources :
       /\ k = "file" => Count(src) = 1
       /\ op' = [op EXCEPT ![i].kind = k, ![i].src = src,
                   ![i].todo = IF k \in Rsyncs THEN Names \cup {Manifest} ELSE Present(src),
                   ![i].at = CASE k = "dir" -> "check" [] k = "zip" -> "stage" [] OTHER -> "sync"]
  /\ UNCHANGED <<inputs, bucket, manifest, archive, job, gate>>

\* For a Drive folder the command dispatches a job and returns at once: what
\* follows is the job, of whose end nobody is told.
BeginDrive(i) ==
  /\ CanBegin(i)
  /\ \E src \in Sources :
       op' = [op EXCEPT ![i].kind = "drive", ![i].src = src, ![i].todo = Present(src), ![i].at = "sync"]
  /\ UNCHANGED <<inputs, bucket, manifest, archive, job, gate>>

\* _already_synced: a folder that looks uploaded is not uploaded again.
CheckSynced(i) ==
  /\ op[i].at = "check"
  /\ Goto(i, IF PrefixStats = SourceStats(i) THEN "validate" ELSE "sync")
  /\ UNCHANGED <<inputs, bucket, manifest, archive, job, gate>>

\* gcloud storage rsync of a folder also deletes what the source lacks, the
\* manifest included; a promotion skips what is there unless it clobbers;
\* rclone and cp write what they have.
Transfer(i) ==
  /\ op[i].at = "sync"
  /\ \E n \in op[i].todo :
       /\ op' = [op EXCEPT ![i].todo = @ \ {n}]
       /\ IF n = Manifest THEN manifest' = NoManifest /\ UNCHANGED bucket
          ELSE /\ bucket' = IF op[i].kind = "promote" /\ bucket[n] # 0 THEN bucket
                            ELSE [bucket EXCEPT ![n] = op[i].src[n]]
               /\ UNCHANGED manifest
  /\ UNCHANGED <<inputs, archive, job, gate>>

TransferStops(i) ==
  /\ op[i].at = "sync" /\ Fail(i)
  /\ UNCHANGED <<inputs, bucket, manifest, archive, job, gate>>

Transferred(i) ==
  /\ op[i].at = "sync" /\ op[i].todo = {} /\ op[i].kind # "drive"
  /\ Goto(i, IF op[i].kind \in Rsyncs \cup {"file"} THEN "validate" ELSE "list")
  /\ UNCHANGED <<inputs, bucket, manifest, archive, job, gate>>

\* The transfer job pipes the listing into `python3 - <<PYEOF': the script
\* takes the place of the listing, no JSON is left to read, and the job
\* ends before its manifest is written.
DriveTransferred(i) ==
  /\ op[i].at = "sync" /\ op[i].todo = {} /\ op[i].kind = "drive"
  /\ Goto(i, "end")
  /\ UNCHANGED <<inputs, bucket, manifest, archive, job, gate>>

StageArchive(i) ==
  /\ op[i].at = "stage"
  /\ \/ Fail(i) /\ UNCHANGED <<archive, job>>
     \/ /\ Goto(i, "wait")
        /\ archive' = [archive EXCEPT ![i] = TRUE]
        /\ job' = [job EXCEPT ![i] = [at |-> "fetch", todo |-> {}, absent |-> {}, tries |-> 1]]
  /\ UNCHANGED <<inputs, bucket, manifest, gate>>

\* Mutant of WaitForJob: the poll knows neither failure nor deadline.
WaitForSuccess(i) ==
  /\ op[i].at = "wait" /\ job[i].at = "done"
  /\ Goto(i, "validate")
  /\ UNCHANGED <<inputs, bucket, manifest, archive, job, gate>>

\* run_cloud_run_job polls to the end of the job or to its deadline; then
\* the archive is deleted (a NotFound ends the command as well).
WaitForJob(i) ==
  /\ op[i].at = "wait"
  /\ \/ job[i].at = "done" /\ Goto(i, "validate") /\ UNCHANGED archive
     \/ /\ job[i].at = "failed" \/ ~calm
        /\ archive' = [archive EXCEPT ![i] = FALSE]
        /\ Fail(i)
  /\ UNCHANGED <<inputs, bucket, manifest, job, gate>>

\* Mutant of Validate: the result of the comparison is printed only.
ValidateAloud(i) ==
  /\ op[i].at = "validate"
  /\ Goto(i, "list")
  /\ UNCHANGED <<inputs, bucket, manifest, archive, job, gate>>

\* _validate_upload: the count and the bytes of the prefix are the source's.
Validate(i) ==
  /\ op[i].at = "validate"
  /\ IF PrefixStats = SourceStats(i) THEN Goto(i, "list") ELSE Fail(i)
  /\ UNCHANGED <<inputs, bucket, manifest, archive, job, gate>>

\* gen_input_manifest lists the prefix; upload-dataset ignores its failure.
ListObjects(i) ==
  /\ op[i].at = "list"
  /\ \/ op' = [op EXCEPT ![i].at = "write", ![i].listed = bucket]
     \/ Ends(i, op[i].kind \notin Copies \ {"file"})
  /\ UNCHANGED <<inputs, bucket, manifest, archive, job, gate>>

\* A lost upload of the manifest is a warning.
WriteManifest(i) ==
  /\ op[i].at = "write"
  /\ Ends(i, TRUE)
  /\ manifest' \in {manifest, op[i].listed}
  /\ UNCHANGED <<inputs, bucket, archive, job, gate>>

-----------------------------------------------------------------------------
(* The import job                                                          *)

Fetch(i) ==
  /\ job[i].at = "fetch" /\ archive[i]
  /\ job' = [job EXCEPT ![i].at = "copy", ![i].todo = Present(op[i].src), ![i].absent = {}]
  /\ UNCHANGED <<inputs, bucket, manifest, archive, op, gate>>

\* exists() of the next member: skip it, or upload it in another call.
LookUp(i) ==
  /\ job[i].at = "copy" /\ job[i].absent = {}
  /\ \E n \in job[i].todo :
       job' = [job EXCEPT ![i].todo = @ \ {n}, ![i].absent = IF bucket[n] = 0 THEN {n} ELSE {}]
  /\ UNCHANGED <<inputs, bucket, manifest, archive, op, gate>>

UploadMember(i) ==
  /\ job[i].at = "copy"
  /\ \E n \in job[i].absent : bucket' = [bucket EXCEPT ![n] = op[i].src[n]]
  /\ job' = [job EXCEPT ![i].absent = {}]
  /\ UNCHANGED <<inputs, manifest, archive, op, gate>>

DeleteArchive(i) ==
  /\ job[i].at = "copy" /\ job[i].todo = {} /\ job[i].absent = {} /\ archive[i]
  /\ archive' = [archive EXCEPT ![i] = FALSE]
  /\ job' = [job EXCEPT ![i].at = "done"]
  /\ UNCHANGED <<inputs, bucket, manifest, op, gate>>

\* A call fails (the archive may be gone), or the container dies; the next
\* attempt starts over.
AttemptFails(i) ==
  /\ job[i].at \in {"fetch", "copy"}
  /\ job' = [job EXCEPT ![i] =
       IF @.tries < MaxTries THEN [at |-> "fetch", todo |-> {}, absent |-> {}, tries |-> @.tries + 1]
       ELSE [@ EXCEPT !.at = "failed"]]
  /\ UNCHANGED <<inputs, bucket, manifest, archive, op, gate>>

-----------------------------------------------------------------------------
(* The dataset check of the handoff, and the leg                           *)

Audio(d) == Present(d) \cap Wavs

\* The handoff changes nothing; it is looked at between the commands.  It
\* counts the .wav objects of the listing.
GateLists ==
  /\ gate.at \in {"idle", "refused", "ran"}
  /\ calm /\ Quiet
  /\ gate' = [at |-> "listed", count |-> Cardinality(Audio(bucket)), told |-> NoManifest, read |-> Empty]
  /\ UNCHANGED <<inputs, bucket, manifest, archive, op, job>>

\* Mutant of GateDecides: only missing files are an error.
GateDecidesAtLeast ==
  /\ gate.at = "listed"
  /\ \E told \in {manifest, NoManifest} :
       LET fits == IF told = NoManifest THEN gate.count > 0 ELSE gate.count >= Count(told)
       IN  gate' = [gate EXCEPT !.told = told, !.at = IF fits THEN "accepted" ELSE "refused"]
  /\ UNCHANGED <<inputs, bucket, manifest, archive, op, job>>

\* The manifest is read in another call; one that cannot be read is none,
\* and then any .wav will do.  The length of a list of all the objects is
\* compared with the number of .wav objects.
GateDecides ==
  /\ gate.at = "listed"
  /\ \E told \in {manifest, NoManifest} :
       LET fits == IF told = NoManifest THEN gate.count > 0 ELSE gate.count = Count(told)
       IN  gate' = [gate EXCEPT !.told = told, !.at = IF fits THEN "accepted" ELSE "refused"]
  /\ UNCHANGED <<inputs, bucket, manifest, archive, op, job>>

LegReads ==
  /\ gate.at = "accepted"
  /\ gate' = [gate EXCEPT !.at = "ran", !.read = bucket]
  /\ UNCHANGED <<inputs, bucket, manifest, archive, op, job>>

-----------------------------------------------------------------------------
Command(i) ==
  \/ CheckSynced(i) \/ Transfer(i) \/ TransferStops(i) \/ Transferred(i) \/ DriveTransferred(i)
  \/ StageArchive(i) \/ WaitForJob(i) \/ Validate(i) \/ ListObjects(i) \/ WriteManifest(i)

ImportJob(i) == Fetch(i) \/ LookUp(i) \/ UploadMember(i) \/ DeleteArchive(i) \/ AttemptFails(i)

Next ==
  \/ \E i \in Ops : Begin(i) \/ BeginDrive(i) \/ Command(i) \/ ImportJob(i)
  \/ GateLists \/ GateDecides \/ LegReads

\* A command runs until it returns, Cloud Run runs its tasks.
Spec == Init /\ [][Next]_vars /\ \A i \in Ops : WF_vars(Command(i)) /\ WF_vars(ImportJob(i))

-----------------------------------------------------------------------------
LastOp(i) == Begun(i) /\ \A j \in Ops : j > i => ~Begun(j)

(* A command that reports success has left the members of its source, and  *)
(* no others when it validates, whatever attempts of the job died and      *)
(* whatever was there before; a forced folder also their contents.  The    *)
(* folder that is taken for synced is left out: see the README.            *)
SuccessfulUploadIsComplete ==
  calm => \A i \in Ops : LastOp(i) /\ op[i].at = "end" /\ op[i].ok =>
    CASE op[i].kind \in {"zip", "file"} -> Present(bucket) = Present(op[i].src)
      [] op[i].kind = "force" -> bucket = op[i].src
      [] op[i].kind \in {"promote", "clobber"} -> Present(op[i].src) \subseteq Present(bucket)
      [] OTHER -> TRUE

\* The handoff has read a manifest and let the legs run, where commands only
\* add members and nothing overlaps.
RanByManifest ==
  /\ calm /\ \A i \in Ops : op[i].kind \notin Rsyncs
  /\ gate.at = "ran" /\ gate.told # NoManifest

(* Commands that only add members cannot fool the handoff over a manifest  *)
(* that lists .wav members alone: the legs read the listed members and no  *)
(* other .wav, although only the numbers were compared and commands have   *)
(* failed.                                                                 *)
AcceptedMatchesManifest ==
  RanByManifest /\ Present(gate.told) \subseteq Wavs => Audio(gate.read) = Present(gate.told)

(* Stronger than the code: the same for any manifest.  The number of .wav  *)
(* objects is compared with the length of a list of all objects, so that a *)
(* .wav of a broken import makes up for a listed file that is none.        *)
AcceptedIsListed == RanByManifest => Audio(gate.read) \subseteq Present(gate.told)

(* Every command returns and its import job ends.                          *)
UploadsEnd == \A i \in Ops : Begun(i) ~> Ended(i)
=============================================================================
