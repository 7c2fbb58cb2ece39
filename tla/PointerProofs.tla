---------------------------- MODULE PointerProofs ----------------------------
(***************************************************************************)
(* Theorems about ResultsPointer and StableBaseline, for any set of runs   *)
(* and any number of deaths, re-runs and promotions.                       *)
(***************************************************************************)
EXTENDS StableBaseline, FiniteSetTheorems, TLAPS

USE DEF jobVars

-----------------------------------------------------------------------------
(* Type correctness.                                                       *)

\* TypeOK bounds the number of re-runs, so they have to be a finite set.
TypeInv == TypeOK /\ IsFiniteSet(rerun)

LEMMA InitTypeInv == Init => TypeInv
<1>1. {MaxRetries, MaxReruns, MaxDeaths} \subseteq Nat
  BY BoundsAssumption
<1>2. Cardinality({}) = 0 /\ IsFiniteSet({})
  BY FS_EmptySet
<1> QED
  BY <1>1, <1>2 DEF Init, TypeInv, TypeOK, Verdicts, Pointers

LEMMA RerunBound ==
  ASSUME TypeInv, NEW r \in Runs, r \notin rerun, Cardinality(rerun) < MaxReruns
  PROVE  IsFiniteSet(rerun \cup {r}) /\ Cardinality(rerun \cup {r}) <= MaxReruns
<1>1. /\ IsFiniteSet(rerun \cup {r})
      /\ Cardinality(rerun \cup {r}) = Cardinality(rerun) + 1
  BY FS_AddElement DEF TypeInv
<1>2. Cardinality(rerun) \in Nat /\ MaxReruns \in Nat
  BY FS_CardinalityType, BoundsAssumption DEF TypeInv
<1> QED
  BY <1>1, <1>2

LEMMA NextTypeInv == TypeInv /\ [Next]_vars => TypeInv'
<1> SUFFICES ASSUME TypeInv, [Next]_vars PROVE TypeInv'
  OBVIOUS
<1> USE DEF TypeInv, TypeOK, Verdicts, Pointers
<1>0. MaxRetries \in Nat /\ MaxReruns \in Nat /\ MaxDeaths \in Nat
  BY BoundsAssumption
<1>1. ASSUME NEW r \in Runs, TaskStarts(r) PROVE TypeInv'
  BY <1>1 DEF TaskStarts
<1>2. ASSUME NEW r \in Runs, WriteSnapshot(r) PROVE TypeInv'
  BY <1>2 DEF WriteSnapshot
<1>3. ASSUME NEW r \in Runs, WriteSummary(r) PROVE TypeInv'
  BY <1>3 DEF WriteSummary
<1>4. ASSUME NEW r \in Runs, TaskEnds(r) PROVE TypeInv'
  BY <1>0, <1>4 DEF TaskEnds, Forget
<1>5. ASSUME NEW r \in Runs, TaskDies(r) PROVE TypeInv'
  BY <1>0, <1>5 DEF TaskDies, Forget
<1>6. ASSUME NEW r \in Runs, CoordStarts(r) PROVE TypeInv'
  BY <1>6 DEF CoordStarts
<1>7. ASSUME NEW r \in Runs, ReadLastPassing(r) PROVE TypeInv'
  BY <1>7 DEF ReadLastPassing
<1>8. ASSUME NEW r \in Runs, ReadPointerIds(r) PROVE TypeInv'
  BY <1>8 DEF ReadPointerIds
<1>9. ASSUME NEW r \in Runs, WritePointer(r) PROVE TypeInv'
  BY <1>9 DEF WritePointer, NewLastPassing
<1>10. ASSUME NEW r \in Runs, ListSnapshots(r) PROVE TypeInv'
  BY <1>10 DEF ListSnapshots
<1>11. ASSUME NEW r \in Runs, PruneSnapshot(r) PROVE TypeInv'
  BY <1>11 DEF PruneSnapshot
<1>12. ASSUME NEW r \in Runs, CoordEnds(r) PROVE TypeInv'
  BY <1>0, <1>12 DEF CoordEnds, Forget
<1>13. ASSUME NEW r \in Runs, CoordDies(r) PROVE TypeInv'
  BY <1>0, <1>13 DEF CoordDies, Forget
<1>14. ASSUME NEW r \in Runs, Rerun(r) PROVE TypeInv'
  BY <1>0, <1>14, RerunBound DEF Rerun
<1>15. CASE UNCHANGED vars
  BY <1>15 DEF vars
<1> QED
  BY <1>1, <1>2, <1>3, <1>4, <1>5, <1>6, <1>7, <1>8, <1>9, <1>10, <1>11,
     <1>12, <1>13, <1>14, <1>15 DEF Next, Coordinator

(* The pointer, the snapshots and the jobs keep to their types; the re-runs *)
(* stay within their bound.                                                 *)
THEOREM PointerTypeCorrect == Spec => []TypeOK
<1>1. Init => TypeInv
  BY InitTypeInv
<1>2. TypeInv /\ [Next]_vars => TypeInv'
  BY NextTypeInv
<1>3. TypeInv => TypeOK
  BY DEF TypeInv
<1> QED
  BY <1>1, <1>2, <1>3, PTL DEF Spec

-----------------------------------------------------------------------------
(* Pipelines that do not overlap.  The coordinator writes back what it     *)
(* read; nobody else moved the pointer in between, and what it holds of    *)
(* its run is what the task left.                                          *)

\* One pipeline at a time, its coordinator after its task.
Serial ==
  /\ \A r, s \in Runs : Busy(r) /\ Busy(s) => r = s
  /\ \A r \in Runs : coord[r] # "idle" => task[r] \in {"done", "dead"}

\* What the coordinator of r has read, and what its prune may remove.
Reads(r) ==
  /\ coord[r] \in {"ids", "write"} => lastRead[r] = pointer.lastPassing
  /\ coord[r] \in {"list", "prune"} => pointer.latest = r /\ pointer.lastPassing = NewLastPassing(r)
  /\ coord[r] = "prune" => pointer.latest \notin doomed[r] /\ pointer.lastPassing \notin doomed[r]

\* The verdict that r holds, its snapshot and its summary say the same.
Holds(r) ==
  /\ coord[r] \in {"last", "ids", "write", "list", "prune"} => (verdict[r] = "pass" <=> summary[r] = "pass")
  /\ task[r] = "snapshot" => verdict[r] = snapshot[r] /\ snapshot[r] # "none"
  /\ task[r] \in {"publish", "done"} /\ Busy(r) /\ r \notin rerun
       => summary[r] = snapshot[r] /\ snapshot[r] # "none"

\* A run the pointer names has been through its pipeline.
Named ==
  /\ NotRerun(pointer.latest) => task[pointer.latest] \in {"done", "dead"}
  /\ NotRerun(pointer.lastPassing) => task[pointer.lastPassing] \in {"done", "dead"}

SerialInv ==
  /\ Serial
  /\ \A r \in Runs : Reads(r) /\ Holds(r)
  /\ Named
  /\ PointerNamesSnapshots

LEMMA InitSerialInv == Init => SerialInv
  BY DEF Init, SerialInv, Serial, Busy, Over, Reads, Holds, Named, NotRerun, PointerNamesSnapshots

LEMMA NextSerialInv ==
  ASSUME OneAtATime, TypeInv, SerialInv, [Next]_vars
  PROVE  SerialInv'
<1> USE DEF SerialInv, Serial, Busy, Over, Reads, Holds, Named, NotRerun, PointerNamesSnapshots,
            NewLastPassing, TypeInv, TypeOK, Pointers
<1>0. NoRun \notin Runs
  BY NoRunAssumption
<1>1. ASSUME NEW r \in Runs, TaskStarts(r) PROVE SerialInv'
  BY <1>0, <1>1 DEF TaskStarts
<1>2. ASSUME NEW r \in Runs, WriteSnapshot(r) PROVE SerialInv'
  BY <1>0, <1>2 DEF WriteSnapshot
<1>3. ASSUME NEW r \in Runs, WriteSummary(r) PROVE SerialInv'
  BY <1>0, <1>3 DEF WriteSummary
<1>4. ASSUME NEW r \in Runs, TaskEnds(r) PROVE SerialInv'
  BY <1>0, <1>4 DEF TaskEnds, Forget
<1>5. ASSUME NEW r \in Runs, TaskDies(r) PROVE SerialInv'
  BY <1>0, <1>5 DEF TaskDies, Forget
<1>6. ASSUME NEW r \in Runs, CoordStarts(r) PROVE SerialInv'
  BY <1>0, <1>6 DEF CoordStarts
<1>7. ASSUME NEW r \in Runs, ReadLastPassing(r) PROVE SerialInv'
  BY <1>0, <1>7 DEF ReadLastPassing
<1>8. ASSUME NEW r \in Runs, ReadPointerIds(r) PROVE SerialInv'
  BY <1>0, <1>8 DEF ReadPointerIds
<1>9. ASSUME NEW r \in Runs, WritePointer(r) PROVE SerialInv'
  BY <1>0, <1>9 DEF WritePointer
<1>10. ASSUME NEW r \in Runs, ListSnapshots(r) PROVE SerialInv'
  BY <1>0, <1>10 DEF ListSnapshots, KeepRunIds
<1>11. ASSUME NEW r \in Runs, PruneSnapshot(r) PROVE SerialInv'
  BY <1>0, <1>11 DEF PruneSnapshot
<1>12. ASSUME NEW r \in Runs, CoordEnds(r) PROVE SerialInv'
  BY <1>0, <1>12 DEF CoordEnds, Forget
<1>13. ASSUME NEW r \in Runs, CoordDies(r) PROVE SerialInv'
  BY <1>0, <1>13 DEF CoordDies, Forget
<1>14. ASSUME NEW r \in Runs, Rerun(r) PROVE SerialInv'
  BY <1>0, <1>14 DEF Rerun
<1>15. CASE UNCHANGED vars
  BY <1>15 DEF vars
<1> QED
  BY <1>1, <1>2, <1>3, <1>4, <1>5, <1>6, <1>7, <1>8, <1>9, <1>10, <1>11,
     <1>12, <1>13, <1>14, <1>15 DEF Next, Coordinator

\* The specification with its assumption about overlap.
LEMMA SerialInvariant == OneAtATime /\ Spec => [](TypeInv /\ SerialInv)
<1>1. Init => TypeInv /\ SerialInv
  BY InitTypeInv, InitSerialInv
<1>2. OneAtATime /\ TypeInv /\ SerialInv /\ [Next]_vars => TypeInv' /\ SerialInv'
  BY NextTypeInv, NextSerialInv
<1>3. CASE OneAtATime
  <2>1. TypeInv /\ SerialInv /\ [Next]_vars => TypeInv' /\ SerialInv'
    BY <1>2, <1>3
  <2> QED
    BY <1>1, <2>1, PTL DEF Spec
<1> QED
  BY <1>3

(* When pipelines on one results path do not overlap, current.json names   *)
(* results that are there: last_passing a passing one and latest the last  *)
(* one, through deaths, retries, re-runs and prunes.                       *)
THEOREM PointerNamesResults == OneAtATime /\ Spec => []PointerNamesSnapshots
<1>1. SerialInv => PointerNamesSnapshots
  BY DEF SerialInv
<1> QED
  BY <1>1, SerialInvariant, PTL

\* What a step does to the pointer: nothing, or it records a run.
LEMMA RecordStep ==
  ASSUME SerialInv, TypeInv, [Next]_vars
  PROVE  [Register!Next]_<<pointer.latest, pointer.lastPassing>>
<1>1. ASSUME NEW r \in Runs, WritePointer(r) PROVE Register!Next
  <2>1. lastRead[r] = pointer.lastPassing
    BY <1>1 DEF SerialInv, Reads, WritePointer
  <2>2. Register!Record(r, verdict[r] = "pass")
    BY <1>1, <2>1 DEF WritePointer, NewLastPassing, Register!Record
  <2>3. (verdict[r] = "pass") \in BOOLEAN
    OBVIOUS
  <2> QED
    BY <2>2, <2>3 DEF Register!Next
<1>2. CASE \A r \in Runs : ~WritePointer(r)
  BY <1>2 DEF Next, Coordinator, TaskStarts, WriteSnapshot, WriteSummary, TaskEnds, TaskDies,
     CoordStarts, ReadLastPassing, ReadPointerIds, ListSnapshots, PruneSnapshot, CoordEnds,
     CoordDies, Rerun, vars
<1> QED
  BY <1>1, <1>2

(* current.json is the register of Baseline: a failing run writes back the *)
(* last_passing that was there, although it read it two steps earlier.     *)
THEOREM PointerImplementsRegister == OneAtATime /\ Spec => PointerIsRegister
<1>1. Init => Register!Init
  BY DEF Init, Register!Init
<1>2. SerialInv /\ TypeInv /\ [Next]_vars
        => [Register!Next]_<<pointer.latest, pointer.lastPassing>>
  BY RecordStep
<1> QED
  BY <1>1, <1>2, SerialInvariant, PTL DEF Spec, PointerIsRegister, Register!Spec

-----------------------------------------------------------------------------
(* The stable baseline on top of it.                                       *)

USE DEF baselineVars

\* Promotions and legs that read a baseline leave the pointer and its jobs
\* alone, or are steps of theirs.
LEMMA BaselineStepsAreSteps == BaselineSpec => Spec
<1>1. BaselineInit => Init
  BY DEF BaselineInit
<1>2. [BaselineNext]_allVars => [Next]_vars
  BY DEF BaselineNext, PromoteBegins, PromoteReads, PromoteValidates, PromoteWrites, PromoteFails,
     LegReads, LoadRecord, LoadRecordAgain, LoadScore, LegScored, LegDies, PipelineStep, Next, allVars
<1> QED
  BY <1>1, <1>2, PTL DEF BaselineSpec, Spec

LEMMA NextBaselineType == TypeInv /\ BaselineTypeOK /\ [BaselineNext]_allVars => BaselineTypeOK'
<1> SUFFICES ASSUME TypeInv, BaselineTypeOK, [BaselineNext]_allVars PROVE BaselineTypeOK'
  OBVIOUS
<1> USE DEF BaselineTypeOK, NoBase, NoPromo, Pointers
<1>0. TypeOK' /\ MaxPromotions \in Nat
  <2>1. [Next]_vars
    BY DEF BaselineNext, PromoteBegins, PromoteReads, PromoteValidates, PromoteWrites, PromoteFails,
       LegReads, LoadRecord, LoadRecordAgain, LoadScore, LegScored, LegDies, PipelineStep, Next, allVars
  <2> QED
    BY <2>1, NextTypeInv, PromotionsAssumption DEF TypeInv
<1>1. CASE PromoteBegins
  BY <1>0, <1>1 DEF PromoteBegins
<1>2. CASE PromoteReads
  BY <1>0, <1>2 DEF PromoteReads, TypeOK
<1>3. CASE PromoteValidates
  BY <1>0, <1>3 DEF PromoteValidates
<1>4. CASE PromoteWrites
  BY <1>0, <1>4 DEF PromoteWrites
<1>5. CASE PromoteFails
  BY <1>0, <1>5 DEF PromoteFails
<1>6. ASSUME NEW r \in Runs, LoadRecord(r) \/ LoadRecordAgain(r) \/ LoadScore(r) PROVE BaselineTypeOK'
  <2> DEFINE Base == [at : {"record", "again", "score", "ready"},
                      record : Runs \cup {NoRun}, again : Runs \cup {NoRun}, score : Runs \cup {NoRun}]
  <2>1. base[r] \in Base
    OBVIOUS
  <2>2. \E next \in Base : LegReads(r, next)
    <3>1. CASE LoadRecord(r)
      <4>1. [base[r] EXCEPT !.at = "again", !.record = stable] \in Base
        BY <2>1
      <4> QED
        BY <3>1, <4>1 DEF LoadRecord
    <3>2. CASE LoadRecordAgain(r)
      <4>1. [base[r] EXCEPT !.at = "score", !.again = stable] \in Base
        BY <2>1
      <4> QED
        BY <3>2, <4>1 DEF LoadRecordAgain
    <3>3. CASE LoadScore(r)
      <4> DEFINE s == base[r].again
      <4>1. [base[r] EXCEPT !.at = "ready",
               !.score = IF s # NoRun /\ snapshot[s] # "none" THEN s ELSE NoRun] \in Base
        BY <2>1
      <4> QED
        BY <3>3, <4>1 DEF LoadScore
    <3> QED
      BY <1>6, <3>1, <3>2, <3>3
  <2> QED
    BY <1>0, <2>2 DEF LegReads
<1>7. ASSUME NEW r \in Runs, LegScored(r) \/ LegDies(r) PROVE BaselineTypeOK'
  BY <1>0, <1>7 DEF LegScored, LegDies
<1>8. ASSUME NEW r \in Runs, PipelineStep(r) PROVE BaselineTypeOK'
  BY <1>0, <1>8 DEF PipelineStep
<1>9. CASE UNCHANGED allVars
  BY <1>0, <1>9 DEF allVars
<1> QED
  BY <1>1, <1>2, <1>3, <1>4, <1>5, <1>6, <1>7, <1>8, <1>9 DEF BaselineNext

(* The promotion and the readers of the stable baseline keep to their      *)
(* types as well.                                                          *)
THEOREM BaselineTypeCorrect == BaselineSpec => []BaselineTypeOK
<1>1. BaselineInit => TypeInv /\ BaselineTypeOK
  BY InitTypeInv, PromotionsAssumption
     DEF BaselineInit, BaselineTypeOK, TypeInv, NoBase, NoPromo, Pointers
<1>2. TypeInv /\ BaselineTypeOK /\ [BaselineNext]_allVars => BaselineTypeOK'
  BY NextBaselineType
<1>3. Spec => []TypeInv
  <2>1. TypeInv /\ [Next]_vars => TypeInv'
    BY NextTypeInv
  <2> QED
    BY InitTypeInv, <2>1, PTL DEF Spec
<1> QED
  BY <1>1, <1>2, <1>3, BaselineStepsAreSteps, PTL DEF BaselineSpec

\* A run whose pipeline is over and that passed: its snapshot is passing
\* until it is pruned, unless the run is run again.
Settled(s) ==
  NotRerun(s) => task[s] \in {"done", "dead"} /\ snapshot[s] \in {"pass", "none"}

\* What a promotion in progress and the record it left stand for.
PromotionInv ==
  /\ promo.run \in Pointers /\ stable \in Pointers
  /\ NotRerun(promo.run) => task[promo.run] \in {"done", "dead"}
  /\ promo.at = "write" => Settled(promo.run)
  /\ Settled(stable)

\* A leg that reads its baseline is under way, so nobody prunes beside it.
LegInv(r) ==
  /\ base[r].at # "record" => task[r] = "leg"
  /\ base[r].again \in Pointers /\ Settled(base[r].again)
  /\ base[r].at = "ready" /\ NotRerun(base[r].score)
       => base[r].score \in Runs /\ snapshot[base[r].score] = "pass"

BaselineInv == PromotionInv /\ \A r \in Runs : LegInv(r)

\* Only the pipeline of a run, its re-run and prunes touch what was promoted.
LEMMA SettledKept ==
  ASSUME NEW s, Settled(s), UNCHANGED <<task, snapshot, rerun>>
  PROVE  Settled(s)'
  BY DEF Settled, NotRerun

LEMMA LegKept ==
  ASSUME NEW r \in Runs, LegInv(r), UNCHANGED vars, UNCHANGED base
  PROVE  LegInv(r)'
  BY DEF LegInv, Settled, NotRerun, vars

LEMMA PromotionKept ==
  ASSUME PromotionInv, UNCHANGED vars, UNCHANGED <<stable, promo>>
  PROVE  PromotionInv'
  BY DEF PromotionInv, Settled, NotRerun, vars

LEMMA PromotionStep ==
  ASSUME TypeInv, SerialInv, BaselineInv,
         PromoteBegins \/ PromoteReads \/ PromoteValidates \/ PromoteWrites \/ PromoteFails
  PROVE  BaselineInv'
<1>1. UNCHANGED vars /\ UNCHANGED base
  BY DEF PromoteBegins, PromoteReads, PromoteValidates, PromoteWrites, PromoteFails
<1>2. \A r \in Runs : LegInv(r)'
  BY <1>1, LegKept DEF BaselineInv
<1>3. PromotionInv'
  <2> USE DEF PromotionInv, Settled, NotRerun, Pointers, NoPromo, vars
  <2>0. PromotionInv /\ NoRun \notin Runs
    BY NoRunAssumption DEF BaselineInv
  <2>1. CASE PromoteBegins
    BY <1>1, <2>0, <2>1 DEF PromoteBegins, Over, SerialInv, Serial
  <2>2. CASE PromoteReads
    <3>1. pointer.lastPassing \in Pointers
      BY DEF TypeInv, TypeOK
    <3> QED
      BY <1>1, <2>0, <2>2, <3>1 DEF PromoteReads, SerialInv, Named
  <2>3. CASE PromoteValidates
    BY <1>1, <2>0, <2>3 DEF PromoteValidates, Promotable
  <2>4. CASE PromoteWrites
    BY <1>1, <2>0, <2>4 DEF PromoteWrites
  <2>5. CASE PromoteFails
    BY <1>1, <2>0, <2>5 DEF PromoteFails
  <2> QED
    BY <2>1, <2>2, <2>3, <2>4, <2>5
<1> QED
  BY <1>2, <1>3 DEF BaselineInv

LEMMA LegReadStep ==
  ASSUME BaselineInv, BaselineTypeOK, NEW r \in Runs, LoadRecord(r) \/ LoadRecordAgain(r) \/ LoadScore(r)
  PROVE  BaselineInv'
<1>1. UNCHANGED vars /\ UNCHANGED <<stable, promo>> /\ task[r] = "leg"
  BY DEF LoadRecord, LoadRecordAgain, LoadScore, LegReads
<1>2. PromotionInv'
  BY <1>1, PromotionKept DEF BaselineInv
<1>3. \A q \in Runs \ {r} : LegInv(q)'
  <2>1. \A q \in Runs \ {r} : base'[q] = base[q]
    BY DEF LoadRecord, LoadRecordAgain, LoadScore, LegReads, BaselineTypeOK
  <2> QED
    BY <1>1, <2>1 DEF BaselineInv, LegInv, Settled, NotRerun, vars
<1>4. LegInv(r)'
  <2> USE DEF LegInv, Settled, NotRerun, vars, Pointers
  <2>0. LegInv(r) /\ PromotionInv /\ NoRun \notin Runs /\ r \in DOMAIN base
    BY NoRunAssumption DEF BaselineInv, BaselineTypeOK
  <2>1. CASE LoadRecord(r)
    BY <1>1, <2>0, <2>1 DEF LoadRecord, LegReads, BaselineTypeOK
  <2>2. CASE LoadRecordAgain(r)
    BY <1>1, <2>0, <2>2 DEF LoadRecordAgain, LegReads, BaselineTypeOK, PromotionInv
  <2>3. CASE LoadScore(r)
    BY <1>1, <2>0, <2>3 DEF LoadScore, LegReads, BaselineTypeOK
  <2> QED
    BY <2>1, <2>2, <2>3
<1> QED
  BY <1>2, <1>3, <1>4 DEF BaselineInv

\* Nothing the pipelines do takes the pass of a run that is over.
LEMMA SettledStep ==
  ASSUME TypeInv, SerialInv, [Next]_vars, NEW s \in Pointers, Settled(s)
  PROVE  Settled(s)'
<1> SUFFICES ASSUME s \in Runs, s \notin rerun, s \notin rerun' PROVE Settled(s)'
  <2>1. rerun \subseteq rerun'
    BY DEF Next, Coordinator, TaskStarts, WriteSnapshot, WriteSummary, TaskEnds, TaskDies, CoordStarts,
       ReadLastPassing, ReadPointerIds, WritePointer, ListSnapshots, PruneSnapshot, CoordEnds, CoordDies,
       Rerun, vars
  <2> QED
    BY <2>1 DEF Settled, NotRerun, Pointers
<1>1. task[s] \in {"done", "dead"} /\ snapshot[s] \in {"pass", "none"}
  BY NoRunAssumption DEF Settled, NotRerun
<1>2. task'[s] = task[s]
  BY <1>1 DEF Next, Coordinator, TaskStarts, WriteSnapshot, WriteSummary, TaskEnds, TaskDies, CoordStarts,
     ReadLastPassing, ReadPointerIds, WritePointer, ListSnapshots, PruneSnapshot, CoordEnds, CoordDies,
     Rerun, vars, TypeInv, TypeOK
<1>3. snapshot'[s] \in {snapshot[s], "none"}
  BY <1>1 DEF Next, Coordinator, TaskStarts, WriteSnapshot, WriteSummary, TaskEnds, TaskDies, CoordStarts,
     ReadLastPassing, ReadPointerIds, WritePointer, ListSnapshots, PruneSnapshot, CoordEnds, CoordDies,
     Rerun, vars, TypeInv, TypeOK
<1> QED
  BY <1>1, <1>2, <1>3 DEF Settled

\* While a leg is under way nobody else writes or prunes a snapshot.
LEMMA LegRunsAlone ==
  ASSUME TypeInv, SerialInv, [Next]_vars, NEW r \in Runs, task[r] = "leg", task'[r] = "leg"
  PROVE  UNCHANGED snapshot
<1>1. \A q \in Runs : Busy(q) => q = r
  BY DEF SerialInv, Serial, Busy, Over
<1>2. \A q \in Runs : task[q] = "leg" \/ coord[q] = "prune" => Busy(q)
  BY DEF SerialInv, Serial, Busy, Over
<1>3. \A q \in Runs : ~WriteSnapshot(q)
  BY <1>1, <1>2 DEF WriteSnapshot, TypeInv, TypeOK
<1>4. \A q \in Runs : ~PruneSnapshot(q)
  BY <1>1, <1>2 DEF PruneSnapshot, SerialInv, Serial
<1> QED
  BY <1>3, <1>4 DEF Next, Coordinator, TaskStarts, WriteSummary, TaskEnds, TaskDies, CoordStarts,
     ReadLastPassing, ReadPointerIds, WritePointer, ListSnapshots, CoordEnds, CoordDies, Rerun, vars

LEMMA RerunGrows ==
  ASSUME [Next]_vars
  PROVE  rerun \subseteq rerun'
  BY DEF Next, Coordinator, TaskStarts, WriteSnapshot, WriteSummary, TaskEnds, TaskDies, CoordStarts,
     ReadLastPassing, ReadPointerIds, WritePointer, ListSnapshots, PruneSnapshot, CoordEnds, CoordDies,
     Rerun, vars

LEMMA EndedStep ==
  ASSUME TypeInv, SerialInv, [Next]_vars, NEW s \in Runs, s \notin rerun', task[s] \in {"done", "dead"}
  PROVE  task'[s] \in {"done", "dead"}
  BY DEF Next, Coordinator, TaskStarts, WriteSnapshot, WriteSummary, TaskEnds, TaskDies, CoordStarts,
     ReadLastPassing, ReadPointerIds, WritePointer, ListSnapshots, PruneSnapshot, CoordEnds, CoordDies,
     Rerun, vars, TypeInv, TypeOK

LEMMA PipelineBaselineStep ==
  ASSUME TypeInv, SerialInv, BaselineTypeOK, BaselineInv, [Next]_vars, NEW r \in Runs,
         LegScored(r) \/ LegDies(r) \/ PipelineStep(r)
  PROVE  BaselineInv'
<1>1. UNCHANGED <<stable, promo>>
  BY DEF LegScored, LegDies, PipelineStep
<1>2. PromotionInv'
  <2>0. PromotionInv
    BY DEF BaselineInv
  <2>1. NotRerun(promo.run)' => task'[promo.run] \in {"done", "dead"}
    BY <1>1, <2>0, RerunGrows, EndedStep DEF PromotionInv, NotRerun, Pointers
  <2>2. (promo.at = "write" => Settled(promo.run))'
    BY <1>1, <2>0, SettledStep DEF PromotionInv, Settled, NotRerun
  <2>3. Settled(stable)'
    BY <1>1, <2>0, SettledStep DEF PromotionInv, Settled, NotRerun
  <2> QED
    BY <1>1, <2>0, <2>1, <2>2, <2>3 DEF PromotionInv
<1>3. ASSUME NEW q \in Runs PROVE LegInv(q)'
  <2>0. LegInv(q)
    BY DEF BaselineInv
  <2>1. CASE q = r /\ (LegScored(r) \/ LegDies(r))
    <3>1. base'[q] = NoBase
      BY <2>1 DEF LegScored, LegDies, BaselineTypeOK
    <3> QED
      BY <3>1, NoRunAssumption DEF LegInv, NoBase, Settled, NotRerun, Pointers
  <2>2. CASE q # r \/ PipelineStep(r)
    <3>1. base'[q] = base[q]
      BY <2>2 DEF LegScored, LegDies, PipelineStep, BaselineTypeOK
    <3>2. task[q] = "leg" => task'[q] = "leg"
      BY <2>2 DEF LegScored, WriteSnapshot, LegDies, TaskDies, PipelineStep, TaskStarts, WriteSummary,
         TaskEnds, Coordinator, CoordStarts, ReadLastPassing, ReadPointerIds, WritePointer, ListSnapshots,
         PruneSnapshot, CoordEnds, CoordDies, Rerun, Over, SerialInv, Serial, TypeInv, TypeOK
    <3>3. base[q].at # "record" => task[q] = "leg" /\ task'[q] = "leg" /\ UNCHANGED snapshot
      BY <2>0, <3>2, LegRunsAlone DEF LegInv
    <3>4. base[q].again \in Pointers /\ Settled(base[q].again)'
      <4>1. base[q].again \in Pointers /\ Settled(base[q].again)
        BY <2>0 DEF LegInv
      <4> QED
        BY <3>1, <4>1, SettledStep DEF Settled, NotRerun
    <3>5. base[q].at = "ready" /\ NotRerun(base[q].score)'
            => base[q].score \in Runs /\ snapshot'[base[q].score] = "pass"
      BY <2>0, <3>1, <3>3, RerunGrows DEF LegInv, NotRerun
    <3> QED
      BY <3>1, <3>3, <3>4, <3>5 DEF LegInv, Settled, NotRerun
  <2> QED
    BY <2>1, <2>2
<1> QED
  BY <1>2, <1>3 DEF BaselineInv

(* When pipelines do not overlap, no leg is scored against a result that   *)
(* did not pass: the promotion and the leg each read the bucket in several *)
(* steps, and prunes, deaths and other promotions may come between them.   *)
THEOREM BaselinesPass == OneAtATime /\ BaselineSpec => []BaselineIsPassing
<1>1. BaselineInit => BaselineInv
  BY NoRunAssumption DEF BaselineInit, BaselineInv, PromotionInv, LegInv, Settled, NotRerun, NoPromo, NoBase, Pointers
<1>2. OneAtATime /\ TypeInv /\ SerialInv /\ BaselineTypeOK /\ BaselineInv /\ [BaselineNext]_allVars => BaselineInv'
  <2> SUFFICES ASSUME OneAtATime, TypeInv, SerialInv, BaselineTypeOK, BaselineInv, [BaselineNext]_allVars
               PROVE  BaselineInv'
    OBVIOUS
  <2>1. CASE UNCHANGED allVars
    BY <2>1, LegKept, PromotionKept DEF allVars, BaselineInv
  <2>2. CASE PromoteBegins \/ PromoteReads \/ PromoteValidates \/ PromoteWrites \/ PromoteFails
    BY <2>2, PromotionStep
  <2>3. ASSUME NEW r \in Runs, LoadRecord(r) \/ LoadRecordAgain(r) \/ LoadScore(r) PROVE BaselineInv'
    BY <2>3, LegReadStep
  <2>4. ASSUME NEW r \in Runs, LegScored(r) \/ LegDies(r) \/ PipelineStep(r) PROVE BaselineInv'
    <3>1. [Next]_vars
      BY <2>4 DEF LegScored, LegDies, PipelineStep, Next
    <3> QED
      BY <2>4, <3>1, PipelineBaselineStep
  <2> QED
    BY <2>1, <2>2, <2>3, <2>4 DEF BaselineNext
<1>3. BaselineInv => BaselineIsPassing
  BY DEF BaselineInv, LegInv, BaselineIsPassing
<1>4. CASE OneAtATime
  <2>1. TypeInv /\ SerialInv /\ BaselineTypeOK /\ BaselineInv /\ [BaselineNext]_allVars => BaselineInv'
    BY <1>2, <1>4
  <2>2. BaselineSpec => [](TypeInv /\ SerialInv)
    BY <1>4, BaselineStepsAreSteps, SerialInvariant
  <2> QED
    BY <1>1, <1>3, <2>1, <2>2, BaselineTypeCorrect, PTL DEF BaselineSpec
<1> QED
  BY <1>4
=============================================================================
