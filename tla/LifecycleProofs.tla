--------------------------- MODULE LifecycleProofs ---------------------------
(***************************************************************************)
(* Theorems about PrRegistry and PrLifecycle: the handoffs with the        *)
(* registry first, then with the jobs of their executions, for any number  *)
(* of handoffs and workflow runs, in calm and in racing conditions.        *)
(***************************************************************************)
EXTENDS PrLifecycle, TLAPS

USE DEF registryVars, localVars

-----------------------------------------------------------------------------
(* Handoffs and the registry.  Type correctness.                           *)

LEMMA NextGenerationType ==
  ASSUME NEW rec \in {NoRecord} \cup Record
  PROVE  NextGeneration(rec) \in Nat /\ NextGeneration(rec) >= 1
  BY DEF NextGeneration, Record

LEMMA ReadRecordType ==
  ASSUME registry \in {NoRecord} \cup Record, NEW d
  PROVE  ReadRecord(d) \subseteq {NoRecord} \cup Record
  BY DEF ReadRecord

LEMMA ClaimRecordType ==
  ASSUME NEW d \in Dispatches, claimGen \in [Dispatches -> Nat]
  PROVE  ClaimRecord(d) \in Record
  BY DEF ClaimRecord, Record

LEMMA WriteObjectType ==
  ASSUME NEW rec \in Record, changes \in Nat, WriteObject(rec)
  PROVE  registry' \in Record /\ objgen' \in Nat /\ changes' \in Nat
  BY DEF WriteObject

LEMMA InitTypeOK == Init => TypeOK
  BY DEF Init, TypeOK, PCs

LEMMA NextTypeOK == TypeOK /\ [Next]_dispatchVars => TypeOK'
<1> SUFFICES ASSUME TypeOK, [Next]_dispatchVars PROVE TypeOK'
  OBVIOUS
<1> USE DEF TypeOK, PCs
<1>1. ASSUME NEW d \in Dispatches, Begin(d) PROVE TypeOK'
  BY <1>1 DEF Begin, Goto
<1>2. ASSUME NEW d \in Dispatches, ReadPrior(d) PROVE TypeOK'
  BY <1>2, ReadRecordType DEF ReadPrior, Goto
<1>3. ASSUME NEW d \in Dispatches, CancelPrior(d) PROVE TypeOK'
  BY <1>3 DEF CancelPrior, Goto
<1>4. ASSUME NEW d \in Dispatches, ClosePriorCheck(d) PROVE TypeOK'
  BY <1>4 DEF ClosePriorCheck, Goto
<1>5. ASSUME NEW d \in Dispatches, ChooseGeneration(d) PROVE TypeOK'
  BY <1>5, ReadRecordType, NextGenerationType DEF ChooseGeneration, Goto
<1>6. ASSUME NEW d \in Dispatches, StartExecution(d) PROVE TypeOK'
  BY <1>6 DEF StartExecution, Goto
<1>7. ASSUME NEW d \in Dispatches, ClaimReadGeneration(d) PROVE TypeOK'
  BY <1>7 DEF ClaimReadGeneration, Goto
<1>8. ASSUME NEW d \in Dispatches, ClaimReadBody(d) PROVE TypeOK'
  BY <1>8, ReadRecordType, NextGenerationType DEF ClaimReadBody, Goto
<1>9. ASSUME NEW d \in Dispatches, ClaimSucceeds(d) PROVE TypeOK'
  BY <1>9, ClaimRecordType, WriteObjectType DEF ClaimSucceeds, Goto
<1>10. ASSUME NEW d \in Dispatches, ClaimConflicts(d) PROVE TypeOK'
  BY <1>10 DEF ClaimConflicts, RetryClaim, Goto
<1>11. ASSUME NEW d \in Dispatches, ClaimAckLost(d) PROVE TypeOK'
  BY <1>11, ClaimRecordType, WriteObjectType DEF ClaimAckLost, RetryClaim, Goto
<1>12. ASSUME NEW d \in Dispatches, ClaimWriteFails(d) PROVE TypeOK'
  BY <1>12 DEF ClaimWriteFails, RetryClaim, Goto
<1>13. ASSUME NEW d \in Dispatches, HandoffDies(d) PROVE TypeOK'
  BY <1>13 DEF HandoffDies, Goto
<1>14. ASSUME NEW d \in Dispatches, ExecutionEnds(d) PROVE TypeOK'
  BY <1>14 DEF ExecutionEnds
<1>15. CASE Cleanup
  BY <1>15 DEF Cleanup
<1>16. CASE UNCHANGED dispatchVars
  BY <1>16 DEF dispatchVars
<1> QED
  BY <1>1, <1>2, <1>3, <1>4, <1>5, <1>6, <1>7, <1>8, <1>9, <1>10, <1>11,
     <1>12, <1>13, <1>14, <1>15, <1>16 DEF Next, Handoff

(* Every variable of the handoffs and of the registry object keeps to its  *)
(* type: in particular the record is always one a handoff could write.     *)
THEOREM TypeCorrect == Spec => []TypeOK
<1>1. Init => TypeOK
  BY InitTypeOK
<1>2. TypeOK /\ [Next]_dispatchVars => TypeOK'
  BY NextTypeOK
<1> QED
  BY <1>1, <1>2, PTL DEF Spec

-----------------------------------------------------------------------------
(* The compare-and-swap.  NoStaleClaim is not inductive: a claim that is   *)
(* about to write is safe because a generation GCS gave out is never given *)
(* out again, and generation 0 means that there is no object, whose claim  *)
(* starts at 1.                                                            *)

\* Generations of the object: 0 exactly when there is none, else a number
\* of a write that took place.
ObjectGeneration ==
  /\ registry = NoRecord <=> objgen = 0
  /\ objgen <= changes
  /\ registry # NoRecord => registry.gen >= 1

\* The downloads of d work.
Reliable(d) == ReadsFail => d \notin Faulty

\* What a pending claim has read.
PendingClaim(d) ==
  /\ seen[d] <= changes
  /\ pc[d] = "claimBody" => seen[d] # 0
  /\ pc[d] = "claimWrite" => claimGen[d] >= 1
  /\ pc[d] = "claimWrite" /\ seen[d] = 0 => claimGen[d] = 1
  /\ Reliable(d) /\ pc[d] = "claimWrite" /\ seen[d] = objgen
       => claimGen[d] = NextGeneration(registry)

ClaimInv ==
  /\ TypeOK
  /\ ObjectGeneration
  /\ \A d \in Dispatches : PendingClaim(d)

LEMMA InitClaimInv == Init => ClaimInv
<1> SUFFICES ASSUME Init PROVE ClaimInv
  OBVIOUS
<1>1. TypeOK
  BY InitTypeOK
<1>2. ObjectGeneration
  BY DEF Init, ObjectGeneration
<1>3. \A d \in Dispatches : PendingClaim(d)
  <2> TAKE d \in Dispatches
  <2>1. pc[d] = "idle" /\ seen[d] = 0 /\ changes = 0
    BY DEF Init
  <2> QED
    BY <2>1 DEF PendingClaim
<1> QED
  BY <1>1, <1>2, <1>3 DEF ClaimInv

\* A step that leaves the object alone keeps its part of the invariant.
LEMMA ObjectKept ==
  ASSUME ObjectGeneration, UNCHANGED registryVars
  PROVE  ObjectGeneration'
  BY DEF ObjectGeneration

\* A step that leaves the object and the claim of d alone keeps what d read.
LEMMA PendingKept ==
  ASSUME NEW d \in Dispatches, PendingClaim(d), UNCHANGED registryVars,
         pc'[d] = pc[d] \/ pc'[d] \notin {"claimBody", "claimWrite"},
         seen'[d] = seen[d], claimGen'[d] = claimGen[d]
  PROVE  PendingClaim(d)'
  BY DEF PendingClaim, NextGeneration, Reliable

\* A claim that is written, or a deletion, makes every other read stale.
LEMMA PendingStale ==
  ASSUME ClaimInv, NEW d \in Dispatches,
         changes' = changes + 1,
         objgen' = changes' \/ (objgen' = 0 /\ registry' = NoRecord),
         pc'[d] = pc[d] \/ pc'[d] \notin {"claimBody", "claimWrite"},
         seen'[d] = seen[d], claimGen'[d] = claimGen[d]
  PROVE  PendingClaim(d)'
  BY DEF ClaimInv, TypeOK, PendingClaim, NextGeneration, Reliable

LEMMA WriteObjectGeneration ==
  ASSUME ClaimInv, NEW d \in Dispatches, pc[d] = "claimWrite", WriteObject(ClaimRecord(d))
  PROVE  ObjectGeneration'
<1>1. ClaimRecord(d) # NoRecord /\ ClaimRecord(d).gen >= 1
  BY ClaimRecordType, NoRecordAssumption DEF ClaimInv, TypeOK, PendingClaim, ClaimRecord
<1> QED
  BY <1>1 DEF WriteObject, ObjectGeneration, ClaimInv, TypeOK

LEMMA NextClaimInv == ClaimInv /\ [Next]_dispatchVars => ClaimInv'
<1> SUFFICES ASSUME ClaimInv, [Next]_dispatchVars PROVE ClaimInv'
  OBVIOUS
<1>1. TypeOK /\ ObjectGeneration /\ \A d \in Dispatches : PendingClaim(d)
  BY DEF ClaimInv
<1>2. TypeOK'
  BY <1>1, NextTypeOK
<1>3. ASSUME NEW d \in Dispatches,
             \/ Begin(d) \/ ReadPrior(d) \/ CancelPrior(d) \/ ClosePriorCheck(d)
             \/ ChooseGeneration(d) \/ StartExecution(d)
             \/ ClaimConflicts(d) \/ ClaimWriteFails(d)
             \/ HandoffDies(d) \/ ExecutionEnds(d)
      PROVE  ObjectGeneration' /\ \A e \in Dispatches : PendingClaim(e)'
  <2>1. UNCHANGED <<registry, objgen, changes, seen, claimGen>>
    BY <1>3 DEF Begin, ReadPrior, CancelPrior, ClosePriorCheck, ChooseGeneration, StartExecution,
                ClaimConflicts, ClaimWriteFails, RetryClaim, HandoffDies, ExecutionEnds
  <2>2. \A e \in Dispatches : pc'[e] = pc[e] \/ pc'[e] \notin {"claimBody", "claimWrite"}
    BY <1>1, <1>3 DEF TypeOK, Goto, Begin, ReadPrior, CancelPrior, ClosePriorCheck, ChooseGeneration,
                StartExecution, ClaimConflicts, ClaimWriteFails, RetryClaim, HandoffDies, ExecutionEnds
  <2> QED
    BY <1>1, <2>1, <2>2, ObjectKept, PendingKept
<1>4. ASSUME NEW d \in Dispatches, ClaimReadGeneration(d)
      PROVE  ObjectGeneration' /\ \A e \in Dispatches : PendingClaim(e)'
  <2>1. UNCHANGED registryVars
    BY <1>4 DEF ClaimReadGeneration
  <2>2. ASSUME NEW e \in Dispatches \ {d} PROVE PendingClaim(e)'
    BY <1>1, <1>4, <2>1, PendingKept DEF ClaimReadGeneration, Goto, TypeOK
  <2>3. PendingClaim(d)'
    BY <1>1, <1>4 DEF ClaimReadGeneration, Goto, TypeOK, PendingClaim, ObjectGeneration, NextGeneration
  <2> QED
    BY <1>1, <2>1, <2>2, <2>3, ObjectKept
<1>5. ASSUME NEW d \in Dispatches, ClaimReadBody(d)
      PROVE  ObjectGeneration' /\ \A e \in Dispatches : PendingClaim(e)'
  <2>1. UNCHANGED registryVars
    BY <1>5 DEF ClaimReadBody
  <2>2. ASSUME NEW e \in Dispatches \ {d} PROVE PendingClaim(e)'
    BY <1>1, <1>5, <2>1, PendingKept DEF ClaimReadBody, Goto, TypeOK
  <2>3. Reliable(d) => claimGen'[d] = NextGeneration(registry)
    BY <1>1, <1>5 DEF ClaimReadBody, Reliable, ReadRecord, TypeOK
  <2>4. claimGen'[d] >= 1
    BY <1>1, <1>5, ReadRecordType, NextGenerationType DEF ClaimReadBody, TypeOK
  <2>5. PendingClaim(d)'
    BY <1>1, <1>5, <2>1, <2>3, <2>4 DEF ClaimReadBody, Goto, TypeOK, PendingClaim, Reliable, NextGeneration
  <2> QED
    BY <1>1, <2>1, <2>2, <2>5, ObjectKept
<1>6. ASSUME NEW d \in Dispatches, ClaimSucceeds(d) \/ ClaimAckLost(d)
      PROVE  ObjectGeneration' /\ \A e \in Dispatches : PendingClaim(e)'
  <2>1. pc[d] = "claimWrite" /\ WriteObject(ClaimRecord(d)) /\ UNCHANGED <<seen, claimGen>>
    BY <1>6 DEF ClaimSucceeds, ClaimAckLost, RetryClaim
  <2>2. \A e \in Dispatches : pc'[e] = pc[e] \/ pc'[e] \notin {"claimBody", "claimWrite"}
    BY <1>1, <1>6 DEF ClaimSucceeds, ClaimAckLost, RetryClaim, Goto, TypeOK
  <2>3. \A e \in Dispatches : PendingClaim(e)'
    BY <2>1, <2>2, PendingStale DEF WriteObject
  <2> QED
    BY <2>1, <2>3, WriteObjectGeneration
<1>7. CASE Cleanup
  <2>1. ObjectGeneration'
    BY <1>1, <1>7 DEF Cleanup, ObjectGeneration, TypeOK
  <2>2. \A e \in Dispatches : PendingClaim(e)'
    BY <1>7, PendingStale DEF Cleanup
  <2> QED
    BY <1>2, <2>1, <2>2 DEF ClaimInv
<1>8. CASE UNCHANGED dispatchVars
  BY <1>1, <1>2, <1>8, ObjectKept, PendingKept DEF dispatchVars, ClaimInv
<1> QED
  BY <1>2, <1>3, <1>4, <1>5, <1>6, <1>7, <1>8 DEF Next, Handoff, ClaimInv

LEMMA ClaimInvariant == Spec => []ClaimInv
<1>1. Init => ClaimInv
  BY InitClaimInv
<1>2. ClaimInv /\ [Next]_dispatchVars => ClaimInv'
  BY NextClaimInv
<1> QED
  BY <1>1, <1>2, PTL DEF Spec

(* A write whose precondition would hold carries the generation after that *)
(* of the record it replaces: reading generation and body in two calls is  *)
(* no danger to a claim whose downloads work.                              *)
THEOREM ClaimsAreFresh == Spec => []NoStaleClaim
<1>1. ClaimInv => NoStaleClaim
  BY DEF ClaimInv, PendingClaim, NoStaleClaim, Reliable
<1> QED
  BY <1>1, ClaimInvariant, PTL

-----------------------------------------------------------------------------
(* Refinement: what a claim does in three calls is one step of ActiveRun.  *)

LEMMA ClaimIsAtomic ==
  ASSUME ~ReadsFail, ClaimInv, NEW d \in Dispatches, pc[d] = "claimWrite", objgen = seen[d],
         WriteObject(ClaimRecord(d))
  PROVE  Atomic!Claim(d)
<1>1. claimGen[d] = NextGeneration(registry)
  BY DEF ClaimInv, PendingClaim, Reliable
<1>2. NextGeneration(registry) = activeGeneration + 1
  BY DEF ClaimInv, TypeOK, Record, ObjectGeneration, NextGeneration, activeGeneration
<1>3. registry' = ClaimRecord(d) /\ ClaimRecord(d) # NoRecord
  BY ClaimRecordType, NoRecordAssumption DEF WriteObject, ClaimInv, TypeOK
<1>4. activeGeneration' = claimGen[d] /\ activeOwner' = d
  BY <1>3 DEF activeGeneration, activeOwner, ClaimRecord
<1> QED
  BY <1>1, <1>2, <1>4 DEF Atomic!Claim

(* As long as downloads work, the CAS loop implements the atomic register: *)
(* every change of the record is the claim of one handoff, of exactly the  *)
(* next generation, or the operator's deletion.                            *)
THEOREM ClaimsImplementRegister == ASSUME ~ReadsFail PROVE Spec => ClaimsAreAtomic
<1>1. Init => Atomic!Init
  BY DEF Init, Atomic!Init, activeGeneration, activeOwner
<1>2. ClaimInv /\ [Next]_dispatchVars => [Atomic!Next]_<<activeGeneration, activeOwner>>
  <2> SUFFICES ASSUME ClaimInv, [Next]_dispatchVars
               PROVE  Atomic!Next \/ UNCHANGED <<activeGeneration, activeOwner>>
    OBVIOUS
  <2>1. ASSUME UNCHANGED registry PROVE UNCHANGED <<activeGeneration, activeOwner>>
    BY <2>1 DEF activeGeneration, activeOwner
  <2>2. ASSUME NEW d \in Dispatches,
               \/ Begin(d) \/ ReadPrior(d) \/ CancelPrior(d) \/ ClosePriorCheck(d)
               \/ ChooseGeneration(d) \/ StartExecution(d)
               \/ ClaimReadGeneration(d) \/ ClaimReadBody(d)
               \/ ClaimConflicts(d) \/ ClaimWriteFails(d)
               \/ HandoffDies(d) \/ ExecutionEnds(d)
        PROVE  UNCHANGED registry
    BY <2>2 DEF Begin, ReadPrior, CancelPrior, ClosePriorCheck, ChooseGeneration, StartExecution,
                ClaimReadGeneration, ClaimReadBody, ClaimConflicts, ClaimWriteFails, RetryClaim,
                HandoffDies, ExecutionEnds
  <2>3. ASSUME NEW d \in Dispatches, ClaimSucceeds(d) \/ ClaimAckLost(d) PROVE Atomic!Next
    BY <2>3, ClaimIsAtomic DEF ClaimSucceeds, ClaimAckLost, Atomic!Next
  <2>4. CASE Cleanup
    BY <2>4 DEF Cleanup, Atomic!Next, Atomic!Delete, activeGeneration, activeOwner
  <2>5. CASE UNCHANGED dispatchVars
    BY <2>1, <2>5 DEF dispatchVars
  <2> QED
    BY <2>1, <2>2, <2>3, <2>4, <2>5 DEF Next, Handoff
<1> QED
  BY <1>1, <1>2, ClaimInvariant, PTL DEF Spec, ClaimsAreAtomic, Atomic!Spec

-----------------------------------------------------------------------------
(* The bound of the CAS loop.                                              *)

\* Every attempt that d lost is paid for by a change of the object, and so
\* is the attempt d is about to lose.
LostAttempts(d) ==
  /\ pc[d] \in {"idle", "supersede", "cancel", "close", "generation", "start"} => tries[d] = 0
  /\ pc[d] \in {"claimGen", "claimBody", "claimWrite"} => base[d] + tries[d] <= changes
  /\ pc[d] \in {"claimBody", "claimWrite"} /\ seen[d] # objgen
       => base[d] + tries[d] + 1 <= changes
  /\ pc[d] = "failed" => changes - base[d] >= MaxCas

ContentionInv == TypeOK /\ \A d \in Dispatches \ Faulty : LostAttempts(d)

\* What the object does while d stands still cannot lose d an attempt that
\* is not paid for.
LEMMA LostAttemptsKept ==
  ASSUME TypeOK, NEW d \in Dispatches, LostAttempts(d),
         pc'[d] = pc[d], seen'[d] = seen[d], tries'[d] = tries[d], base'[d] = base[d],
         UNCHANGED registryVars \/ changes' = changes + 1
  PROVE  LostAttempts(d)'
  BY MaxCasAssumption DEF LostAttempts, TypeOK

LEMMA NextContentionInv == ContentionInv /\ [Next]_dispatchVars => ContentionInv'
<1> SUFFICES ASSUME ContentionInv, [Next]_dispatchVars PROVE ContentionInv'
  OBVIOUS
<1>1. TypeOK /\ TypeOK'
  BY NextTypeOK DEF ContentionInv
<1> SUFFICES ASSUME NEW d \in Dispatches \ Faulty PROVE LostAttempts(d)'
  BY <1>1 DEF ContentionInv
<1>2. LostAttempts(d)
  BY DEF ContentionInv
<1>3. ASSUME NEW e \in Dispatches \ {d}, Begin(e) \/ Handoff(e)
      PROVE  LostAttempts(d)'
  <2>1. UNCHANGED registryVars \/ changes' = changes + 1
    BY <1>3 DEF Handoff, Begin, ReadPrior, CancelPrior, ClosePriorCheck, ChooseGeneration, StartExecution,
                ClaimReadGeneration, ClaimReadBody, ClaimSucceeds, ClaimConflicts, ClaimAckLost,
                ClaimWriteFails, HandoffDies, WriteObject
  <2>2. pc'[d] = pc[d] /\ seen'[d] = seen[d] /\ tries'[d] = tries[d] /\ base'[d] = base[d]
    BY <1>1, <1>3 DEF TypeOK, Goto, Handoff, Begin, ReadPrior, CancelPrior, ClosePriorCheck,
                ChooseGeneration, StartExecution, ClaimReadGeneration, ClaimReadBody, ClaimSucceeds,
                ClaimConflicts, ClaimAckLost, ClaimWriteFails, RetryClaim, HandoffDies
  <2> QED
    BY <1>1, <1>2, <2>1, <2>2, LostAttemptsKept
<1>4. CASE Begin(d) \/ ReadPrior(d) \/ CancelPrior(d) \/ ClosePriorCheck(d) \/ ChooseGeneration(d)
  <2>1. tries'[d] = 0
    BY <1>2, <1>4 DEF LostAttempts, Begin, ReadPrior, CancelPrior, ClosePriorCheck, ChooseGeneration
  <2>2. pc'[d] \in {"supersede", "cancel", "close", "generation", "start"}
    BY <1>1, <1>4 DEF TypeOK, Goto, Begin, ReadPrior, CancelPrior, ClosePriorCheck, ChooseGeneration
  <2> QED
    BY <2>1, <2>2 DEF LostAttempts
<1>5. CASE StartExecution(d)
  BY <1>1, <1>2, <1>5 DEF StartExecution, Goto, LostAttempts, TypeOK
<1>6. CASE ClaimReadGeneration(d)
  BY <1>1, <1>2, <1>6 DEF ClaimReadGeneration, Goto, LostAttempts, TypeOK
<1>7. CASE ClaimReadBody(d)
  BY <1>1, <1>2, <1>7 DEF ClaimReadBody, Goto, LostAttempts, TypeOK
<1>8. CASE ClaimSucceeds(d)
  BY <1>1, <1>8 DEF ClaimSucceeds, Goto, LostAttempts, TypeOK
<1>9. CASE ClaimConflicts(d)
  BY <1>1, <1>2, <1>9, MaxCasAssumption DEF ClaimConflicts, RetryClaim, Goto, LostAttempts, TypeOK
<1>10. ASSUME NEW e \in Dispatches, ExecutionEnds(e) PROVE LostAttempts(d)'
  BY <1>1, <1>2, <1>10, LostAttemptsKept DEF ExecutionEnds
<1>11. CASE Cleanup
  BY <1>1, <1>2, <1>11, LostAttemptsKept DEF Cleanup
<1>12. CASE UNCHANGED dispatchVars
  BY <1>1, <1>2, <1>12, LostAttemptsKept DEF dispatchVars
<1>13. ~ClaimAckLost(d) /\ ~ClaimWriteFails(d) /\ ~HandoffDies(d)
  BY DEF ClaimAckLost, ClaimWriteFails, HandoffDies
<1> QED
  BY <1>3, <1>4, <1>5, <1>6, <1>7, <1>8, <1>9, <1>10, <1>11, <1>12, <1>13 DEF Next, Handoff

(* A handoff whose calls all work fails only after the object changed      *)
(* under it MaxCas times since it entered the loop.                        *)
THEOREM ExhaustionIsContention == Spec => []ExhaustionNeedsContention
<1>1. Init => ContentionInv
  <2> SUFFICES ASSUME Init, NEW d \in Dispatches \ Faulty PROVE LostAttempts(d)
    BY InitTypeOK DEF ContentionInv
  <2>1. pc[d] = "idle" /\ tries[d] = 0
    BY DEF Init
  <2> QED
    BY <2>1 DEF LostAttempts
<1>2. ContentionInv /\ [Next]_dispatchVars => ContentionInv'
  BY NextContentionInv
<1>3. ContentionInv => ExhaustionNeedsContention
  BY DEF ContentionInv, LostAttempts, ExhaustionNeedsContention
<1> QED
  BY <1>1, <1>2, <1>3, PTL DEF Spec

-----------------------------------------------------------------------------
(* Handoffs that the concurrency group serialises, none of which is killed *)
(* or sees a call fail, and no operator deletion.                          *)

Undisturbed == Serial /\ ~ReadsFail /\ Faulty = {} /\ MaxCleanups = 0

OneInFlight == \A d, e \in Dispatches : InFlight(d) /\ InFlight(e) => d = e

\* The registry still is what the handoff in flight has read of it.
FreshReads(d) ==
  /\ pc[d] = "cancel" => registry # NoRecord /\ prior[d] = registry
  /\ pc[d] \in {"start", "claimGen", "claimBody", "claimWrite"}
       => payloadGen[d] = NextGeneration(registry)
  /\ pc[d] \in {"claimBody", "claimWrite"} => seen[d] = objgen

ClaimedAsAnnounced(d) ==
  pc[d] = "claimed" /\ registry # NoRecord /\ registry.exec = d => registry.gen = payloadGen[d]

\* Past its cancel call the handoff in flight is alone; outside it only the
\* owner of the record may be active.
RunsAlone(d) ==
  /\ exec[d] = "active" /\ ~InFlight(d) => registry # NoRecord /\ registry.exec = d
  /\ pc[d] \in {"close", "generation", "start", "claimGen", "claimBody", "claimWrite"}
       => \A e \in Dispatches \ {d} : exec[e] # "active"

SerialInv ==
  /\ ClaimInv
  /\ OneInFlight
  /\ \A d \in Dispatches : FreshReads(d) /\ ClaimedAsAnnounced(d) /\ RunsAlone(d)

LEMMA InitSerialInv == Init => SerialInv
<1> SUFFICES ASSUME Init PROVE SerialInv
  OBVIOUS
<1>1. ClaimInv
  BY InitClaimInv
<1>2. \A d \in Dispatches : pc[d] = "idle" /\ exec[d] = "none"
  BY DEF Init
<1> QED
  BY <1>1, <1>2 DEF SerialInv, OneInFlight, InFlight, FreshReads, ClaimedAsAnnounced, RunsAlone, Ended

\* With d in flight, every other handoff is idle or over.
LEMMA OthersRest ==
  ASSUME TypeOK, OneInFlight, NEW d \in Dispatches, InFlight(d), NEW e \in Dispatches \ {d}
  PROVE  pc[e] \in {"idle", "claimed", "failed"}
  BY DEF TypeOK, OneInFlight, InFlight, Ended

\* A step in which no handoff moves and no execution starts.
LEMMA SerialKept ==
  ASSUME SerialInv, UNCHANGED <<registry, objgen, pc, prior, payloadGen, seen>>,
         \A e \in Dispatches : exec'[e] = "active" => exec[e] = "active"
  PROVE  /\ OneInFlight'
         /\ \A e \in Dispatches : (FreshReads(e) /\ ClaimedAsAnnounced(e) /\ RunsAlone(e))'
<1>1. OneInFlight'
  BY DEF SerialInv, OneInFlight, InFlight
<1>2. ASSUME NEW e \in Dispatches PROVE FreshReads(e)' /\ ClaimedAsAnnounced(e)'
  BY DEF SerialInv, FreshReads, ClaimedAsAnnounced, NextGeneration
<1>3. ASSUME NEW e \in Dispatches PROVE RunsAlone(e)'
  BY DEF SerialInv, RunsAlone, InFlight
<1> QED
  BY <1>1, <1>2, <1>3

LEMMA NextSerialInv ==
  ASSUME Undisturbed
  PROVE  SerialInv /\ [Next]_dispatchVars => SerialInv'
<1> SUFFICES ASSUME SerialInv, [Next]_dispatchVars PROVE SerialInv'
  OBVIOUS
<1>1. ClaimInv /\ TypeOK /\ OneInFlight
  BY DEF SerialInv, ClaimInv
<1>2. \A d \in Dispatches : FreshReads(d) /\ ClaimedAsAnnounced(d) /\ RunsAlone(d)
  BY DEF SerialInv
<1>3. ClaimInv' /\ TypeOK'
  BY <1>1, NextClaimInv DEF ClaimInv
<1> DEFINE Kept(d) == FreshReads(d) /\ ClaimedAsAnnounced(d) /\ RunsAlone(d)
<1>4. ASSUME NEW d \in Dispatches, Begin(d) PROVE OneInFlight' /\ \A e \in Dispatches : Kept(e)'
  <2>1. \A e \in Dispatches : ~InFlight(e)
    BY <1>4 DEF Begin, Undisturbed
  <2>2. pc' = [pc EXCEPT ![d] = "supersede"] /\ pc[d] = "idle"
    BY <1>4 DEF Begin, Goto
  <2>3. UNCHANGED <<registry, objgen, exec, prior, payloadGen, seen>>
    BY <1>4 DEF Begin
  <2>4. \A e \in Dispatches \ {d} : pc'[e] = pc[e] /\ pc[e] \in {"idle", "claimed", "failed"}
    BY <1>1, <2>1, <2>2 DEF TypeOK, InFlight, Ended
  <2>5. pc'[d] = "supersede"
    BY <1>1, <2>2 DEF TypeOK
  <2>6. OneInFlight'
    BY <2>4 DEF OneInFlight, InFlight, Ended
  <2> QED
    BY <1>2, <2>2, <2>3, <2>4, <2>5, <2>6 DEF FreshReads, ClaimedAsAnnounced, RunsAlone, InFlight, Ended, NextGeneration
<1>5. ASSUME NEW d \in Dispatches, Handoff(d) PROVE OneInFlight' /\ \A e \in Dispatches : Kept(e)'
  <2>1. InFlight(d)
    BY <1>5 DEF Handoff, InFlight, Ended, ReadPrior, CancelPrior, ClosePriorCheck, ChooseGeneration,
                StartExecution, ClaimReadGeneration, ClaimReadBody, ClaimSucceeds, ClaimConflicts,
                ClaimAckLost, ClaimWriteFails, HandoffDies
  <2>2. \A e \in Dispatches \ {d} : pc[e] \in {"idle", "claimed", "failed"}
    BY <1>1, <2>1, OthersRest
  <2>3. \A e \in Dispatches \ {d} :
           /\ pc'[e] = pc[e] /\ prior'[e] = prior[e]
           /\ payloadGen'[e] = payloadGen[e] /\ seen'[e] = seen[e]
    BY <1>1, <1>5 DEF TypeOK, Goto, Handoff, ReadPrior, CancelPrior, ClosePriorCheck,
                ChooseGeneration, StartExecution, ClaimReadGeneration, ClaimReadBody, ClaimSucceeds,
                ClaimConflicts, ClaimAckLost, ClaimWriteFails, RetryClaim, HandoffDies
  <2>4. OneInFlight'
    BY <2>2, <2>3 DEF OneInFlight, InFlight, Ended
  <2>5. CASE ReadPrior(d)
    <3>1. /\ UNCHANGED <<registry, objgen, exec, payloadGen, seen>>
          /\ prior'[d] = registry
          /\ pc'[d] = IF registry = NoRecord THEN "generation" ELSE "cancel"
      BY <1>1, <2>5 DEF ReadPrior, ReadRecord, Undisturbed, Goto, TypeOK
    <3>2. registry = NoRecord => \A e \in Dispatches \ {d} : exec[e] # "active"
      BY <1>2, <2>2 DEF RunsAlone, InFlight, Ended
    <3> QED
      BY <1>2, <2>1, <2>2, <2>3, <2>4, <3>1, <3>2
         DEF FreshReads, ClaimedAsAnnounced, RunsAlone, InFlight, Ended, NextGeneration
  <2>6. CASE CancelPrior(d)
    <3>1. /\ UNCHANGED <<registry, objgen, prior, payloadGen, seen>>
          /\ pc[d] = "cancel" /\ pc'[d] = "close"
          /\ exec' = [exec EXCEPT ![registry.exec] = IF @ = "active" THEN "cancelled" ELSE @]
      BY <1>1, <1>2, <2>6 DEF CancelPrior, Undisturbed, Goto, TypeOK, FreshReads
    <3>2. registry \in Record
      BY <1>1, <1>2, <3>1 DEF FreshReads, TypeOK
    <3>3. \A e \in Dispatches \ {d} : exec[e] = "active" => registry.exec = e
      BY <1>2, <2>2 DEF RunsAlone, InFlight, Ended
    <3>4. \A e \in Dispatches \ {d} : exec'[e] # "active"
      BY <1>1, <3>1, <3>3 DEF TypeOK
    <3> QED
      BY <1>2, <2>1, <2>2, <2>3, <2>4, <3>1, <3>4
         DEF FreshReads, ClaimedAsAnnounced, RunsAlone, InFlight, Ended, NextGeneration
  <2>7. CASE ClosePriorCheck(d)
    <3>1. /\ UNCHANGED <<registry, objgen, exec, prior, payloadGen, seen>>
          /\ pc[d] = "close" /\ pc'[d] = "generation"
      BY <1>1, <2>7 DEF ClosePriorCheck, Goto, TypeOK
    <3> QED
      BY <1>2, <2>1, <2>2, <2>3, <2>4, <3>1
         DEF FreshReads, ClaimedAsAnnounced, RunsAlone, InFlight, Ended, NextGeneration
  <2>8. CASE ChooseGeneration(d)
    <3>1. /\ UNCHANGED <<registry, objgen, exec, prior, seen>>
          /\ pc[d] = "generation" /\ pc'[d] = "start"
          /\ payloadGen'[d] = NextGeneration(registry)
      BY <1>1, <2>8 DEF ChooseGeneration, ReadRecord, Undisturbed, Goto, TypeOK
    <3> QED
      BY <1>2, <2>1, <2>2, <2>3, <2>4, <3>1
         DEF FreshReads, ClaimedAsAnnounced, RunsAlone, InFlight, Ended, NextGeneration
  <2>9. CASE StartExecution(d)
    <3>1. /\ UNCHANGED <<registry, objgen, prior, payloadGen, seen>>
          /\ pc[d] = "start" /\ pc'[d] = "claimGen"
          /\ \A e \in Dispatches \ {d} : exec'[e] = exec[e]
      BY <1>1, <2>9 DEF StartExecution, Goto, TypeOK
    <3> QED
      BY <1>2, <2>1, <2>2, <2>3, <2>4, <3>1
         DEF FreshReads, ClaimedAsAnnounced, RunsAlone, InFlight, Ended, NextGeneration
  <2>10. CASE ClaimReadGeneration(d)
    <3>1. /\ UNCHANGED <<registry, objgen, exec, prior, payloadGen>>
          /\ pc[d] = "claimGen" /\ pc'[d] \in {"claimBody", "claimWrite"}
          /\ seen'[d] = objgen
      BY <1>1, <2>10 DEF ClaimReadGeneration, Goto, TypeOK
    <3> QED
      BY <1>2, <2>1, <2>2, <2>3, <2>4, <3>1
         DEF FreshReads, ClaimedAsAnnounced, RunsAlone, InFlight, Ended, NextGeneration
  <2>11. CASE ClaimReadBody(d)
    <3>1. /\ UNCHANGED <<registry, objgen, exec, prior, payloadGen, seen>>
          /\ pc[d] = "claimBody" /\ pc'[d] = "claimWrite"
      BY <1>1, <2>11 DEF ClaimReadBody, Goto, TypeOK
    <3> QED
      BY <1>2, <2>1, <2>2, <2>3, <2>4, <3>1
         DEF FreshReads, ClaimedAsAnnounced, RunsAlone, InFlight, Ended, NextGeneration
  <2>12. CASE ClaimSucceeds(d)
    <3>1. /\ UNCHANGED <<exec, prior, payloadGen, seen>>
          /\ pc[d] = "claimWrite" /\ pc'[d] = "claimed"
          /\ registry' = ClaimRecord(d)
      BY <1>1, <2>12 DEF ClaimSucceeds, WriteObject, Goto, TypeOK
    <3>2. registry' # NoRecord /\ registry'.exec = d /\ registry'.gen = claimGen[d]
      BY <1>1, <3>1, ClaimRecordType, NoRecordAssumption DEF TypeOK, ClaimRecord
    <3>3. claimGen[d] = payloadGen[d]
      BY <1>1, <1>2, <3>1 DEF FreshReads, ClaimInv, PendingClaim, Reliable, Undisturbed
    <3>4. \A e \in Dispatches \ {d} : exec[e] # "active"
      BY <1>2, <3>1 DEF RunsAlone
    <3> QED
      BY <2>2, <2>3, <2>4, <3>1, <3>2, <3>3, <3>4
         DEF FreshReads, ClaimedAsAnnounced, RunsAlone, InFlight, Ended
  <2>13. ~ClaimConflicts(d)
    BY <1>2 DEF ClaimConflicts, FreshReads
  <2>14. ~ClaimAckLost(d) /\ ~ClaimWriteFails(d) /\ ~HandoffDies(d)
    BY DEF ClaimAckLost, ClaimWriteFails, HandoffDies, Undisturbed
  <2> QED
    BY <1>5, <2>5, <2>6, <2>7, <2>8, <2>9, <2>10, <2>11, <2>12, <2>13, <2>14 DEF Handoff
<1>6. ASSUME NEW d \in Dispatches, ExecutionEnds(d) PROVE OneInFlight' /\ \A e \in Dispatches : Kept(e)'
  <2>1. UNCHANGED <<registry, objgen, pc, prior, payloadGen, seen>>
    BY <1>6 DEF ExecutionEnds
  <2>2. \A e \in Dispatches : exec'[e] = "active" => exec[e] = "active"
    BY <1>1, <1>6 DEF ExecutionEnds, TypeOK
  <2> QED
    BY <2>1, <2>2, SerialKept
<1>7. ~Cleanup
  BY <1>1 DEF Cleanup, Undisturbed, TypeOK
<1>8. CASE UNCHANGED dispatchVars
  <2>1. OneInFlight' /\ \A e \in Dispatches : Kept(e)'
    BY <1>8, SerialKept DEF dispatchVars
  <2> QED
    BY <1>3, <2>1 DEF SerialInv
<1> QED
  BY <1>3, <1>4, <1>5, <1>6, <1>7, <1>8 DEF Next, SerialInv

LEMMA SerialInvariant == ASSUME Undisturbed PROVE Spec => []SerialInv
<1>1. Init => SerialInv
  BY InitSerialInv
<1>2. SerialInv /\ [Next]_dispatchVars => SerialInv'
  BY NextSerialInv
<1> QED
  BY <1>1, <1>2, PTL DEF Spec

(* The generation announced to an execution in its payload is the one its  *)
(* handoff claims afterwards, in an undisturbed pull request: the run that *)
(* has just claimed is never rejected for its generation.                  *)
THEOREM PayloadIsClaimed == ASSUME Undisturbed PROVE Spec => []ClaimMatchesPayload
<1>1. SerialInv => ClaimMatchesPayload
  BY DEF SerialInv, ClaimedAsAnnounced, ClaimMatchesPayload
<1> QED
  BY <1>1, SerialInvariant, PTL

(* A handoff that has claimed an undisturbed pull request leaves no older  *)
(* execution of it active.                                                 *)
THEOREM OneActiveExecution == ASSUME Undisturbed PROVE Spec => []ClaimantRunsAlone
<1>1. SerialInv => ClaimantRunsAlone
  BY DEF SerialInv, RunsAlone, ClaimantRunsAlone
<1> QED
  BY <1>1, SerialInvariant, PTL

-----------------------------------------------------------------------------
(* Handoffs and jobs.  Type correctness.                                   *)

\* The jobs' part of LifecycleTypeOK.
Stages == BetweenJobs \cup InsideJobs

RuntimeTypeOK ==
  /\ job \in [Dispatches -> Stages]
  /\ planFile \in [RunIds -> Dispatches \cup {NoDispatch}]
  /\ metaFile \in [RunIds -> Dispatches \cup {NoCheck}]
  /\ loaded \in [Dispatches -> [plan : Dispatches \cup {NoDispatch}, check : Dispatches \cup {NoCheck}]]
  /\ patch \in [Dispatches -> {NoRecord} \cup Record]

LEMMA TypeParts == LifecycleTypeOK <=> TypeOK /\ RuntimeTypeOK
  BY DEF LifecycleTypeOK, RuntimeTypeOK, Stages

\* A plan job writes the record it has read, with a check of its run in it.
PatchInv ==
  \A d \in Dispatches :
    job[d] = "patchWrite" => patch[d] # NoRecord /\ RunOf[patch[d].exec] = RunOf[d]

LEMMA PatchedRecord ==
  ASSUME NEW rec \in Record, NEW d \in Dispatches
  PROVE  /\ [rec EXCEPT !.check = d] \in Record
         /\ [rec EXCEPT !.check = d].exec = rec.exec
         /\ [rec EXCEPT !.check = d].gen = rec.gen
         /\ [rec EXCEPT !.check = d].check = d
  BY DEF Record

LEMMA NextLifecycleTypeOK ==
  ASSUME LifecycleTypeOK, PatchInv, [LifecycleNext]_vars
  PROVE  LifecycleTypeOK' /\ PatchInv'
<1>0. TypeOK /\ RuntimeTypeOK
  BY TypeParts
<1> USE RunOfAssumption
<1> SUFFICES TypeOK' /\ RuntimeTypeOK' /\ PatchInv'
  BY DEF LifecycleTypeOK, RuntimeTypeOK, Stages
<1>1. ASSUME UNCHANGED runtimeVars PROVE RuntimeTypeOK' /\ PatchInv'
  BY <1>0, <1>1 DEF runtimeVars, RuntimeTypeOK, PatchInv
<1>2. ASSUME UNCHANGED dispatchVars PROVE TypeOK'
  BY <1>0, <1>2 DEF dispatchVars, TypeOK
<1>3. CASE Cleanup /\ UNCHANGED runtimeVars
  BY <1>0, <1>1, <1>3, NextTypeOK DEF Next
<1>4. ASSUME NEW d \in Dispatches, UNCHANGED runtimeVars, Begin(d) \/ Handoff(d) \/ ExecutionEnds(d)
      PROVE  TypeOK' /\ RuntimeTypeOK' /\ PatchInv'
  BY <1>0, <1>1, <1>4, NextTypeOK DEF Next
<1>5. ASSUME NEW d \in Dispatches, PlanMode(d) PROVE TypeOK' /\ RuntimeTypeOK' /\ PatchInv'
  BY <1>0, <1>2, <1>5 DEF PlanMode, GotoJob, RuntimeTypeOK, Stages, BetweenJobs, InsideJobs, PatchInv
<1>6. ASSUME NEW d \in Dispatches, EnsureReporting(d) PROVE TypeOK' /\ RuntimeTypeOK' /\ PatchInv'
  <2>1. TypeOK'
    BY <1>0, <1>6 DEF EnsureReporting, TypeOK
  <2> QED
    BY <1>0, <1>6, <2>1 DEF EnsureReporting, GotoJob, RuntimeTypeOK, Stages, BetweenJobs, InsideJobs, PatchInv
<1>7. ASSUME NEW d \in Dispatches, PatchRead(d) PROVE TypeOK' /\ RuntimeTypeOK' /\ PatchInv'
  <2>1. TypeOK'
    BY <1>2, <1>7 DEF PatchRead
  <2>2. RuntimeTypeOK'
    BY <1>0, <1>7 DEF PatchRead, GotoJob, RuntimeTypeOK, Stages, BetweenJobs, InsideJobs, TypeOK
  <2>3. PatchInv'
    BY <1>0, <1>7 DEF PatchRead, GotoJob, RuntimeTypeOK, PatchInv
  <2> QED
    BY <2>1, <2>2, <2>3
<1>8. ASSUME NEW d \in Dispatches, PatchWrite(d) PROVE TypeOK' /\ RuntimeTypeOK' /\ PatchInv'
  <2>1. patch[d] \in Record
    BY <1>0, <1>8 DEF PatchWrite, PatchInv, RuntimeTypeOK
  <2>2. TypeOK'
    BY <1>0, <1>8, <2>1, PatchedRecord, WriteObjectType DEF PatchWrite, TypeOK
  <2> QED
    BY <1>0, <1>8, <2>2 DEF PatchWrite, GotoJob, RuntimeTypeOK, Stages, BetweenJobs, InsideJobs, PatchInv
<1>9. ASSUME NEW d \in Dispatches, TaskStarts(d) \/ TaskEnds(d) PROVE TypeOK' /\ RuntimeTypeOK' /\ PatchInv'
  BY <1>0, <1>2, <1>9
     DEF TaskStarts, TaskEnds, GotoJob, RuntimeTypeOK, Stages, BetweenJobs, InsideJobs, PatchInv
<1>10. ASSUME NEW d \in Dispatches, TaskProgress(d) PROVE TypeOK' /\ RuntimeTypeOK' /\ PatchInv'
  <2>1. Check(d) \in Dispatches
    BY <1>0, <1>10 DEF TaskProgress, Check, RuntimeTypeOK
  <2>2. TypeOK'
    BY <1>0, <1>10, <2>1 DEF TaskProgress, TypeOK
  <2> QED
    BY <1>0, <1>10, <2>2 DEF TaskProgress, GotoJob, RuntimeTypeOK, Stages, BetweenJobs, InsideJobs, PatchInv
<1>11. ASSUME NEW d \in Dispatches, CoordinatorStarts(d) \/ PublishStarts(d)
       PROVE  TypeOK' /\ RuntimeTypeOK' /\ PatchInv'
  <2>1. TypeOK'
    BY <1>2, <1>11 DEF CoordinatorStarts, PublishStarts
  <2>2. Plan(d) \in Dispatches \cup {NoDispatch} /\ Check(d) \in Dispatches \cup {NoCheck}
    BY <1>0 DEF Plan, Check, RuntimeTypeOK
  <2>3. RuntimeTypeOK'
    BY <1>0, <1>11, <2>2
       DEF CoordinatorStarts, PublishStarts, GotoJob, RuntimeTypeOK, Stages, BetweenJobs, InsideJobs
  <2>4. PatchInv'
    BY <1>0, <1>11 DEF CoordinatorStarts, PublishStarts, GotoJob, RuntimeTypeOK, PatchInv
  <2> QED
    BY <2>1, <2>3, <2>4
<1>12. ASSUME NEW d \in Dispatches, Finalize(d) PROVE TypeOK' /\ RuntimeTypeOK' /\ PatchInv'
  <2>1. TypeOK'
    BY <1>0, <1>12 DEF Finalize, TypeOK
  <2> QED
    BY <1>0, <1>12, <2>1 DEF Finalize, GotoJob, RuntimeTypeOK, Stages, BetweenJobs, InsideJobs, PatchInv
<1>13. CASE UNCHANGED vars
  BY <1>1, <1>2, <1>13 DEF vars
<1> QED
  BY <1>3, <1>4, <1>5, <1>6, <1>7, <1>8, <1>9, <1>10, <1>11, <1>12, <1>13 DEF LifecycleNext, Job

LEMMA InitLifecycle == LifecycleInit => LifecycleTypeOK /\ PatchInv
<1> SUFFICES ASSUME LifecycleInit PROVE LifecycleTypeOK /\ PatchInv
  OBVIOUS
<1>1. TypeOK
  BY InitTypeOK DEF LifecycleInit
<1> QED
  BY <1>1 DEF LifecycleInit, LifecycleTypeOK, BetweenJobs, PatchInv

(* The plan, metadata and registry files of a pull request hold what the   *)
(* jobs and handoffs may write, and a plan job writes back only a record   *)
(* it has read.                                                            *)
THEOREM LifecycleTypeCorrect == LifecycleSpec => []LifecycleTypeOK
<1>1. LifecycleTypeOK /\ PatchInv /\ [LifecycleNext]_vars => LifecycleTypeOK' /\ PatchInv'
  BY NextLifecycleTypeOK
<1> QED
  BY <1>1, InitLifecycle, PTL DEF LifecycleSpec

-----------------------------------------------------------------------------
(* What the registry holds, and what a stale plan job may bring back to    *)
(* it, is a claim that a handoff made.                                     *)

HoldsAClaim(rec) ==
  /\ rec.exec \notin Faulty => pc[rec.exec] = "claimed" /\ rec.gen = claimGen[rec.exec]
  /\ rec.check # NoCheck => RunOf[rec.check] = RunOf[rec.exec]

HeldInv ==
  /\ registry # NoRecord => HoldsAClaim(registry)
  /\ \A d \in Dispatches : patch[d] # NoRecord => HoldsAClaim(patch[d])

\* A claim stays one: a handoff that has claimed makes no further step.
LEMMA ClaimStays ==
  ASSUME TypeOK, NEW rec \in Record, HoldsAClaim(rec),
         \A d \in Dispatches : pc[d] = "claimed" => pc'[d] = "claimed" /\ claimGen'[d] = claimGen[d]
  PROVE  HoldsAClaim(rec)'
  BY DEF HoldsAClaim, Record

LEMMA ClaimedStays ==
  ASSUME TypeOK, NEW d \in Dispatches, Begin(d) \/ Handoff(d) \/ ExecutionEnds(d)
  PROVE  \A e \in Dispatches : pc[e] = "claimed" => pc'[e] = "claimed" /\ claimGen'[e] = claimGen[e]
<1>1. CASE Begin(d) \/ ReadPrior(d) \/ CancelPrior(d) \/ ClosePriorCheck(d) \/ ChooseGeneration(d)
           \/ StartExecution(d) \/ HandoffDies(d)
  BY <1>1 DEF Begin, ReadPrior, CancelPrior, ClosePriorCheck, ChooseGeneration, StartExecution,
     HandoffDies, InFlight, Ended, Goto, TypeOK
<1>2. CASE ClaimReadGeneration(d) \/ ClaimReadBody(d)
  BY <1>2 DEF ClaimReadGeneration, ClaimReadBody, Goto, TypeOK
<1>3. CASE ClaimSucceeds(d) \/ ClaimConflicts(d) \/ ClaimAckLost(d) \/ ClaimWriteFails(d)
  BY <1>3 DEF ClaimSucceeds, ClaimConflicts, ClaimAckLost, ClaimWriteFails, RetryClaim, Goto, TypeOK
<1>4. CASE ExecutionEnds(d)
  BY <1>4 DEF ExecutionEnds
<1> QED
  BY <1>1, <1>2, <1>3, <1>4 DEF Handoff

\* The object changes only by a claim, by its deletion and by a patch.
LEMMA HandoffWrites ==
  ASSUME TypeOK, NEW d \in Dispatches, Begin(d) \/ Handoff(d) \/ ExecutionEnds(d)
  PROVE  \/ registry' = registry
         \/ /\ registry' = ClaimRecord(d)
            /\ d \notin Faulty => pc'[d] = "claimed" /\ claimGen'[d] = claimGen[d]
<1>1. CASE ClaimSucceeds(d)
  BY <1>1 DEF ClaimSucceeds, WriteObject, Goto, TypeOK
<1>2. CASE ClaimAckLost(d)
  BY <1>2 DEF ClaimAckLost, WriteObject
<1>3. CASE ~ClaimSucceeds(d) /\ ~ClaimAckLost(d)
  BY <1>3 DEF Begin, Handoff, ReadPrior, CancelPrior, ClosePriorCheck, ChooseGeneration, StartExecution,
     ClaimReadGeneration, ClaimReadBody, ClaimConflicts, ClaimWriteFails, RetryClaim, HandoffDies, ExecutionEnds
<1> QED
  BY <1>1, <1>2, <1>3

LEMMA NextHeld ==
  ASSUME LifecycleTypeOK, PatchInv, HeldInv, [LifecycleNext]_vars
  PROVE  HeldInv'
<1>0. TypeOK /\ RuntimeTypeOK
  BY TypeParts
<1>1. registry \in {NoRecord} \cup Record /\ patch \in [Dispatches -> {NoRecord} \cup Record]
  BY <1>0 DEF TypeOK, RuntimeTypeOK
<1>2. ASSUME NEW d \in Dispatches, UNCHANGED runtimeVars, Begin(d) \/ Handoff(d) \/ ExecutionEnds(d)
      PROVE  HeldInv'
  <2>1. \A rec \in Record : HoldsAClaim(rec) => HoldsAClaim(rec)'
    BY <1>0, <1>2, ClaimedStays, ClaimStays
  <2>2. registry' # NoRecord => HoldsAClaim(registry)'
    <3>1. CASE registry' = registry
      BY <1>1, <2>1, <3>1 DEF HeldInv, HoldsAClaim
    <3>2. CASE registry' = ClaimRecord(d) /\ (d \notin Faulty => pc'[d] = "claimed" /\ claimGen'[d] = claimGen[d])
      BY <3>2 DEF HoldsAClaim, ClaimRecord
    <3> QED
      BY <1>0, <1>2, <3>1, <3>2, HandoffWrites
  <2>3. ASSUME NEW e \in Dispatches, patch'[e] # NoRecord PROVE HoldsAClaim(patch[e])'
    BY <1>1, <1>2, <2>1, <2>3 DEF runtimeVars, HeldInv, HoldsAClaim
  <2> QED
    BY <2>2, <2>3 DEF HeldInv
<1>3. CASE Cleanup /\ UNCHANGED runtimeVars
  BY <1>1, <1>3 DEF Cleanup, runtimeVars, HeldInv, HoldsAClaim
<1>4. ASSUME NEW d \in Dispatches, PatchRead(d) PROVE HeldInv'
  BY <1>1, <1>4 DEF PatchRead, dispatchVars, HeldInv, HoldsAClaim
<1>5. ASSUME NEW d \in Dispatches, PatchWrite(d) PROVE HeldInv'
  <2>1. patch[d] \in Record /\ RunOf[patch[d].exec] = RunOf[d] /\ HoldsAClaim(patch[d])
    BY <1>1, <1>5 DEF PatchWrite, PatchInv, HeldInv
  <2>2. registry' = [patch[d] EXCEPT !.check = d] /\ UNCHANGED <<pc, claimGen, patch>>
    BY <1>5 DEF PatchWrite, WriteObject
  <2>3. /\ registry'.exec = patch[d].exec
        /\ registry'.gen = patch[d].gen
        /\ registry'.check = d
    BY <2>1, <2>2, PatchedRecord
  <2> QED
    BY <1>1, <2>1, <2>2, <2>3 DEF HeldInv, HoldsAClaim
<1>6. ASSUME NEW d \in Dispatches, Job(d), ~PatchRead(d), ~PatchWrite(d) PROVE HeldInv'
  <2>1. UNCHANGED <<registry, pc, claimGen, patch>>
    BY <1>6 DEF Job, PlanMode, EnsureReporting, TaskStarts, TaskProgress, TaskEnds, CoordinatorStarts,
       PublishStarts, Finalize, dispatchVars
  <2> QED
    BY <2>1 DEF HeldInv, HoldsAClaim
<1>7. CASE UNCHANGED vars
  BY <1>7 DEF vars, dispatchVars, runtimeVars, HeldInv, HoldsAClaim
<1> QED
  BY <1>2, <1>3, <1>4, <1>5, <1>6, <1>7 DEF LifecycleNext

(* Whatever races, the registry never holds a record nobody claimed: the   *)
(* blind write of a plan job can bring an old claim back, it cannot make   *)
(* one up or name a check of another run.                                  *)
THEOREM RegistryHoldsClaims == LifecycleSpec => []RegistryHoldsAClaim
<1>1. LifecycleInit => LifecycleTypeOK /\ PatchInv /\ HeldInv
  BY InitLifecycle DEF LifecycleInit, Init, HeldInv
<1>2. LifecycleTypeOK /\ PatchInv /\ HeldInv /\ [LifecycleNext]_vars => LifecycleTypeOK' /\ PatchInv' /\ HeldInv'
  BY NextLifecycleTypeOK, NextHeld
<1>3. HeldInv => RegistryHoldsAClaim
  BY DEF HeldInv, HoldsAClaim, RegistryHoldsAClaim
<1> QED
  BY <1>1, <1>2, <1>3, PTL DEF LifecycleSpec

-----------------------------------------------------------------------------
(* A superseded run without a container at work stays silent.  The files   *)
(* of a run name only dispatches of that run, so no job of another run     *)
(* touches its check, and each of its own jobs asks the registry first.    *)

FilesInv ==
  /\ \A r \in RunIds : planFile[r] # NoDispatch => RunOf[planFile[r]] = r
  /\ \A r \in RunIds : metaFile[r] # NoCheck => RunOf[metaFile[r]] = r
  /\ \A d \in Dispatches : loaded[d].check # NoCheck => RunOf[loaded[d].check] = RunOf[d]

LEMMA NextFiles ==
  ASSUME LifecycleTypeOK, FilesInv, [LifecycleNext]_vars
  PROVE  FilesInv'
<1>0. TypeOK /\ RuntimeTypeOK
  BY TypeParts
<1> USE RunOfAssumption
<1>1. ASSUME UNCHANGED <<planFile, metaFile, loaded>> PROVE FilesInv'
  BY <1>1 DEF FilesInv
<1>2. ASSUME NEW d \in Dispatches, PlanMode(d) \/ EnsureReporting(d) PROVE FilesInv'
  BY <1>0, <1>2 DEF PlanMode, EnsureReporting, RuntimeTypeOK, FilesInv
<1>3. ASSUME NEW d \in Dispatches, CoordinatorStarts(d) \/ PublishStarts(d) PROVE FilesInv'
  BY <1>0, <1>3 DEF CoordinatorStarts, PublishStarts, Check, RuntimeTypeOK, FilesInv
<1>4. ASSUME NEW d \in Dispatches, Finalize(d) PROVE FilesInv'
  BY <1>0, <1>4 DEF Finalize, RuntimeTypeOK, FilesInv
<1>5. ASSUME NEW d \in Dispatches, PatchRead(d) \/ PatchWrite(d) \/ TaskStarts(d) \/ TaskProgress(d) \/ TaskEnds(d)
      PROVE  FilesInv'
  BY <1>1, <1>5 DEF PatchRead, PatchWrite, TaskStarts, TaskProgress, TaskEnds
<1>6. UNCHANGED runtimeVars \/ UNCHANGED vars => FilesInv'
  BY <1>1 DEF runtimeVars, vars
<1> QED
  BY <1>2, <1>3, <1>4, <1>5, <1>6 DEF LifecycleNext, Job

\* A job that starts inside a container has found its run in the registry.
LEMMA StartsAreAuthorized ==
  ASSUME LifecycleTypeOK, FilesInv, NEW e \in Dispatches, job[e] \notin InsideJobs, Job(e),
         registry # NoRecord, RunOf[registry.exec] # RunOf[e]
  PROVE  /\ job'[e] \notin InsideJobs
         /\ UNCHANGED <<registry, checkState>>
<1>0. RuntimeTypeOK
  BY TypeParts
<1>1. ~Authoritative(e)
  BY DEF Authoritative
<1>2. Plan(e) # NoDispatch => RunOf[Plan(e)] = RunOf[e]
  BY RunOfAssumption DEF Plan, FilesInv
<1>3. Plan(e) # NoDispatch => ~Authoritative(Plan(e))
  BY <1>2 DEF Authoritative
<1>4. PlanMode(e) \/ TaskStarts(e) \/ CoordinatorStarts(e)
  BY DEF Job, InsideJobs, EnsureReporting, PatchRead, PatchWrite, TaskProgress, TaskEnds, PublishStarts, Finalize
<1>5. job' = [job EXCEPT ![e] = job'[e]] /\ job'[e] \in {"finished", "planned", "tasked"}
  BY <1>0, <1>1, <1>3, <1>4 DEF PlanMode, TaskStarts, CoordinatorStarts, GotoJob, RuntimeTypeOK
<1> QED
  BY <1>4, <1>5 DEF InsideJobs, PlanMode, TaskStarts, CoordinatorStarts, dispatchVars

LEMMA QuietStep ==
  ASSUME LifecycleTypeOK, PatchInv, FilesInv, [LifecycleNext]_vars,
         NEW d \in Dispatches, SupersededAndQuiet(d)
  PROVE  \/ SupersededAndQuiet(d)'
         \/ registry' = NoRecord
         \/ \E e \in Dispatches : RunOf[e] = RunOf[d] /\ InFlight(e)'
<1>0. TypeOK /\ RuntimeTypeOK
  BY TypeParts
<1>1. /\ registry # NoRecord /\ RunOf[registry.exec] # RunOf[d] /\ checkState[d] = "cancelled"
      /\ \A e \in Dispatches : RunOf[e] = RunOf[d] => job[e] \notin InsideJobs /\ ~InFlight(e)
  BY DEF SupersededAndQuiet
<1>2. ASSUME NEW e \in Dispatches, Begin(e) \/ Handoff(e) \/ ExecutionEnds(e), UNCHANGED runtimeVars,
             \A f \in Dispatches : RunOf[f] = RunOf[d] => ~InFlight(f)'
      PROVE  SupersededAndQuiet(d)'
  <2>1. registry' = registry \/ registry' = ClaimRecord(e)
    BY <1>0, <1>2, HandoffWrites
  <2>2. registry' # registry => RunOf[e] # RunOf[d]
    <3>1. ASSUME ~InFlight(e), Handoff(e) PROVE FALSE
      BY <3>1 DEF Handoff, ReadPrior, CancelPrior, ClosePriorCheck, ChooseGeneration, StartExecution,
         ClaimReadGeneration, ClaimReadBody, ClaimSucceeds, ClaimConflicts, ClaimAckLost, ClaimWriteFails,
         HandoffDies, InFlight, Ended
    <3>2. Begin(e) \/ ExecutionEnds(e) => registry' = registry
      BY DEF Begin, ExecutionEnds
    <3> QED
      BY <1>1, <1>2, <3>1, <3>2
  <2>3. registry' # NoRecord /\ RunOf[registry'.exec] # RunOf[d]
    <3>1. ClaimRecord(e) \in Record /\ ClaimRecord(e).exec = e
      BY <1>0, ClaimRecordType DEF ClaimRecord, TypeOK
    <3> QED
      BY <1>1, <2>1, <2>2, <3>1, NoRecordAssumption
  <2>4. checkState'[d] = "cancelled"
    <3>1. CASE ClosePriorCheck(e)
      BY <1>0, <1>1, <3>1 DEF ClosePriorCheck, TypeOK
    <3>2. CASE ~ClosePriorCheck(e)
      BY <1>1, <1>2, <3>2 DEF Begin, ExecutionEnds, Handoff, ReadPrior, CancelPrior, ChooseGeneration, StartExecution,
         ClaimReadGeneration, ClaimReadBody, ClaimSucceeds, ClaimConflicts, ClaimAckLost, ClaimWriteFails, RetryClaim,
         HandoffDies
    <3> QED
      BY <3>1, <3>2
  <2> QED
    BY <1>1, <1>2, <2>3, <2>4 DEF SupersededAndQuiet, runtimeVars
<1>3. ASSUME NEW e \in Dispatches, Job(e) PROVE SupersededAndQuiet(d)'
  <2>1. UNCHANGED pc
    BY <1>3 DEF Job, PlanMode, EnsureReporting, PatchRead, PatchWrite, TaskStarts, TaskProgress, TaskEnds,
       CoordinatorStarts, PublishStarts, Finalize, dispatchVars
  <2>2. \A f \in Dispatches \ {e} : job'[f] = job[f]
    <3>1. \E to : job' = [job EXCEPT ![e] = to]
      BY <1>3 DEF Job, PlanMode, EnsureReporting, PatchRead, PatchWrite, TaskStarts, TaskProgress, TaskEnds,
         CoordinatorStarts, PublishStarts, Finalize, GotoJob
    <3> QED
      BY <1>0, <3>1 DEF RuntimeTypeOK
  <2>3. CASE RunOf[e] = RunOf[d]
    <3>1. job'[e] \notin InsideJobs /\ UNCHANGED <<registry, checkState>>
      BY <1>1, <1>3, <2>3, StartsAreAuthorized
    <3> QED
      BY <1>1, <2>1, <2>2, <3>1 DEF SupersededAndQuiet, InFlight
  <2>4. CASE RunOf[e] # RunOf[d]
    <3>1. registry' # NoRecord /\ RunOf[registry'.exec] # RunOf[d]
      <4>1. CASE PatchWrite(e)
        <5>1. patch[e] \in Record /\ RunOf[patch[e].exec] = RunOf[e]
          BY <1>0, <4>1 DEF PatchWrite, PatchInv, RuntimeTypeOK
        <5>2. registry' = [patch[e] EXCEPT !.check = e]
          BY <4>1 DEF PatchWrite, WriteObject
        <5> QED
          BY <2>4, <5>1, <5>2, PatchedRecord, NoRecordAssumption
      <4>2. CASE ~PatchWrite(e)
        BY <1>1, <1>3, <4>2 DEF Job, PlanMode, EnsureReporting, PatchRead, TaskStarts, TaskProgress, TaskEnds,
           CoordinatorStarts, PublishStarts, Finalize, dispatchVars
      <4> QED
        BY <4>1, <4>2
    <3>2. checkState'[d] = "cancelled"
      <4>1. CASE EnsureReporting(e)
        BY <1>0, <1>1, <2>4, <4>1 DEF EnsureReporting, TypeOK
      <4>2. CASE TaskProgress(e)
        <5>1. Check(e) # d
          BY <2>4, <4>2, RunOfAssumption DEF TaskProgress, Check, FilesInv
        <5> QED
          BY <1>0, <1>1, <4>2, <5>1 DEF TaskProgress, TypeOK
      <4>3. CASE Finalize(e)
        <5>1. loaded[e].check # d
          BY <2>4, NoCheckAssumption DEF FilesInv
        <5> QED
          BY <1>0, <1>1, <4>3, <5>1 DEF Finalize, TypeOK
      <4>4. CASE ~EnsureReporting(e) /\ ~TaskProgress(e) /\ ~Finalize(e)
        BY <1>1, <1>3, <4>4 DEF Job, PlanMode, PatchRead, PatchWrite, TaskStarts, TaskEnds, CoordinatorStarts,
           PublishStarts, dispatchVars
      <4> QED
        BY <4>1, <4>2, <4>3, <4>4
    <3> QED
      BY <1>1, <2>1, <2>2, <2>4, <3>1, <3>2 DEF SupersededAndQuiet, InFlight
  <2> QED
    BY <2>3, <2>4
<1>4. Cleanup => registry' = NoRecord
  BY DEF Cleanup
<1>5. CASE UNCHANGED vars
  BY <1>1, <1>5 DEF vars, dispatchVars, runtimeVars, SupersededAndQuiet, InFlight
<1> QED
  BY <1>2, <1>3, <1>4, <1>5 DEF LifecycleNext

(* Once a superseded run has no container and no handoff at work, it       *)
(* speaks no more until it is re-run or the record is deleted: whatever    *)
(* calls fail and whatever races, also when nobody cancelled its           *)
(* execution and Workflows goes on to start its jobs.                      *)
THEOREM SupersededRunsFallSilent == LifecycleSpec => SupersededStaysQuiet
<1>1. LifecycleInit => LifecycleTypeOK /\ PatchInv /\ FilesInv
  BY InitLifecycle DEF LifecycleInit, FilesInv
<1>2. LifecycleTypeOK /\ PatchInv /\ FilesInv /\ [LifecycleNext]_vars => LifecycleTypeOK' /\ PatchInv' /\ FilesInv'
  BY NextLifecycleTypeOK, NextFiles
<1>3. LifecycleTypeOK /\ PatchInv /\ FilesInv /\ [LifecycleNext]_vars
        => [\A d \in Dispatches :
              SupersededAndQuiet(d)
                => \/ SupersededAndQuiet(d)'
                   \/ registry' = NoRecord
                   \/ \E e \in Dispatches : RunOf[e] = RunOf[d] /\ InFlight(e)']_vars
  BY QuietStep
<1> QED
  BY <1>1, <1>2, <1>3, PTL DEF LifecycleSpec, SupersededStaysQuiet

-----------------------------------------------------------------------------
(* Calm conditions: the handoffs are undisturbed, no job runs while one is *)
(* in flight, and every push is a workflow run of its own (a re-run of a   *)
(* run reuses its check, which the next handoff then does not know of).    *)

OneRunEach == \A d, e \in Dispatches : RunOf[d] = RunOf[e] => d = e
CalmDays == Undisturbed /\ Calm /\ OneRunEach

Patching == {"patchRead", "patchWrite"}
AfterClose == {"generation", "start", "claimGen", "claimBody", "claimWrite"}

\* The registry names d and, unless the plan job of d is about to write it
\* there, the check of d.
Names(d) ==
  registry # NoRecord /\ registry.exec = d /\ (registry.check = d \/ job[d] \in Patching)

\* A job that runs belongs to the execution that holds the claim.
JobsInv ==
  \A d \in Dispatches :
    /\ job[d] \in InsideJobs => exec[d] = "active" /\ \A e \in Dispatches : ~InFlight(e)
    /\ job[d] # "none" => pc[d] = "claimed"
    /\ job[d] = "patchWrite" => patch[d] = registry
    /\ job[d] = "finalize" => loaded[d].check = d
    /\ pc[d] = "close" => registry # NoRecord /\ prior[d] = registry

\* The reporting metadata of a run name its own check, after the plan job
\* created it; so does the registry, once it is patched.
MetaInv ==
  \A d \in Dispatches :
    Check(d) # NoCheck =>
      /\ Check(d) = d /\ job[d] \notin {"none", "report"}
      /\ registry # NoRecord /\ registry.exec = d => Names(d)

\* An open check is that of the claim, until a handoff has closed it; a
\* cancelled one is of an execution that is over.
ChecksInv ==
  \A d \in Dispatches :
    /\ checkState[d] = "in_progress" => Names(d) /\ \A e \in Dispatches : pc[e] \notin AfterClose
    /\ checkState[d] = "cancelled" => exec[d] # "active" /\ pc[d] = "claimed"

CalmInv ==
  /\ LifecycleTypeOK /\ PatchInv /\ HeldInv /\ SerialInv
  /\ JobsInv /\ MetaInv /\ ChecksInv

LEMMA InitCalm == LifecycleInit => CalmInv
<1> SUFFICES ASSUME LifecycleInit PROVE CalmInv
  OBVIOUS
<1>1. LifecycleTypeOK /\ PatchInv
  BY InitLifecycle
<1>2. HeldInv /\ SerialInv
  BY InitSerialInv DEF LifecycleInit, Init, HeldInv
<1>3. JobsInv /\ MetaInv /\ ChecksInv
  BY RunOfAssumption DEF LifecycleInit, Init, JobsInv, MetaInv, ChecksInv, Check, InsideJobs, InFlight, Ended
<1> QED
  BY <1>1, <1>2, <1>3 DEF CalmInv

\* While no handoff is in flight, an active execution is the one that holds
\* the claim, and no other has a job running.
LEMMA Holder ==
  ASSUME CalmDays, CalmInv, NEW d \in Dispatches, exec[d] = "active", \A e \in Dispatches : ~InFlight(e)
  PROVE  /\ registry \in Record /\ registry # NoRecord /\ registry.exec = d
         /\ pc[d] = "claimed" /\ Authoritative(d)
         /\ \A e \in Dispatches : job[e] \in InsideJobs => e = d
<1>1. registry # NoRecord /\ registry.exec = d /\ registry.gen = payloadGen[d] /\ pc[d] = "claimed"
  <2>1. RunsAlone(d) /\ ClaimedAsAnnounced(d) /\ Faulty = {}
    BY DEF CalmInv, SerialInv, CalmDays, Undisturbed
  <2>2. registry # NoRecord /\ registry.exec = d
    BY <2>1 DEF RunsAlone
  <2>3. pc[d] = "claimed"
    BY <2>1, <2>2 DEF CalmInv, HeldInv, HoldsAClaim
  <2> QED
    BY <2>1, <2>2, <2>3 DEF ClaimedAsAnnounced
<1>2. ASSUME NEW e \in Dispatches, job[e] \in InsideJobs PROVE e = d
  <2>1. exec[e] = "active" /\ RunsAlone(e)
    BY <1>2 DEF CalmInv, JobsInv, SerialInv
  <2> QED
    BY <1>1, <2>1 DEF RunsAlone
<1>3. registry \in Record
  BY <1>1 DEF CalmInv, LifecycleTypeOK, TypeOK
<1> QED
  BY <1>1, <1>2, <1>3 DEF Authoritative

\* A job that runs is that of the holder.
LEMMA InsideHolder ==
  ASSUME CalmDays, CalmInv, NEW d \in Dispatches, job[d] \in InsideJobs
  PROVE  /\ exec[d] = "active" /\ \A e \in Dispatches : ~InFlight(e)
         /\ registry \in Record /\ registry # NoRecord /\ registry.exec = d
         /\ pc[d] = "claimed" /\ Authoritative(d)
         /\ \A e \in Dispatches : job[e] \in InsideJobs => e = d
<1>1. exec[d] = "active" /\ \A e \in Dispatches : ~InFlight(e)
  BY DEF CalmInv, JobsInv
<1> QED
  BY <1>1, Holder

-----------------------------------------------------------------------------
(* Calm conditions: the steps of the handoffs.                             *)

\* A handoff that is in flight has started no job, and none is running.
LEMMA HandoffAlone ==
  ASSUME CalmDays, CalmInv, NEW d \in Dispatches, Handoff(d)
  PROVE  /\ InFlight(d) /\ job[d] = "none"
         /\ \A e \in Dispatches : job[e] \notin InsideJobs
         /\ \A e \in Dispatches \ {d} : pc[e] \in {"idle", "claimed", "failed"} /\ pc'[e] = pc[e] /\ prior'[e] = prior[e]
<1>0. TypeOK /\ OneInFlight
  BY DEF CalmInv, LifecycleTypeOK, SerialInv
<1>1. InFlight(d)
  BY DEF Handoff, InFlight, Ended, ReadPrior, CancelPrior, ClosePriorCheck, ChooseGeneration,
     StartExecution, ClaimReadGeneration, ClaimReadBody, ClaimSucceeds, ClaimConflicts,
     ClaimAckLost, ClaimWriteFails, HandoffDies
<1>2. job[d] = "none" /\ \A e \in Dispatches : job[e] \notin InsideJobs
  BY <1>1 DEF CalmInv, JobsInv, InFlight, Ended
<1>3. \A e \in Dispatches \ {d} : pc[e] \in {"idle", "claimed", "failed"}
  BY <1>0, <1>1, OthersRest
<1>4. \A e \in Dispatches \ {d} : pc'[e] = pc[e] /\ prior'[e] = prior[e]
  BY <1>0 DEF TypeOK, Goto, Handoff, ReadPrior, CancelPrior, ClosePriorCheck,
     ChooseGeneration, StartExecution, ClaimReadGeneration, ClaimReadBody, ClaimSucceeds,
     ClaimConflicts, ClaimAckLost, ClaimWriteFails, RetryClaim, HandoffDies
<1> QED
  BY <1>1, <1>2, <1>3, <1>4

\* The call a handoff makes, and what it changes.
LEMMA HandoffCall ==
  ASSUME CalmDays, CalmInv, NEW d \in Dispatches, Handoff(d)
  PROVE  \/ /\ pc[d] = "supersede" /\ UNCHANGED <<registry, exec, checkState>>
            /\ pc'[d] = IF registry = NoRecord THEN "generation" ELSE "cancel"
         \/ /\ pc[d] = "cancel" /\ pc'[d] = "close" /\ UNCHANGED <<registry, checkState, prior>>
            /\ \A e \in Dispatches : exec'[e] = "active" => exec[e] = "active"
         \/ /\ pc[d] = "close" /\ pc'[d] = "generation" /\ UNCHANGED <<registry, exec>>
            /\ IF prior[d].check = NoCheck THEN UNCHANGED checkState
               ELSE checkState' = [checkState EXCEPT ![prior[d].check] = IF @ = "in_progress" THEN "cancelled" ELSE @]
         \/ /\ pc[d] \in AfterClose /\ pc'[d] \in AfterClose /\ UNCHANGED <<registry, checkState>>
            /\ \A e \in Dispatches \ {d} : exec'[e] = exec[e]
         \/ /\ pc[d] = "claimWrite" /\ pc'[d] = "claimed" /\ registry' = ClaimRecord(d)
            /\ UNCHANGED <<exec, checkState>>
<1>0. TypeOK /\ Faulty = {} /\ ~ReadsFail /\ FreshReads(d)
  BY DEF CalmInv, LifecycleTypeOK, SerialInv, CalmDays, Undisturbed
<1>1. CASE ReadPrior(d)
  BY <1>0, <1>1 DEF ReadPrior, ReadRecord, Goto, TypeOK
<1>2. CASE CancelPrior(d)
  <2>1. exec' = [exec EXCEPT ![prior[d].exec] = IF @ = "active" THEN "cancelled" ELSE @]
    BY <1>0, <1>2 DEF CancelPrior
  <2>2. \A e \in Dispatches : exec'[e] = "active" => exec[e] = "active"
    BY <1>0, <2>1 DEF TypeOK
  <2> QED
    BY <1>0, <1>2, <2>2 DEF CancelPrior, Goto, TypeOK
<1>3. CASE ClosePriorCheck(d)
  BY <1>0, <1>3 DEF ClosePriorCheck, Goto, TypeOK
<1>4. CASE ChooseGeneration(d) \/ StartExecution(d)
  BY <1>0, <1>4 DEF ChooseGeneration, StartExecution, Goto, TypeOK, AfterClose
<1>5. CASE ClaimReadGeneration(d) \/ ClaimReadBody(d)
  BY <1>0, <1>5 DEF ClaimReadGeneration, ClaimReadBody, Goto, TypeOK, AfterClose
<1>6. CASE ClaimSucceeds(d)
  BY <1>0, <1>6 DEF ClaimSucceeds, WriteObject, Goto, TypeOK
<1>7. ~ClaimConflicts(d) /\ ~ClaimAckLost(d) /\ ~ClaimWriteFails(d) /\ ~HandoffDies(d)
  BY <1>0 DEF ClaimConflicts, ClaimAckLost, ClaimWriteFails, HandoffDies, FreshReads
<1> QED
  BY <1>1, <1>2, <1>3, <1>4, <1>5, <1>6, <1>7 DEF Handoff

LEMMA HandoffCalm ==
  ASSUME CalmDays, CalmInv, NEW d \in Dispatches, Handoff(d), UNCHANGED runtimeVars
  PROVE  JobsInv' /\ MetaInv' /\ ChecksInv'
<1>0. TypeOK /\ JobsInv /\ MetaInv /\ ChecksInv /\ HeldInv /\ FreshReads(d) /\ RunsAlone(d) /\ Faulty = {}
  BY DEF CalmInv, LifecycleTypeOK, SerialInv, CalmDays, Undisturbed
<1>1. /\ InFlight(d) /\ job[d] = "none" /\ \A e \in Dispatches : job[e] \notin InsideJobs
      /\ \A e \in Dispatches \ {d} : pc[e] \in {"idle", "claimed", "failed"} /\ pc'[e] = pc[e] /\ prior'[e] = prior[e]
  BY HandoffAlone
<1>2. job' = job /\ metaFile' = metaFile /\ patch' = patch /\ loaded' = loaded
  BY DEF runtimeVars
<1>3. \A e \in Dispatches : job[e] \notin Patching \cup {"patchWrite", "finalize"}
  BY <1>1 DEF InsideJobs, Patching
<1>4. JobsInv'
  <2>1. ASSUME NEW e \in Dispatches PROVE job'[e] # "none" => pc'[e] = "claimed"
    BY <1>0, <1>1, <1>2 DEF JobsInv
  <2>2. ASSUME NEW e \in Dispatches, pc'[e] = "close" PROVE registry' # NoRecord /\ prior'[e] = registry'
    <3>1. e = d
      BY <1>1, <2>2
    <3>2. pc[d] = "cancel" /\ UNCHANGED <<registry, prior>>
      BY <2>2, <3>1, HandoffCall DEF AfterClose
    <3> QED
      BY <1>0, <3>1, <3>2 DEF FreshReads
  <2> QED
    BY <1>1, <1>2, <1>3, <2>1, <2>2 DEF JobsInv
<1>5. registry' = registry \/ (registry' = ClaimRecord(d) /\ pc[d] = "claimWrite")
  BY HandoffCall
<1>6. MetaInv'
  <2> SUFFICES ASSUME NEW e \in Dispatches, Check(e) # NoCheck
               PROVE  /\ Check(e) = e /\ job[e] \notin {"none", "report"}
                      /\ registry' # NoRecord /\ registry'.exec = e => registry'.check = e
    BY <1>2, <1>3 DEF MetaInv, Names, Check
  <2>1. Check(e) = e /\ job[e] \notin {"none", "report"} /\ (registry # NoRecord /\ registry.exec = e => Names(e))
    BY <1>0 DEF MetaInv
  <2>2. e # d
    BY <1>1, <2>1
  <2> QED
    BY <1>3, <1>5, <2>1, <2>2 DEF Names, ClaimRecord
<1>7. ChecksInv'
  <2>1. \A e \in Dispatches : checkState[e] = "in_progress"
            => registry # NoRecord /\ registry.exec = e /\ registry.check = e /\ \A f \in Dispatches : pc[f] \notin AfterClose
    BY <1>0, <1>3 DEF ChecksInv, Names
  <2>2. \A e \in Dispatches : checkState[e] = "cancelled" => exec[e] # "active" /\ pc[e] = "claimed" /\ e # d
    BY <1>0, <1>1 DEF ChecksInv, InFlight, Ended
  <2>3. CASE /\ pc[d] = "supersede" /\ UNCHANGED <<registry, exec, checkState>>
             /\ pc'[d] = IF registry = NoRecord THEN "generation" ELSE "cancel"
    BY <1>1, <1>2, <2>1, <2>2, <2>3 DEF ChecksInv, Names, AfterClose
  <2>4. CASE /\ pc[d] = "cancel" /\ pc'[d] = "close" /\ UNCHANGED <<registry, checkState, prior>>
             /\ \A e \in Dispatches : exec'[e] = "active" => exec[e] = "active"
    BY <1>1, <1>2, <2>1, <2>2, <2>4 DEF ChecksInv, Names, AfterClose
  <2>5. CASE /\ pc[d] = "close" /\ pc'[d] = "generation" /\ UNCHANGED <<registry, exec>>
             /\ IF prior[d].check = NoCheck THEN UNCHANGED checkState
                ELSE checkState' = [checkState EXCEPT ![prior[d].check] = IF @ = "in_progress" THEN "cancelled" ELSE @]
    <3>1. registry # NoRecord /\ prior[d] = registry /\ registry \in Record /\ registry.exec \in Dispatches
      BY <1>0, <2>5 DEF JobsInv, TypeOK, Record
    <3>2. registry.check # NoCheck => registry.check = registry.exec
      BY <1>0, <3>1 DEF HeldInv, HoldsAClaim, CalmDays, OneRunEach, Record
    <3>3. pc[registry.exec] = "claimed" /\ registry.exec # d
      BY <1>0, <2>5, <3>1 DEF HeldInv, HoldsAClaim
    <3>4. exec[registry.exec] # "active"
      BY <1>0, <2>5, <3>1, <3>3 DEF RunsAlone
    <3>5. ASSUME NEW e \in Dispatches PROVE checkState'[e] # "in_progress"
      <4>1. CASE registry.check = NoCheck
        BY <1>0, <2>1, <2>5, <3>1, <4>1, NoCheckAssumption
      <4>2. CASE registry.check # NoCheck
        BY <1>0, <2>1, <2>5, <3>1, <3>2, <4>2 DEF TypeOK
      <4> QED
        BY <4>1, <4>2
    <3>6. ASSUME NEW e \in Dispatches, checkState'[e] = "cancelled" PROVE exec'[e] # "active" /\ pc'[e] = "claimed"
      <4>1. checkState[e] = "cancelled" \/ e = registry.exec
        BY <1>0, <2>5, <3>1, <3>2, <3>6 DEF TypeOK
      <4>2. exec[e] # "active" /\ pc[e] = "claimed" /\ e # d
        BY <2>2, <3>3, <3>4, <4>1
      <4> QED
        BY <1>1, <2>5, <4>2
    <3> QED
      BY <3>5, <3>6 DEF ChecksInv
  <2>6. CASE /\ pc[d] \in AfterClose /\ pc'[d] \in AfterClose /\ UNCHANGED <<registry, checkState>>
             /\ \A e \in Dispatches \ {d} : exec'[e] = exec[e]
    BY <1>1, <2>1, <2>2, <2>6 DEF ChecksInv
  <2>7. CASE /\ pc[d] = "claimWrite" /\ pc'[d] = "claimed" /\ registry' = ClaimRecord(d)
             /\ UNCHANGED <<exec, checkState>>
    BY <1>1, <2>1, <2>2, <2>7 DEF ChecksInv, AfterClose
  <2> QED
    BY <2>3, <2>4, <2>5, <2>6, <2>7, HandoffCall
<1> QED
  BY <1>4, <1>6, <1>7

LEMMA BeginCalm ==
  ASSUME CalmDays, CalmInv, NEW d \in Dispatches, Begin(d), NoJobRuns, UNCHANGED runtimeVars
  PROVE  JobsInv' /\ MetaInv' /\ ChecksInv'
<1>0. TypeOK /\ JobsInv /\ MetaInv /\ ChecksInv
  BY DEF CalmInv, LifecycleTypeOK
<1>1. /\ pc[d] = "idle" /\ pc'[d] = "supersede" /\ \A e \in Dispatches \ {d} : pc'[e] = pc[e]
      /\ UNCHANGED <<registry, exec, checkState, prior>>
  BY <1>0 DEF Begin, Goto, TypeOK
<1>2. job' = job /\ metaFile' = metaFile /\ patch' = patch /\ loaded' = loaded
  BY DEF runtimeVars
<1>3. \A e \in Dispatches : job[e] \notin InsideJobs
  BY DEF NoJobRuns
<1>4. JobsInv'
  BY <1>0, <1>1, <1>2, <1>3 DEF JobsInv, InsideJobs
<1>5. MetaInv'
  BY <1>0, <1>1, <1>2 DEF MetaInv, Names, Check
<1>6. ChecksInv'
  BY <1>0, <1>1, <1>2 DEF ChecksInv, Names, AfterClose
<1> QED
  BY <1>4, <1>5, <1>6

LEMMA EndCalm ==
  ASSUME CalmDays, CalmInv, NEW d \in Dispatches, job[d] = "finished", ExecutionEnds(d), UNCHANGED runtimeVars
  PROVE  JobsInv' /\ MetaInv' /\ ChecksInv'
<1>0. TypeOK /\ JobsInv /\ MetaInv /\ ChecksInv
  BY DEF CalmInv, LifecycleTypeOK
<1>1. /\ exec'[d] = "ended" /\ \A e \in Dispatches \ {d} : exec'[e] = exec[e]
      /\ UNCHANGED <<registry, pc, checkState, prior>>
  BY <1>0 DEF ExecutionEnds, TypeOK
<1>2. job' = job /\ metaFile' = metaFile /\ patch' = patch /\ loaded' = loaded
  BY DEF runtimeVars
<1>3. job[d] \notin InsideJobs
  BY DEF InsideJobs
<1>4. JobsInv'
  BY <1>0, <1>1, <1>2, <1>3 DEF JobsInv, InFlight
<1>5. MetaInv'
  BY <1>0, <1>1, <1>2 DEF MetaInv, Names, Check
<1>6. ChecksInv'
  BY <1>0, <1>1, <1>2 DEF ChecksInv, Names
<1> QED
  BY <1>4, <1>5, <1>6

-----------------------------------------------------------------------------
(* Calm conditions: the steps of the jobs.                                 *)

LEMMA SerialUnderJobs ==
  ASSUME SerialInv, TypeOK', UNCHANGED <<registryVars, exec, pc, localVars>>
  PROVE  SerialInv'
<1>1. ClaimInv'
  <2>1. ObjectGeneration'
    BY ObjectKept DEF SerialInv, ClaimInv
  <2>2. \A e \in Dispatches : PendingClaim(e)'
    BY PendingKept DEF SerialInv, ClaimInv
  <2> QED
    BY <2>1, <2>2 DEF ClaimInv
<1>2. OneInFlight' /\ \A e \in Dispatches : (FreshReads(e) /\ ClaimedAsAnnounced(e) /\ RunsAlone(e))'
  BY SerialKept
<1> QED
  BY <1>1, <1>2 DEF SerialInv

\* The blind write of the plan job changes nothing but the check.
LEMMA PatchCalm ==
  ASSUME CalmDays, CalmInv, NEW d \in Dispatches, PatchWrite(d)
  PROVE  /\ registry' = [registry EXCEPT !.check = d] /\ registry' \in Record /\ registry' # NoRecord
         /\ registry'.exec = registry.exec /\ registry'.gen = registry.gen /\ registry'.check = d
         /\ UNCHANGED <<exec, checkState, pc, prior, payloadGen, seen, claimGen>>
         /\ objgen' = changes + 1 /\ changes' = changes + 1
<1>1. patch[d] = registry /\ registry \in Record
  <2>1. job[d] = "patchWrite" /\ job[d] \in InsideJobs
    BY DEF PatchWrite, InsideJobs
  <2> QED
    BY <2>1, InsideHolder DEF CalmInv, JobsInv
<1>2. registry' = [registry EXCEPT !.check = d]
  BY <1>1 DEF PatchWrite, WriteObject
<1> QED
  BY <1>1, <1>2, PatchedRecord, NoRecordAssumption DEF PatchWrite, WriteObject

LEMMA PatchSerial ==
  ASSUME CalmDays, CalmInv, TypeOK', NEW d \in Dispatches, PatchWrite(d)
  PROVE  SerialInv'
<1>0. TypeOK /\ SerialInv /\ ObjectGeneration /\ \A e \in Dispatches : PendingClaim(e)
  BY DEF CalmInv, LifecycleTypeOK, SerialInv, ClaimInv
<1>1. registry # NoRecord /\ \A e \in Dispatches : ~InFlight(e)
  BY InsideHolder DEF PatchWrite, InsideJobs
<1>2. \A e \in Dispatches : pc[e] \in {"idle", "claimed", "failed"}
  BY <1>0, <1>1 DEF InFlight, Ended, TypeOK
<1>3. ClaimInv'
  <2>1. ObjectGeneration'
    BY <1>0, <1>1, PatchCalm DEF ObjectGeneration, TypeOK
  <2>2. ASSUME NEW e \in Dispatches PROVE PendingClaim(e)'
    <3>1. seen[e] <= changes /\ seen[e] \in Nat /\ changes \in Nat
      BY <1>0 DEF PendingClaim, TypeOK
    <3> QED
      BY <1>2, <3>1, PatchCalm DEF PendingClaim
  <2> QED
    BY <2>1, <2>2 DEF ClaimInv
<1>4. OneInFlight'
  BY <1>0, PatchCalm DEF SerialInv, OneInFlight, InFlight
<1>5. ASSUME NEW e \in Dispatches PROVE FreshReads(e)' /\ ClaimedAsAnnounced(e)' /\ RunsAlone(e)'
  BY <1>0, <1>1, <1>2, PatchCalm DEF SerialInv, FreshReads, ClaimedAsAnnounced, RunsAlone, InFlight
<1> QED
  BY <1>3, <1>4, <1>5 DEF SerialInv

\* What the jobs' part of the invariant needs of a step of d's job.
LEMMA JobMoves ==
  ASSUME CalmDays, CalmInv, NEW d \in Dispatches, NEW to \in Stages \ {"none"}, GotoJob(d, to),
         UNCHANGED <<registry, exec, pc, prior>>,
         exec[d] = "active", \A e \in Dispatches : ~InFlight(e),
         \A e \in Dispatches \ {d} : patch'[e] = patch[e] /\ loaded'[e] = loaded[e],
         to = "patchWrite" => patch'[d] = registry,
         to = "finalize" => loaded'[d].check = d
  PROVE  JobsInv'
<1>1. job \in [Dispatches -> Stages]
  BY TypeParts DEF CalmInv, RuntimeTypeOK
<1>2. job'[d] = to /\ \A e \in Dispatches \ {d} : job'[e] = job[e]
  BY <1>1 DEF GotoJob
<1>3. pc[d] = "claimed"
  BY Holder
<1> QED
  BY <1>2, <1>3 DEF CalmInv, JobsInv, InFlight

LEMMA PlanCalm ==
  ASSUME CalmDays, CalmInv, NEW d \in Dispatches, PlanMode(d)
  PROVE  JobsInv' /\ MetaInv' /\ ChecksInv' /\ job'[d] = "report"
<1>0. MetaInv /\ ChecksInv /\ job \in [Dispatches -> Stages]
  BY TypeParts DEF CalmInv, RuntimeTypeOK
<1>1. exec[d] = "active" /\ job[d] = "none" /\ \A e \in Dispatches : ~InFlight(e)
  BY DEF PlanMode, NoHandoffInCalm, CalmDays
<1>2. Authoritative(d)
  BY <1>1, Holder
<1>3. GotoJob(d, "report") /\ UNCHANGED <<dispatchVars, metaFile, loaded, patch>>
  BY <1>2 DEF PlanMode
<1>4. JobsInv'
  BY <1>1, <1>3, JobMoves DEF dispatchVars, Stages, InsideJobs
<1>5. job'[d] = "report" /\ \A e \in Dispatches \ {d} : job'[e] = job[e]
  BY <1>0, <1>3 DEF GotoJob
<1>6. MetaInv' /\ ChecksInv'
  BY <1>0, <1>1, <1>3, <1>5 DEF dispatchVars, MetaInv, ChecksInv, Names, Check, Patching
<1> QED
  BY <1>4, <1>5, <1>6

LEMMA ReportCalm ==
  ASSUME CalmDays, CalmInv, NEW d \in Dispatches, EnsureReporting(d)
  PROVE  JobsInv' /\ MetaInv' /\ ChecksInv'
<1>0. /\ MetaInv /\ ChecksInv /\ job \in [Dispatches -> Stages] /\ TypeOK
      /\ metaFile \in [RunIds -> Dispatches \cup {NoCheck}]
  BY TypeParts DEF CalmInv, RuntimeTypeOK
<1>1. /\ job[d] = "report" /\ exec[d] = "active" /\ Authoritative(d) /\ \A e \in Dispatches : ~InFlight(e)
      /\ registry # NoRecord /\ registry.exec = d
  BY InsideHolder DEF EnsureReporting, InsideJobs
<1>2. Check(d) = NoCheck /\ d \notin Faulty
  BY <1>0, <1>1 DEF MetaInv, CalmDays, Undisturbed
<1>3. /\ checkState' = [checkState EXCEPT ![d] = "in_progress"]
      /\ metaFile' = [metaFile EXCEPT ![RunOf[d]] = d]
      /\ GotoJob(d, "patchRead")
      /\ UNCHANGED <<registry, exec, pc, prior, loaded, patch>>
  BY <1>1, <1>2 DEF EnsureReporting
<1>4. JobsInv'
  BY <1>1, <1>3, JobMoves DEF Stages, InsideJobs
<1>5. job'[d] = "patchRead" /\ \A e \in Dispatches \ {d} : job'[e] = job[e]
  BY <1>0, <1>3 DEF GotoJob
<1>6. Check(d)' = d /\ \A e \in Dispatches \ {d} : Check(e)' = Check(e)
  BY <1>0, <1>3, RunOfAssumption DEF Check, CalmDays, OneRunEach
<1>7. MetaInv'
  BY <1>0, <1>1, <1>3, <1>5, <1>6 DEF MetaInv, Names, Patching
<1>8. ChecksInv'
  <2>1. checkState'[d] = "in_progress" /\ \A e \in Dispatches \ {d} : checkState'[e] = checkState[e]
    BY <1>0, <1>3 DEF TypeOK
  <2>2. \A e \in Dispatches : pc[e] \notin AfterClose
    BY <1>1 DEF InFlight, Ended, AfterClose
  <2> QED
    BY <1>0, <1>1, <1>3, <1>5, <2>1, <2>2 DEF ChecksInv, Names, Patching
<1> QED
  BY <1>4, <1>7, <1>8

LEMMA PatchingCalm ==
  ASSUME CalmDays, CalmInv, NEW d \in Dispatches, PatchRead(d) \/ PatchWrite(d)
  PROVE  JobsInv' /\ MetaInv' /\ ChecksInv'
<1>0. /\ JobsInv /\ MetaInv /\ ChecksInv /\ job \in [Dispatches -> Stages]
      /\ patch \in [Dispatches -> {NoRecord} \cup Record]
  BY TypeParts DEF CalmInv, RuntimeTypeOK
<1>1. /\ job[d] \in Patching /\ exec[d] = "active" /\ \A e \in Dispatches : ~InFlight(e)
      /\ registry # NoRecord /\ registry.exec = d /\ pc[d] = "claimed"
      /\ \A e \in Dispatches : job[e] \in InsideJobs => e = d
  BY InsideHolder DEF PatchRead, PatchWrite, InsideJobs, Patching
<1>2. CASE PatchRead(d)
  <2>1. patch' = [patch EXCEPT ![d] = registry] /\ GotoJob(d, "patchWrite") /\ UNCHANGED <<dispatchVars, metaFile, loaded>>
    BY <1>1, <1>2 DEF PatchRead
  <2>2. JobsInv'
    BY <1>0, <1>1, <2>1, JobMoves DEF dispatchVars, Stages, InsideJobs
  <2>3. job'[d] = "patchWrite" /\ \A e \in Dispatches \ {d} : job'[e] = job[e]
    BY <1>0, <2>1 DEF GotoJob
  <2>4. MetaInv' /\ ChecksInv'
    BY <1>0, <1>1, <2>1, <2>3 DEF dispatchVars, MetaInv, ChecksInv, Names, Check, Patching
  <2> QED
    BY <2>2, <2>4
<1>3. CASE PatchWrite(d)
  <2>1. GotoJob(d, "planned") /\ UNCHANGED <<exec, checkState, pc, prior, metaFile, loaded, patch>>
    BY <1>3, PatchCalm DEF PatchWrite
  <2>2. job'[d] = "planned" /\ \A e \in Dispatches \ {d} : job'[e] = job[e]
    BY <1>0, <2>1 DEF GotoJob
  <2>3. registry' # NoRecord /\ registry'.exec = d /\ registry'.check = d
    BY <1>1, <1>3, PatchCalm
  <2>4. \A e \in Dispatches : pc[e] # "close"
    BY <1>1 DEF InFlight, Ended
  <2>5. JobsInv'
    BY <1>0, <1>1, <2>1, <2>2, <2>4 DEF JobsInv, InFlight, InsideJobs
  <2>6. MetaInv' /\ ChecksInv'
    BY <1>0, <1>1, <2>1, <2>2, <2>3 DEF MetaInv, ChecksInv, Names, Check, Patching
  <2> QED
    BY <2>5, <2>6
<1> QED
  BY <1>2, <1>3

\* A job that neither writes the registry nor moves into or out of a patch.
LEMMA StageKeeps ==
  ASSUME CalmInv, NEW d \in Dispatches, NEW to \in Stages \ ({"none", "report"} \cup Patching), GotoJob(d, to),
         job[d] \notin Patching, UNCHANGED <<registry, exec, pc, metaFile>>,
         UNCHANGED checkState \/ (checkState' = [checkState EXCEPT ![d] = "completed"])
  PROVE  MetaInv' /\ ChecksInv'
<1>0. MetaInv /\ ChecksInv /\ job \in [Dispatches -> Stages] /\ TypeOK
  BY TypeParts DEF CalmInv, RuntimeTypeOK
<1>1. job'[d] = to /\ \A e \in Dispatches \ {d} : job'[e] = job[e]
  BY <1>0 DEF GotoJob
<1>2. \A e \in Dispatches : Names(e) => Names(e)'
  BY <1>1 DEF Names
<1>3. MetaInv'
  BY <1>0, <1>1, <1>2 DEF MetaInv, Names, Check
<1>4. \A e \in Dispatches : checkState'[e] = checkState[e] \/ checkState'[e] = "completed"
  BY <1>0 DEF TypeOK
<1>5. ChecksInv'
  BY <1>0, <1>2, <1>4 DEF ChecksInv
<1> QED
  BY <1>3, <1>5

LEMMA TaskCalm ==
  ASSUME CalmDays, CalmInv, NEW d \in Dispatches, TaskStarts(d) \/ TaskEnds(d) \/ TaskProgress(d)
  PROVE  JobsInv' /\ MetaInv' /\ ChecksInv'
<1>0. MetaInv /\ ChecksInv /\ job \in [Dispatches -> Stages] /\ TypeOK
  BY TypeParts DEF CalmInv, RuntimeTypeOK
<1>1. job[d] \in {"planned", "task"} /\ exec[d] = "active" /\ \A e \in Dispatches : ~InFlight(e)
  BY InsideHolder DEF TaskStarts, TaskEnds, TaskProgress, InsideJobs, NoHandoffInCalm, CalmDays
<1>2. PICK to \in {"task", "tasked"} : GotoJob(d, to)
  BY DEF TaskStarts, TaskEnds, TaskProgress
<1>3. to \in Stages /\ UNCHANGED <<registry, exec, pc, prior, metaFile, loaded, patch>>
  BY DEF TaskStarts, TaskEnds, TaskProgress, dispatchVars, Stages, BetweenJobs, InsideJobs
<1>4. JobsInv'
  BY <1>1, <1>2, <1>3, JobMoves
<1>5. CASE TaskStarts(d) \/ TaskEnds(d)
  <2>1. UNCHANGED checkState
    BY <1>5 DEF TaskStarts, TaskEnds, dispatchVars
  <2> QED
    BY <1>1, <1>2, <1>3, <1>4, <2>1, StageKeeps DEF Patching
<1>6. CASE TaskProgress(d)
  <2>1. Check(d) = d /\ checkState' = [checkState EXCEPT ![d] = "in_progress"]
    BY <1>0, <1>6 DEF TaskProgress, MetaInv
  <2>2. registry # NoRecord /\ registry.exec = d
    BY <1>1, Holder
  <2>3. Names(d) /\ registry.check = d
    BY <1>0, <1>1, <2>1, <2>2, NoCheckAssumption DEF MetaInv, Names, Patching
  <2>4. \A e \in Dispatches \ {d} : job'[e] = job[e] /\ checkState'[e] = checkState[e]
    BY <1>0, <1>2, <2>1 DEF GotoJob, TypeOK
  <2>5. job'[d] = to
    BY <1>0, <1>2 DEF GotoJob
  <2>6. \A e \in Dispatches : pc[e] \notin AfterClose
    BY <1>1 DEF InFlight, Ended, AfterClose
  <2>7. MetaInv'
    BY <1>0, <1>3, <2>3, <2>4, <2>5 DEF MetaInv, Names, Check
  <2>8. ChecksInv'
    <3>1. checkState'[d] = "in_progress"
      BY <1>0, <2>1 DEF TypeOK
    <3> QED
      BY <1>0, <1>3, <2>3, <2>4, <2>6, <3>1 DEF ChecksInv, Names
  <2> QED
    BY <1>4, <2>7, <2>8
<1> QED
  BY <1>5, <1>6

LEMMA CoordinatorCalm ==
  ASSUME CalmDays, CalmInv, NEW d \in Dispatches, CoordinatorStarts(d) \/ PublishStarts(d) \/ Finalize(d)
  PROVE  JobsInv' /\ MetaInv' /\ ChecksInv'
<1>0. /\ JobsInv /\ MetaInv /\ ChecksInv /\ job \in [Dispatches -> Stages]
      /\ metaFile \in [RunIds -> Dispatches \cup {NoCheck}]
      /\ loaded \in [Dispatches -> [plan : Dispatches \cup {NoDispatch}, check : Dispatches \cup {NoCheck}]]
  BY TypeParts DEF CalmInv, RuntimeTypeOK
<1>1. job[d] \in {"tasked", "publish", "finalize"} /\ exec[d] = "active" /\ \A e \in Dispatches : ~InFlight(e)
  BY InsideHolder DEF CoordinatorStarts, PublishStarts, Finalize, InsideJobs, NoHandoffInCalm, CalmDays
<1>2. CASE CoordinatorStarts(d)
  <2>1. /\ loaded' = [loaded EXCEPT ![d].plan = Plan(d)]
        /\ UNCHANGED <<registry, exec, pc, prior, checkState, metaFile, patch>>
    BY <1>2 DEF CoordinatorStarts, dispatchVars
  <2>2. PICK to \in {"publish", "finished"} : GotoJob(d, to)
    BY <1>2 DEF CoordinatorStarts
  <2>3. to \in Stages /\ \A e \in Dispatches \ {d} : loaded'[e] = loaded[e]
    BY <1>0, <2>1 DEF Stages, BetweenJobs, InsideJobs
  <2>4. JobsInv'
    BY <1>1, <2>1, <2>2, <2>3, JobMoves
  <2> QED
    BY <1>1, <2>1, <2>2, <2>3, <2>4, StageKeeps DEF Patching
<1>3. CASE PublishStarts(d)
  <2>1. /\ loaded' = [loaded EXCEPT ![d].check = Check(d)]
        /\ UNCHANGED <<registry, exec, pc, prior, checkState, metaFile, patch>>
    BY <1>3 DEF PublishStarts, dispatchVars
  <2>2. PICK to \in {"finalize", "finished"} : GotoJob(d, to) /\ (to = "finalize" => Check(d) # NoCheck)
    BY <1>3 DEF PublishStarts
  <2>3. to \in Stages /\ loaded'[d].check = Check(d) /\ \A e \in Dispatches \ {d} : loaded'[e] = loaded[e]
    BY <1>0, <2>1 DEF Stages, BetweenJobs, InsideJobs
  <2>4. to = "finalize" => loaded'[d].check = d
    BY <1>0, <2>2, <2>3 DEF MetaInv
  <2>5. JobsInv'
    BY <1>1, <2>1, <2>2, <2>3, <2>4, JobMoves
  <2> QED
    BY <1>1, <2>1, <2>2, <2>3, <2>5, StageKeeps DEF Patching
<1>4. CASE Finalize(d)
  <2>1. /\ checkState' = [checkState EXCEPT ![d] = "completed"] /\ GotoJob(d, "finished")
        /\ metaFile' = [metaFile EXCEPT ![RunOf[d]] = NoCheck]
        /\ UNCHANGED <<registry, exec, pc, prior, loaded, patch>>
    BY <1>0, <1>4 DEF Finalize, JobsInv
  <2>2. JobsInv'
    BY <1>1, <2>1, JobMoves DEF Stages, BetweenJobs
  <2>3. job'[d] = "finished" /\ \A e \in Dispatches \ {d} : job'[e] = job[e]
    BY <1>0, <2>1 DEF GotoJob
  <2>4. Check(d)' = NoCheck /\ \A e \in Dispatches \ {d} : Check(e)' = Check(e)
    BY <1>0, <2>1, RunOfAssumption DEF Check, CalmDays, OneRunEach
  <2>5. MetaInv'
    BY <1>0, <2>1, <2>3, <2>4 DEF MetaInv, Names
  <2>6. checkState'[d] = "completed" /\ \A e \in Dispatches \ {d} : checkState'[e] = checkState[e]
    BY <2>1 DEF CalmInv, LifecycleTypeOK, TypeOK
  <2>7. ChecksInv'
    BY <1>0, <2>1, <2>3, <2>6 DEF ChecksInv, Names
  <2> QED
    BY <2>2, <2>5, <2>7
<1> QED
  BY <1>2, <1>3, <1>4

LEMMA NextCalm ==
  ASSUME CalmDays, CalmInv, [LifecycleNext]_vars
  PROVE  CalmInv'
<1>0. LifecycleTypeOK' /\ PatchInv' /\ HeldInv' /\ TypeOK'
  BY NextLifecycleTypeOK, NextHeld DEF CalmInv, LifecycleTypeOK
<1>1. Undisturbed /\ SerialInv /\ cleanups \in Nat /\ MaxCleanups = 0
  BY DEF CalmDays, Undisturbed, CalmInv, LifecycleTypeOK, TypeOK
<1>2. ~Cleanup
  BY <1>1 DEF Cleanup
<1>3. ASSUME NEW d \in Dispatches, Begin(d) \/ Handoff(d) \/ ExecutionEnds(d) PROVE SerialInv'
  BY <1>1, <1>3, NextSerialInv DEF Next
<1>4. ASSUME NEW d \in Dispatches, (Calm => NoJobRuns) /\ Begin(d) /\ UNCHANGED runtimeVars PROVE CalmInv'
  BY <1>0, <1>3, <1>4, BeginCalm DEF CalmInv, CalmDays
<1>5. ASSUME NEW d \in Dispatches, Handoff(d) /\ UNCHANGED runtimeVars PROVE CalmInv'
  BY <1>0, <1>3, <1>5, HandoffCalm DEF CalmInv
<1>6. ASSUME NEW d \in Dispatches, job[d] = "finished" /\ ExecutionEnds(d) /\ UNCHANGED runtimeVars PROVE CalmInv'
  BY <1>0, <1>3, <1>6, EndCalm DEF CalmInv
<1>7. ASSUME NEW d \in Dispatches, Job(d) PROVE CalmInv'
  <2>1. SerialInv'
    <3>1. CASE PatchWrite(d)
      BY <1>0, <3>1, PatchSerial
    <3>2. CASE Job(d) /\ ~PatchWrite(d)
      <4>1. UNCHANGED <<registryVars, exec, pc, localVars>>
        BY <3>2 DEF Job, PlanMode, EnsureReporting, PatchRead, TaskStarts, TaskProgress, TaskEnds, CoordinatorStarts,
           PublishStarts, Finalize, dispatchVars
      <4> QED
        BY <1>0, <1>1, <4>1, SerialUnderJobs
    <3> QED
      BY <1>7, <3>1, <3>2
  <2>2. JobsInv' /\ MetaInv' /\ ChecksInv'
    BY <1>7, PlanCalm, ReportCalm, PatchingCalm, TaskCalm, CoordinatorCalm DEF Job
  <2> QED
    BY <1>0, <2>1, <2>2 DEF CalmInv
<1>8. CASE UNCHANGED vars
  <2>1. UNCHANGED <<registryVars, exec, pc, localVars, checkState, job, metaFile, loaded, patch>>
    BY <1>8 DEF vars, dispatchVars, runtimeVars
  <2>2. SerialInv'
    BY <1>0, <1>1, <2>1, SerialUnderJobs
  <2>3. JobsInv' /\ MetaInv' /\ ChecksInv'
    BY <2>1 DEF CalmInv, JobsInv, MetaInv, ChecksInv, Names, Check, InFlight
  <2> QED
    BY <1>0, <2>2, <2>3 DEF CalmInv
<1> QED
  BY <1>2, <1>4, <1>5, <1>6, <1>7, <1>8 DEF LifecycleNext

LEMMA AlwaysCalm == ASSUME CalmDays PROVE LifecycleSpec => []CalmInv
<1>1. LifecycleInit => CalmInv
  BY InitCalm
<1>2. CalmInv /\ [LifecycleNext]_vars => CalmInv'
  BY CalmDays, NextCalm
<1> QED
  BY <1>1, <1>2, PTL DEF LifecycleSpec

(* With the jobs of the executions beside them, and the plan job's write   *)
(* of the whole record: the registry still carries the generation that the *)
(* execution of its claim was given.                                       *)
THEOREM ClaimsMatchInCalm == ASSUME CalmDays PROVE LifecycleSpec => []ClaimMatchesPayload
<1>1. CalmInv => ClaimMatchesPayload
  BY DEF CalmInv, SerialInv, ClaimedAsAnnounced, ClaimMatchesPayload
<1> QED
  BY <1>1, AlwaysCalm, PTL

(* In calm conditions no older execution of the pull request is active     *)
(* once a handoff has claimed it.                                          *)
THEOREM ClaimantAloneInCalm == ASSUME CalmDays PROVE LifecycleSpec => []ClaimantRunsAlone
<1>1. CalmInv => ClaimantRunsAlone
  BY DEF CalmInv, SerialInv, RunsAlone, ClaimantRunsAlone
<1> QED
  BY <1>1, AlwaysCalm, PTL

(* In calm conditions, between two handoffs, the only check in progress is *)
(* that of the run that holds the claim: for any number of pushes, and     *)
(* wherever the jobs of the superseded ones were.                          *)
THEOREM OneOpenCheck == ASSUME CalmDays PROVE LifecycleSpec => []OnlyActiveRunHasOpenCheck
<1>1. CalmInv => OnlyActiveRunHasOpenCheck
  BY DEF CalmInv, ChecksInv, Names, OnlyActiveRunHasOpenCheck
<1> QED
  BY <1>1, AlwaysCalm, PTL
=============================================================================
