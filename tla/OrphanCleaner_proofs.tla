------------------------ MODULE OrphanCleaner_proofs ------------------------
(***************************************************************************)
(* Proofs about the OrphanCleaner beside the reconciler.  All the cleaner  *)
(* does to the state of ClaimController is to delete templates and to use  *)
(* up faults, so that what ClaimController_proofs and ClaimWakeup_proofs   *)
(* say of the claim holds beside it as well.                               *)
(***************************************************************************)
EXTENDS OrphanCleaner, ClaimWakeup_proofs

\* Between two passes, and until a pass has seen the claims, nothing is to be
\* deleted: this is why a new list cannot drop a name that is.
PassInv ==
    /\ TypeOK /\ CleanerTypeOK
    /\ cpc # "delete" => orphans = {}

\* A step of the cleaner, as the reconciler's state sees it.
CleanerStep == GracePasses \/ CleanupOnce \/ CleanerFault

\* The cleaner deletes templates and may fail; it touches nothing else of the
\* reconciler's.
LEMMA CleanerEffect ==
    ASSUME TypeOK, CleanerStep
    PROVE  /\ templates' \subseteq templates /\ faults' \in 0..MaxFaults
           /\ UNCHANGED <<claim, tmpl, md, machineSets, mhc, overdue, cache, pc, loc, fresh,
                          queued, edits>>
<1>1. CASE GracePasses \/ ListBMTs \/ ListKCTs \/ ListClaims \/ EndPass
  BY <1>1 DEF GracePasses, ListBMTs, ListKCTs, ListClaims, EndPass, vars, TypeOK, Shapes
<1>2. CASE \E ref \in Refs : DeleteOrphan(ref)
  BY <1>2 DEF DeleteOrphan, reconVars, TypeOK, Shapes
<1>3. CASE CleanerFault
  <2>1. faults' \in 0..MaxFaults
    <3>1. faults < MaxFaults /\ faults' = faults + 1
      BY <1>3 DEF CleanerFault
    <3> QED
      BY <3>1, BoundAssumption DEF TypeOK, Shapes
  <2> QED
    BY <1>3, <2>1 DEF CleanerFault, reconVars
<1> QED
  BY <1>1, <1>2, <1>3 DEF CleanerStep, CleanupOnce

\* The invariants of the claim do not depend on which templates exist.
LEMMA CleanerKeeps ==
    ASSUME TypeOK, CleanerStep
    PROVE  TypeOK' /\ (WakeInv => WakeInv')
<1>1. /\ templates' \subseteq templates /\ faults' \in 0..MaxFaults
      /\ UNCHANGED <<claim, tmpl, md, machineSets, mhc, overdue, cache, pc, loc, fresh,
                     queued, edits>>
  BY CleanerEffect
<1>2. TypeOK'
  BY <1>1 DEF TypeOK, Shapes, Assigned
<1>3. ASSUME WakeInv
      PROVE  WakeInv'
  <2>1. StatusInv'
    BY <1>1, <1>2, <1>3 DEF WakeInv, StatusInv, Sound, LocalSound, HashChanged
  <2>2. LifeInv'
    <3>1. Lives' /\ FreshLives' /\ DeletingPhase'
      BY <1>1, <1>3 DEF WakeInv, LifeInv, Lives, FreshLives, DeletingPhase, CachedOpen
    <3>2. FinalizerFirst'
      BY <1>1, <1>3 DEF WakeInv, LifeInv, FinalizerFirst
    <3> QED
      BY <1>2, <3>1, <3>2 DEF LifeInv
  <2>3. MDClosing'
    BY <1>1, <1>3 DEF WakeInv, MDClosing, CachedOpen
  <2>4. ~queued' => IF pc' = "idle" THEN AtRest' ELSE UpToDate'
    BY <1>1, <1>3 DEF WakeInv, AtRest, UpToDate, ClaimAhead, SeenSettled, MDApplied, MDAhead,
       OnNames, SeenClaim, SeenMD, Seen, BuildMachineHealthCheck
  <2> QED
    BY <2>1, <2>2, <2>3, <2>4 DEF WakeInv
<1> QED
  BY <1>2, <1>3

-----------------------------------------------------------------------------

\* No step of either controller leaves PassInv.
LEMMA PassStep ==
    ASSUME PassInv, OperatorNext
    PROVE  PassInv'
<1> TypeOK /\ templates \subseteq Refs
  BY DEF PassInv, TypeOK, Shapes
<1> USE DEF PassInv, CleanerTypeOK
<1>1. CASE ControllerStep
  <2>1. TypeOK'
    BY <1>1, TypeInductive DEF ControllerStep
  <2> QED
    BY <1>1, <2>1 DEF ControllerStep
<1>2. ASSUME CleanerStep
      PROVE  TypeOK'
  BY <1>2, CleanerKeeps
<1>3. CASE GracePasses
  BY <1>2, <1>3 DEF GracePasses, vars, CleanerStep
<1>4. CASE ListBMTs \/ ListKCTs
  <2>1. SeenKCT \subseteq Refs
    BY DEF SeenKCT, Seen, Refs, TypeOK, Shapes
  <2> QED
    BY <1>2, <1>4, <2>1 DEF ListBMTs, ListKCTs, vars, CleanerStep, CleanupOnce
<1>5. CASE ListClaims
  BY <1>2, <1>5 DEF ListClaims, IsOrphanTemplate, vars, CleanerStep, CleanupOnce
<1>6. CASE \E ref \in Refs : DeleteOrphan(ref)
  BY <1>2, <1>6 DEF DeleteOrphan, CleanerStep, CleanupOnce
<1>7. CASE EndPass
  BY <1>2, <1>7 DEF EndPass, vars, CleanerStep, CleanupOnce
<1>8. CASE CleanerFault
  <2>1. aged' = aged /\ templates' = templates
    BY <1>8 DEF CleanerFault
  <2>2. \/ cpc' = "wait" /\ listed' = {} /\ old' = {} /\ orphans' = {}
        \/ cpc' = cpc /\ listed' = listed /\ old' = old /\ orphans' \subseteq orphans
    BY <1>8 DEF CleanerFault
  <2> QED
    BY <1>2, <1>8, <2>1, <2>2 DEF CleanerStep
<1> QED
  BY <1>1, <1>3, <1>4, <1>5, <1>6, <1>7, <1>8 DEF OperatorNext, CleanupOnce

\* Ages are kept of templates that exist, and a pass deletes nothing that it has
\* not listed and seen to be older than the grace period, whatever the reconciler
\* does between its three lists (CleanupOnce, isOrphanTemplate).
THEOREM CleanerTypeCorrect == OperatorSpec => []CleanerTypeOK
<1>1. CleanerInit => PassInv
  BY TypeInit DEF CleanerInit, PassInv, CleanerTypeOK
<1>2. PassInv /\ [OperatorNext]_allVars => PassInv'
  <2>1. ASSUME PassInv, UNCHANGED allVars
        PROVE  PassInv'
    <3>1. UNCHANGED vars /\ UNCHANGED cleanerVars
      BY <2>1 DEF allVars
    <3>2. TypeOK'
      BY <2>1, <3>1, TypeInductive DEF PassInv
    <3> QED
      BY <2>1, <3>1, <3>2 DEF PassInv, CleanerTypeOK, vars, cleanerVars
  <2> QED
    BY <2>1, PassStep
<1>3. PassInv => CleanerTypeOK
  BY DEF PassInv
<1> QED
  BY <1>1, <1>2, <1>3, PTL DEF OperatorSpec

\* The invariant of the claim is kept by the whole operator.
LEMMA WakeBesideCleaner == OperatorSpec => []WakeInv
<1>1. CleanerInit => WakeInv
  BY WakeInit DEF CleanerInit
<1>2. ASSUME WakeInv, [OperatorNext]_allVars
      PROVE  WakeInv'
  <2>1. CASE ControllerStep
    BY <1>2, <2>1, WakeInductive DEF ControllerStep
  <2>2. CASE CleanerStep
    BY <1>2, <2>2, CleanerKeeps DEF WakeInv, LifeInv
  <2>3. CASE UNCHANGED allVars
    BY <1>2, <2>3, WakeInductive DEF allVars
  <2> QED
    BY <1>2, <2>1, <2>2, <2>3 DEF OperatorNext, CleanerStep
<1> QED
  BY <1>1, <1>2, PTL DEF OperatorSpec

\* The cleaner shares the process and the templates with the reconciler and still
\* costs the claim no wakeup: the operator as a whole sleeps only when the claim is
\* settled, paused or gone.
THEOREM NoWakeupLostBesideCleaner == OperatorSpec => []SleepsOnlyWhenDone
BY WakeBesideCleaner, WakeMeansDone, PTL

\* Nor does it disturb the bookkeeping of the status that it decides from.
THEOREM StatusIsSoundBesideCleaner == OperatorSpec => [](Bookkeeping /\ ConditionsHonest)
<1>1. WakeInv => Bookkeeping /\ ConditionsHonest
  BY DEF WakeInv, StatusInv, Sound, Bookkeeping, ConditionsHonest
<1> QED
  BY <1>1, WakeBesideCleaner, PTL

-----------------------------------------------------------------------------
(* Deletion and pendingDeletion beside the cleaner                         *)

\* Neither what a deletion has achieved nor the copy of the bookkeeping suffers
\* from a template that is gone earlier than expected.
LEMMA CleanerKeepsObjects ==
    ASSUME WakeInv, CleanerStep
    PROVE  (CleanInv => CleanInv') /\ (TrackInv => TrackInv')
<1> TypeOK /\ StatusInv' /\ LifeInv'
  BY CleanerKeeps DEF WakeInv, LifeInv
<1>1. /\ templates' \subseteq templates
      /\ UNCHANGED <<claim, tmpl, md, machineSets, mhc, cache, pc, loc, fresh>>
  BY CleanerEffect
<1>2. CleanInv => CleanInv'
  BY <1>1 DEF CleanInv
<1>3. TrackInv => TrackInv'
  <2> SUFFICES ASSUME TrackInv PROVE TrackInv'
    OBVIOUS
  <2>1. (fresh' \/ "claim" \notin Lag) => Tracks'
    BY <1>1 DEF TrackInv, Tracks, HashChanged, Superseded
  <2>2. SweptGone'
    BY <1>1 DEF TrackInv, SweptGone
  <2> QED
    BY <2>1, <2>2 DEF TrackInv
<1> QED
  BY <1>2, <1>3

\* With the cleaner at work, too, no object exists before the finalizer is saved,
\* and when the reconciler sees MDs as they are, the finalizer is released only
\* after the MachineDeployment, its MachineSets and the MachineHealthCheck are gone.
THEOREM DeletionIsCleanBesideCleaner ==
    /\ OperatorSpec => []FinalizerFirst
    /\ "md" \notin Lag => (OperatorSpec => []CleanDeletion)
<1>1. OperatorSpec => []FinalizerFirst
  <2>1. WakeInv => FinalizerFirst
    BY DEF WakeInv, LifeInv
  <2> QED
    BY <2>1, WakeBesideCleaner, PTL
<1>2. ASSUME "md" \notin Lag
      PROVE  OperatorSpec => []CleanDeletion
  <2>1. CleanerInit => CleanInv
    BY CleanInit DEF CleanerInit
  <2>2. ASSUME WakeInv, CleanInv, [OperatorNext]_allVars
        PROVE  CleanInv'
    <3>1. CASE ControllerStep \/ UNCHANGED allVars
      BY <1>2, <2>2, <3>1, CleanInductive DEF ControllerStep, allVars
    <3>2. CASE CleanerStep
      BY <2>2, <3>2, CleanerKeepsObjects
    <3> QED
      BY <2>2, <3>1, <3>2 DEF OperatorNext, CleanerStep
  <2>3. CleanInv => CleanDeletion
    BY DEF CleanInv, CleanDeletion, NoMD
  <2> QED
    BY <2>1, <2>2, <2>3, WakeBesideCleaner, PTL DEF OperatorSpec
<1> QED
  BY <1>1, <1>2

\* The status forgets no template beside the cleaner either: the reconciler's copy
\* of pendingDeletion is of the claim, not of the templates the cleaner deletes.
THEOREM NoTemplateForgottenBesideCleaner == OperatorSpec => NothingForgotten
<1>1. CleanerInit => TrackInv
  BY TrackInit DEF CleanerInit
<1>2. ASSUME WakeInv, TrackInv, [OperatorNext]_allVars
      PROVE  TrackInv' /\ [StruckOffWhenDone]_vars
  <2>1. CASE ControllerStep
    BY <1>2, <2>1, TrackInductive, StrikingOff DEF ControllerStep
  <2>2. CASE CleanerStep
    <3>1. claim' = claim
      BY <1>2, <2>2, CleanerEffect DEF WakeInv, LifeInv
    <3> QED
      BY <1>2, <2>2, <3>1, CleanerKeepsObjects DEF StruckOffWhenDone
  <2>3. CASE UNCHANGED allVars
    BY <1>2, <2>3, TrackInductive DEF allVars
  <2> QED
    BY <1>2, <2>1, <2>2, <2>3 DEF OperatorNext, CleanerStep
<1> QED
  BY <1>1, <1>2, WakeBesideCleaner, PTL DEF OperatorSpec, NothingForgotten, StruckOffWhenDone
=============================================================================
