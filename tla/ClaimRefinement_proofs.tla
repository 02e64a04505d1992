------------------------ MODULE ClaimRefinement_proofs ------------------------
(***************************************************************************)
(* ClaimController implements TemplateLifecycle when its caches are up to  *)
(* date.  The refinement mapping is the one of ClaimController!Lifecycle:  *)
(* the stored bookkeeping, the templates that exist and those the MD and   *)
(* the MachineSets are built on.                                           *)
(***************************************************************************)
EXTENDS ClaimTemplates_proofs

\* Both halves are needed: UseInv says which templates are built on, TrackInv
\* that the reconciler's copy of the bookkeeping is the stored one.
RefineInv == UseInv /\ TrackInv

\* Both parts are inductive without lag.
LEMMA RefineInductive ==
    ASSUME Lag = {}
    PROVE  RefineInv /\ [Next]_vars => RefineInv'
BY UseInductive, TrackInductive DEF RefineInv

-----------------------------------------------------------------------------
(* Steps of the abstract specification                                     *)

\* What is in use, when nothing is left that could use a template.
LEMMA NothingInUse ==
    ASSUME md = NoMD, machineSets = {}
    PROVE  InUse = {}
BY DEF InUse, NoMD, RefsOf

\* A step that leaves bookkeeping and templates alone is a Build, whatever it
\* does to the MD and to the MachineSets.
LEMMA BuildStep ==
    ASSUME UseInv', templates' = templates, claim'.life = claim.life,
           claim'.status.current = claim.status.current,
           claim'.status.pending = claim.status.pending
    PROVE  Lifecycle!LifecycleNext
<1>1. InUse' \subseteq templates' /\ templates' \subseteq Refs
  <2>1. InUse' \subseteq templates' <=> UsedExist'
    BY InUseSplit DEF UsedExist, InUse
  <2> QED
    BY <2>1 DEF UseInv, StatusInv, TypeOK, Shapes
<1>2. claim'.life = "gone" => InUse' = {}
  <2> SUFFICES ASSUME claim'.life = "gone" PROVE InUse' = {}
    OBVIOUS
  <2>1. md' = NoMD /\ machineSets' = {}
    BY DEF UseInv, CleanInv, NoMD
  <2> QED
    BY <2>1 DEF InUse, NoMD, RefsOf
<1>3. Lifecycle!Build(InUse')
  BY <1>1, <1>2 DEF Lifecycle!Build
<1>4. InUse' \in SUBSET (Bmts \cup Kcts)
  BY <1>1 DEF Refs
<1> QED
  BY <1>3, <1>4 DEF Lifecycle!LifecycleNext

\* The MD and the MachineSets as they were use what they used.
LEMMA SameUse ==
    ASSUME machineSets' = machineSets, md'.names = md.names
    PROVE  InUse' = InUse
BY DEF InUse

\* A template more is a Create.
LEMMA CreateStep ==
    ASSUME UseInv', NEW ref \in Refs, templates' = templates \cup {ref},
           claim' = claim, claim.life # "gone", UNCHANGED <<machineSets, md>>
    PROVE  Lifecycle!LifecycleNext
<1>1. CASE ref \in templates
  BY <1>1, BuildStep
<1>2. CASE ref \notin templates
  <2>1. InUse' = InUse
    BY SameUse
  <2>2. Lifecycle!Create(ref)
    BY <1>2, <2>1 DEF Lifecycle!Create
  <2> QED
    BY <2>2 DEF Lifecycle!LifecycleNext, Refs
<1> QED
  BY <1>1, <1>2

\* A template less is a Delete if nothing is built on it.
LEMMA DeleteStep ==
    ASSUME UseInv', NEW ref \in Refs, templates' = templates \ {ref}, ref \notin InUse,
           claim.life = "live" => ref \in claim.status.pending,
           claim' = claim, UNCHANGED <<machineSets, md>>
    PROVE  Lifecycle!LifecycleNext
<1>1. CASE ref \notin templates
  BY <1>1, BuildStep
<1>2. CASE ref \in templates
  <2>1. InUse' = InUse
    BY SameUse
  <2>2. Lifecycle!Delete(ref)
    BY <1>2, <2>1 DEF Lifecycle!Delete
  <2> QED
    BY <2>2 DEF Lifecycle!LifecycleNext, Refs
<1> QED
  BY <1>1, <1>2

-----------------------------------------------------------------------------
(* Status writes                                                           *)

\* What a status write does to the stored bookkeeping.
LEMMA WriteIsAbstract ==
    ASSUME RefineInv, RefineInv', WriteStep, Tracks
    PROVE  Lifecycle!LifecycleNext
<1> USE DEF RefineInv
<1> /\ claim \in Claims /\ loc \in Locals /\ loc.status \in Status /\ TypeOK
    /\ loc.names \in Names \cup {None}
  BY DEF UseInv, StatusInv, TypeOK, Shapes, Locals
<1>1. /\ pc \in WriteEndPcs /\ claim'.status = Written /\ claim'.life = claim.life
      /\ UNCHANGED <<templates, md, machineSets>>
  BY WriteEnd DEF Claims
<1>2. InUse' = InUse
  BY <1>1, SameUse
<1>3. CASE pc \in {"pause", "fail"}
  <2>1. /\ loc.status.pending = claim.status.pending
        /\ loc.status.current = claim.status.current
    BY <1>3 DEF Tracks, CleanupPcs, SweepPcs
  <2>2. Written.current = loc.status.current /\ Written.pending = loc.status.pending
    BY <1>3 DEF Written, PausedStatus, FailedStatus, Status
  <2> QED
    BY <1>1, <2>1, <2>2, BuildStep
<1>4. CASE pc = "start"
  <2>1. /\ loc.status.current = loc.names /\ HashChanged(claim.status, loc.names)
        /\ loc.status.pending = Superseded(claim.status, loc.names)
    BY <1>4 DEF Tracks
  <2>2. Written.current = loc.names /\ Written.pending = loc.status.pending
    BY <1>4, <2>1 DEF Written, RolloutStartedStatus, Status
  <2>3. loc.names \in Names /\ RefsOf(loc.names) \subseteq templates
    BY <1>4 DEF UseInv, StatusInv, TypeOK, Assigned, RenderedPcs, RolloutUse, AppliedPcs
  <2>4. Lifecycle!Supersede(loc.names)
    BY <1>1, <1>2, <2>1, <2>2, <2>3
       DEF Lifecycle!Supersede, Lifecycle!Parts, Superseded, HashChanged, RefsOf
  <2> QED
    BY <2>3, <2>4 DEF Lifecycle!LifecycleNext, Lifecycle!Pairs, Names
<1>5. CASE pc = "ready"
  <2>1. /\ loc.status.current = loc.names /\ ~HashChanged(claim.status, loc.names)
        /\ loc.status.pending = claim.status.pending
    BY <1>5 DEF Tracks
  <2>2. Written.current = loc.names /\ Written.pending = claim.status.pending
    BY <1>5, <2>1 DEF Written, ReadyStatus, Status
  <2>3. loc.names \in Names /\ RefsOf(loc.names) \subseteq templates
    BY <1>5 DEF UseInv, StatusInv, TypeOK, Assigned, RenderedPcs, RolloutUse, AppliedPcs
  <2>4. CASE claim.status.current = loc.names
    BY <1>1, <2>2, <2>4, BuildStep
  <2>5. CASE claim.status.current = None
    <3>1. claim.status.pending = {}
      BY <2>5 DEF UseInv, StatusInv, Sound
    <3>2. loc.names # None
      BY <2>3, NamesAssumption
    <3>3. Lifecycle!Supersede(loc.names)
      BY <1>1, <1>2, <2>2, <2>3, <2>5, <3>1, <3>2 DEF Lifecycle!Supersede, Lifecycle!Parts, RefsOf
    <3> QED
      BY <2>3, <3>3 DEF Lifecycle!LifecycleNext, Lifecycle!Pairs, Names
  <2> QED
    BY <2>1, <2>4, <2>5 DEF HashChanged
<1>6. CASE pc \in {"degrade", "progress", "finish"}
  <2>1. /\ loc.status.current = loc.names /\ ~HashChanged(claim.status, loc.names)
        /\ loc.status.pending = claim.status.pending
    BY <1>6 DEF Tracks, CleanupPcs, SweepPcs
  <2>2. claim.status.pending # {} /\ claim.status.current # None
    BY <1>6, <2>1 DEF UseInv, StatusInv, Sound, LocalSound, CleanupPcs, SweepPcs
  <2>3. loc.status.current = claim.status.current
    BY <2>1, <2>2 DEF HashChanged
  <2>4. CASE pc \in {"degrade", "progress"}
    <3>1. Written.current = loc.status.current /\ Written.pending = loc.status.pending
      BY <2>4 DEF Written, DegradedStatus, UpdatingStatus, Status
    <3> QED
      BY <1>1, <2>1, <2>3, <3>1, BuildStep
  <2>5. CASE pc = "finish"
    <3>1. Written.current = loc.status.current /\ Written.pending = loc.still
      BY <2>5 DEF Written, CleanedUpStatus, RolloutCompleteStatus, Status
    <3>2. loc.still \subseteq claim.status.pending
      BY <2>1, <2>5 DEF UseInv, StatusInv, LocalSound, SweepPcs
    <3>3. \A ref \in claim.status.pending \ loc.still : ref \notin templates
      BY <2>1, <2>5, NamesAssumption DEF TrackInv, SweptGone, SweepPcs, Status
    <3>4. Lifecycle!Retire(claim.status.pending \ loc.still)
      BY <1>1, <1>2, <2>3, <3>1, <3>2, <3>3 DEF Lifecycle!Retire
    <3>5. claim.status.pending \ loc.still \in SUBSET (Bmts \cup Kcts)
      BY DEF Claims, Status, Refs
    <3> QED
      BY <3>4, <3>5 DEF Lifecycle!LifecycleNext
  <2> QED
    BY <1>6, <2>4, <2>5
<1> QED
  BY <1>1, <1>3, <1>4, <1>5, <1>6 DEF WriteEndPcs

-----------------------------------------------------------------------------
(* Every step                                                              *)

\* Every step of the controller is a step of the life cycle or changes nothing of it.
LEMMA StepIsAbstract ==
    ASSUME Lag = {}, RefineInv, RefineInv', Next
    PROVE  Lifecycle!LifecycleNext
<1> USE DEF RefineInv
<1> /\ TypeOK /\ claim \in Claims /\ loc \in Locals /\ loc.status \in Status /\ md \in MDs
    /\ UseInv' /\ StatusInv /\ CleanInv /\ LifeInv
  BY DEF UseInv, StatusInv, TypeOK, Shapes, Locals, CleanInv
<1> Tracks
  BY DEF TrackInv
<1>1. CASE WriteStep
  BY <1>1, WriteIsAbstract
<1>2. CASE EnsureBMT \/ EnsureKCT
  <2>1. claim.life # "gone" /\ loc.names \in Names
    BY <1>2 DEF EnsureBMT, EnsureKCT, LifeInv, Lives, ProvisionPcs, RenderedPcs, TypeOK, Assigned
  <2>2. claim' = claim /\ UNCHANGED <<machineSets, md>>
    BY <1>2 DEF EnsureBMT, EnsureKCT
  <2>3. \/ templates' = templates
        \/ templates' = templates \cup {loc.names.bmt}
        \/ templates' = templates \cup {loc.names.kct}
    BY <1>2 DEF EnsureBMT, EnsureKCT
  <2>4. loc.names.bmt \in Refs /\ loc.names.kct \in Refs
    BY <2>1 DEF Names, Refs
  <2> QED
    BY <2>1, <2>2, <2>3, <2>4, BuildStep, CreateStep
<1>3. CASE DeleteOldTemplate
  <2>1. /\ pc = "delete" /\ templates' = templates \ {loc.victim}
        /\ claim' = claim /\ UNCHANGED <<machineSets, md>>
    BY <1>3 DEF DeleteOldTemplate
  <2>2. loc.victim \notin InUse /\ loc.victim \in loc.status.pending
    BY <2>1, VictimUnused DEF InUse
  <2>3. loc.victim \in claim.status.pending /\ loc.victim \in Refs
    BY <2>1, <2>2 DEF Tracks, CleanupPcs, SweepPcs, Status
  <2> QED
    BY <2>1, <2>2, <2>3, DeleteStep
<1>4. CASE DeleteOwnTemplate
  <2>1. pc = "delTemplates" /\ claim' = claim /\ UNCHANGED <<machineSets, md>>
    BY <1>4 DEF DeleteOwnTemplate
  <2>2. md = NoMD /\ machineSets = {} /\ claim.life # "live"
    BY <2>1 DEF CleanInv, LifeInv, Lives, DeletePcs, NoMD
  <2>3. templates' = templates \/ \E ref \in Refs : templates' = templates \ {ref}
    BY <1>4 DEF DeleteOwnTemplate, Locals
  <2> QED
    BY <2>1, <2>2, <2>3, NothingInUse, BuildStep, DeleteStep
<1>5. CASE GarbageCollect
  <2>1. claim.life = "gone" /\ claim' = claim /\ machineSets' = machineSets
    BY <1>5 DEF GarbageCollect
  <2>2. md = NoMD /\ machineSets = {}
    BY <2>1 DEF CleanInv, NoMD
  <2>3. /\ templates' = templates \/ \E ref \in Refs : templates' = templates \ {ref}
        /\ md' = md
    BY <1>5, <2>2 DEF GarbageCollect, TypeOK, Shapes, NoMD
  <2> QED
    BY <2>1, <2>2, <2>3, NothingInUse, BuildStep, DeleteStep
<1>6. CASE SetInitialPhase \/ SetDeletingPhase
  <2>1. /\ pc \in {"initPhase", "delPhase"} /\ templates' = templates
        /\ \E phase \in Phases : claim' = [claim EXCEPT !.status = PhaseStatus(loc.status, phase)]
    BY <1>6 DEF SetInitialPhase, SetDeletingPhase, WriteStatus, Phases, apiVars
  <2>2. /\ claim'.status.pending = loc.status.pending
        /\ claim'.status.current = loc.status.current /\ claim'.life = claim.life
    BY <2>1 DEF PhaseStatus, Claims, Status
  <2>3. /\ loc.status.pending = claim.status.pending
        /\ loc.status.current = claim.status.current
    BY <2>1 DEF Tracks, CleanupPcs, SweepPcs
  <2> QED
    BY <2>1, <2>2, <2>3, BuildStep
<1>7. CASE AddFinalizer
  <2>1. templates' = templates /\ claim'.status = claim.status /\ claim'.life = claim.life
    BY <1>7 DEF AddFinalizer, Claims, apiVars
  <2> QED
    BY <2>1, BuildStep
<1>8. CASE RemoveFinalizer
  <2>1. /\ pc = "unfinalize" /\ fresh /\ UNCHANGED <<templates, md, machineSets>>
        /\ claim'.status = claim.status /\ claim'.life = "gone"
    BY <1>8 DEF RemoveFinalizer, Claims, apiVars
  <2>2. claim.life = "deleting"
    BY <2>1 DEF LifeInv, FreshLives, DeletePcs
  <2>3. InUse = {} /\ InUse' = InUse
    BY <2>1, NothingInUse, SameUse DEF CleanInv, NoMD
  <2> QED
    BY <2>1, <2>2, <2>3 DEF Lifecycle!LifecycleNext, Lifecycle!Close
<1>9. CASE DeleteClaim
  <2>1. /\ claim.life = "live" /\ claim'.status = claim.status
        /\ claim'.life = (IF claim.finalizer THEN "deleting" ELSE "gone")
        /\ UNCHANGED <<templates, md, machineSets>>
    BY <1>9 DEF DeleteClaim, UserWrite, Claims, apiVars
  <2>2. ~claim.finalizer => templates = {}
    BY <2>1 DEF LifeInv, FinalizerFirst
  <2>3. InUse' = InUse
    BY <2>1, SameUse
  <2> QED
    BY <2>1, <2>2, <2>3 DEF Lifecycle!LifecycleNext, Lifecycle!Close
<1>10. CASE \/ \E s \in Specs : EditSpec(s)
            \/ TogglePaused
            \/ \E t \in Tmpls : EditTemplate(t)
  <2>1. templates' = templates /\ claim'.status = claim.status /\ claim'.life = claim.life
    BY <1>10 DEF EditSpec, TogglePaused, EditTemplate, UserWrite, Claims, apiVars
  <2> QED
    BY <2>1, BuildStep
<1>11. CASE Sync
  BY <1>11, SyncSteps, BuildStep
<1>12. CASE TimeoutExpires \/ Capi
  <2>1. claim' = claim /\ templates' = templates
    BY <1>12 DEF TimeoutExpires, Capi, CapiCreateMachineSet, CapiStartRollout,
                 CapiFinishRollout, CapiDeleteMachineSet, CapiDeleteMD, MDWrite, MSWrite, apiVars
  <2> QED
    BY <2>1, BuildStep
<1>13. CASE Begin \/ Conflict \/ RenderTemplates \/ EnsureMachineDeployment
            \/ EnsureMachineHealthCheck \/ TrackRollout \/ CheckOldTemplate \/ LoopDone
            \/ DeleteMachineHealthCheck \/ DeleteMachineDeployment \/ OwnTemplatesDone \/ Fault
  <2>1. claim' = claim /\ templates' = templates
    BY <1>13 DEF Begin, Conflict, RenderTemplates, EnsureMachineDeployment,
         EnsureMachineHealthCheck, TrackRollout, CheckOldTemplate, LoopDone,
         DeleteMachineHealthCheck, DeleteMachineDeployment, OwnTemplatesDone, Fault, Abort,
         TemplateUnreadable, OldTemplateKept, apiVars
  <2> QED
    BY <2>1, BuildStep
<1> QED
  BY <1>1, <1>2, <1>3, <1>4, <1>5, <1>6, <1>7, <1>8, <1>9, <1>10, <1>11, <1>12, <1>13
     DEF Next, ReconcileStep, WriteStep, User

\* With caches that are up to date the controller, its faults, the users, Cluster
\* API and the garbage collector together do to the templates only what
\* TemplateLifecycle allows, step by step.
THEOREM TemplateLifecycleImplemented == Lag = {} => (Spec => ImplementsLifecycle)
<1> SUFFICES ASSUME Lag = {} PROVE Spec => Lifecycle!LifecycleSpec
  BY DEF ImplementsLifecycle
<1>1. Init => Lifecycle!LifecycleInit
  <2> SUFFICES ASSUME Init PROVE Lifecycle!LifecycleInit
    OBVIOUS
  <2>1. InUse = {}
    BY NothingInUse DEF Init
  <2> QED
    BY <2>1 DEF Init, Lifecycle!LifecycleInit, NoStatus
<1>2. Init => RefineInv
  BY UseInit, TrackInit DEF RefineInv
<1>3. RefineInv /\ [Next]_vars => RefineInv'
  BY RefineInductive
<1>4. RefineInv /\ RefineInv' /\ [Next]_vars => [Lifecycle!LifecycleNext]_(Lifecycle!lifecycleVars)
  <2>1. UNCHANGED vars => UNCHANGED Lifecycle!lifecycleVars
    BY DEF vars, Lifecycle!lifecycleVars, InUse
  <2> QED
    BY <2>1, StepIsAbstract
<1> QED
  BY <1>1, <1>2, <1>3, <1>4, PTL DEF Spec, Lifecycle!LifecycleSpec
=============================================================================
