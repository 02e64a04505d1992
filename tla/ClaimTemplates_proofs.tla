------------------------ MODULE ClaimTemplates_proofs ------------------------
(***************************************************************************)
(* Proofs about the objects of ClaimController: the order of creation and  *)
(* deletion, and what happens to the templates.                            *)
(***************************************************************************)
EXTENDS ClaimController_proofs

-----------------------------------------------------------------------------
(* Invariants                                                              *)

\* Locations a claim with a finalizer is taken to, and those of a deletion.
ProvisionPcs == RenderedPcs \cup {"render", "fail"}
DeletePcs    == {"delPhase", "delMHC", "delMD", "delTemplates", "unfinalize"}

\* The claim as the cache shows it may be provisioned.
CachedOpen == cache.claim.life = "live" /\ cache.claim.finalizer

\* The life of the claim against what the cache and a running reconcile hold of
\* it, for every lag: a reconcile that creates objects works for a claim that
\* still has its finalizer, and a copy that is fresh is of the right life.
Lives ==
    /\ claim.life = "deleting" => claim.finalizer
    /\ "claim" \notin Lag => ~cache.claim.finalizer
    /\ cache.claim.life # "live" => claim.life # "live"
    /\ CachedOpen => claim.finalizer /\ claim.life # "gone"
    /\ pc \in ProvisionPcs => claim.finalizer /\ claim.life # "gone"
    /\ pc \in DeletePcs => claim.life # "live" /\ ~CachedOpen

FreshLives ==
    fresh => /\ pc # "idle"
             /\ claim.life = (IF pc \in DeletePcs THEN "deleting" ELSE "live")
             /\ pc \notin DeletePcs => loc.status.phase # "Deleting"

DeletingPhase == claim.status.phase = "Deleting" => claim.life # "live"

LifeInv == TypeOK /\ Lives /\ FreshLives /\ DeletingPhase /\ FinalizerFirst

\* What reconcileDelete has achieved at its locations; it is told by the cache
\* that the MD is gone.
CleanInv ==
    /\ LifeInv
    /\ md.state = "absent" => machineSets = {}
    /\ pc \in {"delMD", "delTemplates", "unfinalize"} => mhc = None
    /\ pc \in {"delTemplates", "unfinalize"} => md = NoMD
    /\ claim.life = "gone" => md = NoMD /\ mhc = None

\* The reconciler's copy of the bookkeeping, location by location, against the
\* stored one.
Tracks ==
    LET st == loc.status
    IN  /\ pc = "mhc" =>
             /\ st.current = claim.status.current
             /\ st.pending = Superseded(claim.status, loc.names)
        /\ pc = "start" =>
             /\ st.current = loc.names
             /\ HashChanged(claim.status, loc.names)
             /\ st.pending = Superseded(claim.status, loc.names)
        /\ pc \in CleanupPcs \cup {"ready"} =>
             /\ st.current = loc.names
             /\ ~HashChanged(claim.status, loc.names)
             /\ st.pending = claim.status.pending
        /\ pc \notin CleanupPcs \cup {"idle", "mhc", "start", "ready"} =>
             /\ st.current = claim.status.current
             /\ st.pending = claim.status.pending

\* Of what completeRollout has taken up, all is gone that is not left to do.
SweptGone ==
    /\ pc \in SweepPcs =>
         \A ref \in loc.status.pending :
             ref \in loc.todo \cup loc.still \cup {loc.victim} \/ ref \notin templates
    /\ pc = "finish" => loc.todo = {}
    /\ pc # "delete" => loc.victim = None

\* A copy of the claim tracks it while it is fresh, and always when it was read
\* from the API server: nobody but the reconciler writes the status.
TrackInv ==
    /\ StatusInv
    /\ (fresh \/ "claim" \notin Lag) => Tracks
    /\ SweptGone

\* The templates at each location, and why the one about to be deleted is not
\* in use: the MD is on the names just rendered, which are not superseded.
AppliedPcs == {"mhc", "start", "ready"} \cup CleanupPcs

UsedExist ==
    /\ \A ms \in machineSets : RefsOf(ms) \subseteq templates
    /\ RefsOf(md.names) \subseteq templates

RolloutUse ==
    /\ pc = "kct" => loc.names.bmt \in templates
    /\ pc \in {"md"} \cup AppliedPcs => RefsOf(loc.names) \subseteq templates
    /\ pc \in AppliedPcs => md.names \in {loc.names, None}
    /\ pc \in CleanupPcs => loc.status.current = loc.names
    /\ pc = "delete" => \A ms \in machineSets : loc.victim \notin RefsOf(ms)

UseInv == StatusInv /\ CleanInv /\ UsedExist /\ RolloutUse

-----------------------------------------------------------------------------
(* Steps that leave the stored claim alone                                 *)

\* A reconcile ends, or goes on with the copy it has.
Ended   == pc' = "idle" /\ loc' = NoLocal /\ fresh' = FALSE
Carries == fresh' = fresh /\ loc'.spec = loc.spec /\ loc'.status.phase = loc.status.phase

WalkStep ==
    \/ Conflict \/ Abort \/ RenderTemplates \/ TemplateUnreadable \/ EnsureBMT \/ EnsureKCT
    \/ EnsureMachineDeployment \/ EnsureMachineHealthCheck \/ TrackRollout
    \/ CheckOldTemplate \/ DeleteOldTemplate \/ OldTemplateKept \/ LoopDone
    \/ DeleteMachineHealthCheck \/ DeleteMachineDeployment \/ DeleteOwnTemplate
    \/ OwnTemplatesDone

\* A step of a reconcile that does not write the claim leaves it alone, and the
\* reconcile stays with the creation or with the deletion of objects.
LEMMA Walk ==
    ASSUME TypeOK, WalkStep
    PROVE  /\ claim' = claim /\ cache' = cache
           /\ \/ Ended
              \/ /\ Carries
                 /\ \/ pc \in ProvisionPcs /\ pc' \in ProvisionPcs
                    \/ pc \in DeletePcs /\ pc' \in DeletePcs
<1> USE DEF Ended, Carries, ProvisionPcs, RenderedPcs, DeletePcs
<1> loc \in Locals /\ loc.status \in Status
  BY DEF TypeOK, Shapes, Locals
<1>1. CASE Conflict \/ Abort
  BY <1>1 DEF Conflict, Abort, Retry, Done
<1>2. CASE RenderTemplates
  BY <1>2 DEF RenderTemplates, Goto, Locals
<1>3. CASE TemplateUnreadable \/ EnsureBMT \/ EnsureKCT \/ LoopDone \/ OwnTemplatesDone
           \/ DeleteMachineHealthCheck
  BY <1>3 DEF TemplateUnreadable, EnsureBMT, EnsureKCT, LoopDone, OwnTemplatesDone,
              DeleteMachineHealthCheck, Goto
<1>4. CASE EnsureMachineDeployment
  <2>1. \/ Retry
        \/ /\ loc' = [loc EXCEPT !.status.pending = Superseded(loc.status, loc.names)]
           /\ pc' = "mhc" /\ fresh' = fresh
    BY <1>4 DEF EnsureMachineDeployment
  <2>2. pc = "md" /\ claim' = claim /\ cache' = cache
    BY <1>4 DEF EnsureMachineDeployment
  <2> QED
    BY <2>1, <2>2 DEF Retry, Done, Locals, Status
<1>5. CASE EnsureMachineHealthCheck
  <2>1. pc = "mhc" /\ pc' \in {"start", "track", "ready"}
    BY <1>5 DEF EnsureMachineHealthCheck
  <2>2. /\ claim' = claim /\ cache' = cache /\ fresh' = fresh
        /\ loc'.spec = loc.spec /\ loc'.status.phase = loc.status.phase
    BY <1>5 DEF EnsureMachineHealthCheck, AppliedStatus, Locals, Status
  <2> QED
    BY <2>1, <2>2
<1>6. CASE TrackRollout
  <2>1. \/ Retry
        \/ /\ pc' \in {"sweep", "degrade", "progress"} /\ fresh' = fresh
           /\ loc' \in {loc, [loc EXCEPT !.todo = loc.status.pending]}
    BY <1>6, SeenType DEF TrackRollout, Goto, MDs
  <2>2. pc = "track" /\ claim' = claim /\ cache' = cache
    BY <1>6 DEF TrackRollout
  <2> QED
    BY <2>1, <2>2 DEF Retry, Done, Locals
<1>7. CASE CheckOldTemplate
  <2>1. /\ pc = "sweep" /\ pc' \in {"sweep", "delete"} /\ fresh' = fresh
        /\ claim' = claim /\ cache' = cache
    BY <1>7 DEF CheckOldTemplate, Goto
  <2>2. loc'.spec = loc.spec /\ loc'.status = loc.status
    BY <1>7 DEF CheckOldTemplate, Locals
  <2> QED
    BY <2>1, <2>2
<1>8. CASE DeleteOldTemplate
  BY <1>8 DEF DeleteOldTemplate, Goto, Locals
<1>9. CASE OldTemplateKept
  <2>1. /\ pc \in {"sweep", "delete"} /\ pc' = "sweep" /\ fresh' = fresh
        /\ claim' = claim /\ cache' = cache
    BY <1>9 DEF OldTemplateKept, Goto
  <2>2. loc'.spec = loc.spec /\ loc'.status = loc.status
    BY <1>9 DEF OldTemplateKept, Locals
  <2> QED
    BY <2>1, <2>2
<1>10. CASE DeleteMachineDeployment
  <2>1. \/ Retry
        \/ /\ pc' = "delTemplates" /\ fresh' = fresh
           /\ loc' = [loc EXCEPT !.todo = RefsOf(loc.status.current) \cup loc.status.pending]
    BY <1>10 DEF DeleteMachineDeployment, Goto
  <2>2. pc = "delMD" /\ claim' = claim /\ cache' = cache
    BY <1>10 DEF DeleteMachineDeployment
  <2> QED
    BY <2>1, <2>2 DEF Retry, Done, Locals
<1>11. CASE DeleteOwnTemplate
  <2>1. /\ pc = "delTemplates" /\ pc' = "delTemplates" /\ fresh' = fresh
        /\ claim' = claim /\ cache' = cache
    BY <1>11 DEF DeleteOwnTemplate, Goto
  <2>2. loc'.spec = loc.spec /\ loc'.status = loc.status
    BY <1>11 DEF DeleteOwnTemplate, Locals
  <2> QED
    BY <2>1, <2>2
<1> QED
  BY <1>1, <1>2, <1>3, <1>4, <1>5, <1>6, <1>7, <1>8, <1>9, <1>10, <1>11 DEF WalkStep

\* A status write that ends the reconcile, with the location it is done at.
WriteStep ==
    \/ ReconcilePaused \/ SetFailed \/ StartRollout \/ SetReady \/ SetDegraded
    \/ SetUpdating \/ CompleteRollout

\* The status each of them writes.
Written ==
    CASE pc = "pause"    -> PausedStatus(loc.status)
      [] pc = "fail"     -> FailedStatus(loc.status)
      [] pc = "start"    -> RolloutStartedStatus(loc.status)
      [] pc = "ready"    -> ReadyStatus(loc.status)
      [] pc = "degrade"  -> DegradedStatus(loc.status)
      [] pc = "progress" -> UpdatingStatus(loc.status)
      [] pc = "finish"   -> CleanedUpStatus(loc.status, loc.still)

WriteEndPcs == {"pause", "fail", "start", "ready", "degrade", "progress", "finish"}

\* Such a step needs a fresh copy and changes nothing of the claim but the status.
LEMMA WriteEnd ==
    ASSUME TypeOK, WriteStep
    PROVE  /\ pc \in WriteEndPcs /\ fresh /\ Ended
           /\ claim' = [claim EXCEPT !.status = Written]
           /\ Written \in Status
           /\ UNCHANGED <<tmpl, templates, md, machineSets, mhc, cache, edits, faults>>
<1> USE DEF WriteEndPcs, Ended, WriteStatusAndEnd, WriteStatus, Done, apiVars, Written
<1> loc.status \in Status /\ loc.still \in SUBSET Refs
  BY DEF TypeOK, Shapes, Locals
<1>1. CASE ReconcilePaused
  BY <1>1, StatusTypes DEF ReconcilePaused, Phases
<1>2. CASE SetFailed
  BY <1>2, StatusTypes DEF SetFailed, Phases
<1>3. CASE StartRollout
  BY <1>3, StatusTypes DEF StartRollout, Phases
<1>4. CASE SetReady
  BY <1>4, StatusTypes DEF SetReady, Phases
<1>5. CASE SetDegraded
  BY <1>5, StatusTypes DEF SetDegraded, Phases
<1>6. CASE SetUpdating
  BY <1>6, StatusTypes DEF SetUpdating, Phases
<1>7. CASE CompleteRollout
  BY <1>7, StatusTypes DEF CompleteRollout, Phases
<1> QED
  BY <1>1, <1>2, <1>3, <1>4, <1>5, <1>6, <1>7 DEF WriteStep

-----------------------------------------------------------------------------
(* The life of the claim                                                   *)

\* Users never touch the status, and only set the claim's life forward.
LEMMA UserSteps ==
    ASSUME TypeOK, User
    PROVE  /\ claim' \in Claims
           /\ claim'.status = claim.status /\ claim'.finalizer = claim.finalizer
           /\ \/ claim'.life = claim.life
              \/ claim.life = "live" /\ claim'.life = IF claim.finalizer THEN "deleting" ELSE "gone"
           /\ UNCHANGED <<templates, md, machineSets, mhc, cache, pc, loc, faults>>
           /\ fresh' => fresh /\ claim' = claim
<1> claim \in Claims
  BY DEF TypeOK, Shapes
<1>1. CASE \E s \in Specs : EditSpec(s)
  BY <1>1 DEF EditSpec, UserWrite, Claims, apiVars
<1>2. CASE TogglePaused
  BY <1>2 DEF TogglePaused, UserWrite, Claims, apiVars
<1>3. CASE DeleteClaim
  BY <1>3 DEF DeleteClaim, UserWrite, Claims, apiVars
<1>4. CASE \E t \in Tmpls : EditTemplate(t)
  BY <1>4 DEF EditTemplate
<1> QED
  BY <1>1, <1>2, <1>3, <1>4 DEF User

\* Everybody else leaves the claim and the reconcile alone.
LEMMA EnvironmentSteps ==
    ASSUME TypeOK, TimeoutExpires \/ Capi \/ GarbageCollect
    PROVE  UNCHANGED <<claim, tmpl, cache, pc, loc, fresh, edits, faults>>
BY DEF TimeoutExpires, Capi, GarbageCollect, CapiCreateMachineSet, CapiStartRollout,
       CapiFinishRollout, CapiDeleteMachineSet, CapiDeleteMD, MDWrite, MSWrite, reconVars, apiVars

\* An informer catches up with one object.
LEMMA SyncSteps ==
    ASSUME TypeOK, Sync
    PROVE  /\ UNCHANGED <<claim, tmpl, templates, md, machineSets, mhc, pc, loc, fresh, edits, faults>>
           /\ \/ "claim" \in Lag /\ cache'.claim = claim
              \/ cache'.claim = cache.claim
BY DEF Sync, SyncClaim, SyncMD, SyncMS, SyncKCT, userVars, reconVars, TypeOK, Shapes

\* A claim is created alive, without finalizer and without objects.
LEMMA LifeInit == Init => LifeInv
<1> SUFFICES ASSUME Init PROVE LifeInv
  OBVIOUS
<1>1. TypeOK
  BY TypeInit
<1>2. /\ claim.life = "live" /\ ~claim.finalizer /\ claim.status = NoStatus
      /\ cache.claim = claim /\ pc = "idle" /\ ~fresh
      /\ templates = {} /\ md = NoMD /\ mhc = None
  BY DEF Init
<1> QED
  BY <1>1, <1>2 DEF LifeInv, Lives, FreshLives, DeletingPhase, FinalizerFirst, CachedOpen,
                    ProvisionPcs, RenderedPcs, DeletePcs, NoStatus

\* Where Reconcile takes a claim says what life it has.
LEMMA RouteLife ==
    ASSUME NEW c \in Claims
    PROVE  /\ Route(c) \in ProvisionPcs => c.life = "live" /\ c.finalizer
           /\ Route(c) \in DeletePcs => c.life = "deleting" /\ c.finalizer
           /\ Route(c) \notin DeletePcs \cup {"idle"} => c.life = "live"
BY DEF Route, Claims, ProvisionPcs, RenderedPcs, DeletePcs

\* Every action keeps the life of the claim and the finalizer in order.
LEMMA LifeStep ==
    ASSUME LifeInv, Next, TypeOK'
    PROVE  LifeInv'
<1> USE DEF LifeInv
<1> claim \in Claims /\ claim' \in Claims /\ cache.claim \in Claims /\ cache'.claim \in Claims
    /\ loc \in Locals /\ loc.status \in Status
  BY DEF TypeOK, Shapes, Locals
<1> SUFFICES Lives' /\ FreshLives' /\ DeletingPhase' /\ FinalizerFirst'
  OBVIOUS
<1>1. CASE WalkStep
  <2>1. claim' = claim /\ cache' = cache
    BY <1>1, Walk
  <2>2. CASE Ended
    <3>1. Lives' /\ FreshLives' /\ DeletingPhase'
      BY <2>1, <2>2 DEF Ended, Lives, FreshLives, DeletingPhase, CachedOpen, ProvisionPcs,
                        RenderedPcs, DeletePcs
    <3>2. pc \in ProvisionPcs \cup DeletePcs \/ UNCHANGED <<templates, md, mhc>>
      BY <1>1 DEF WalkStep, Conflict, Abort, RenderTemplates, TemplateUnreadable, EnsureBMT,
            EnsureKCT, EnsureMachineDeployment, EnsureMachineHealthCheck, TrackRollout,
            CheckOldTemplate, DeleteOldTemplate, OldTemplateKept, LoopDone,
            DeleteMachineHealthCheck, DeleteMachineDeployment, DeleteOwnTemplate,
            OwnTemplatesDone, apiVars, ProvisionPcs, RenderedPcs, DeletePcs
    <3> QED
      BY <2>1, <3>1, <3>2 DEF Lives, FinalizerFirst, Claims
  <2>3. CASE Carries /\ pc \in ProvisionPcs /\ pc' \in ProvisionPcs
    BY <2>1, <2>3 DEF Carries, Lives, FreshLives, DeletingPhase, FinalizerFirst, CachedOpen,
                      ProvisionPcs, RenderedPcs, DeletePcs
  <2>4. CASE Carries /\ pc \in DeletePcs /\ pc' \in DeletePcs
    BY <2>1, <2>4 DEF Carries, Lives, FreshLives, DeletingPhase, FinalizerFirst, CachedOpen,
                      ProvisionPcs, RenderedPcs, DeletePcs, Claims
  <2> QED
    BY <1>1, <2>2, <2>3, <2>4, Walk
<1>2. CASE WriteStep
  <2>1. /\ pc \in WriteEndPcs /\ fresh /\ Ended /\ cache' = cache
        /\ claim' = [claim EXCEPT !.status = Written]
        /\ UNCHANGED <<templates, md, mhc>>
    BY <1>2, WriteEnd
  <2>2. Written.phase # "Deleting"
    <3>1. loc.status.phase # "Deleting"
      BY <2>1 DEF FreshLives, WriteEndPcs, DeletePcs
    <3> QED
      BY <2>1, <3>1 DEF Written, WriteEndPcs, Status, PausedStatus, FailedStatus,
             RolloutStartedStatus, ReadyStatus, DegradedStatus, UpdatingStatus, CleanedUpStatus,
             RolloutCompleteStatus
  <2>3. /\ claim'.life = claim.life /\ claim'.finalizer = claim.finalizer
        /\ claim'.status.phase # "Deleting"
    BY <2>1, <2>2 DEF Claims
  <2> QED
    BY <2>1, <2>3 DEF Ended, Lives, FreshLives, DeletingPhase, FinalizerFirst, CachedOpen,
                      ProvisionPcs, RenderedPcs, DeletePcs
<1>3. CASE Begin
  <2>1. /\ claim' = claim /\ cache' = cache /\ pc = "idle" /\ pc' = Route(SeenClaim)
        /\ UNCHANGED <<templates, md, mhc>>
    BY <1>3 DEF Begin, apiVars
  <2>2. SeenClaim \in Claims
    BY SeenType
  <2>3. fresh' => /\ pc' # "idle" /\ SeenClaim = claim
                  /\ loc'.status.phase = claim.status.phase
    <3>1. CASE pc' = "idle"
      BY <1>3, <2>1, <3>1 DEF Begin, FreshLives
    <3>2. CASE pc' # "idle"
      <4>1. fresh' = (SeenClaim = claim) /\ loc'.status = Resumed(SeenClaim)
        BY <1>3, <3>2 DEF Begin, NoLocal
      <4>2. Resumed(SeenClaim).phase = SeenClaim.status.phase
        BY <2>2 DEF Resumed, Claims, Status
      <4> QED
        BY <3>2, <4>1, <4>2
    <3> QED
      BY <3>1, <3>2
  <2>4. Lives'
    <3>1. CASE "claim" \in Lag
      BY <2>1, <2>2, <3>1, RouteLife DEF Lives, CachedOpen, SeenClaim, Seen
    <3>2. CASE "claim" \notin Lag
      BY <2>1, <2>2, <3>2, RouteLife DEF Lives, CachedOpen, SeenClaim, Seen
    <3> QED
      BY <3>1, <3>2
  <2>5. FreshLives'
    BY <2>1, <2>2, <2>3, RouteLife DEF FreshLives, DeletingPhase
  <2> QED
    BY <2>1, <2>4, <2>5 DEF DeletingPhase, FinalizerFirst
<1>4. CASE SetInitialPhase
  <2>1. /\ pc = "initPhase" /\ fresh /\ pc' = "addFinalizer" /\ fresh' = fresh /\ cache' = cache
        /\ claim'.life = claim.life /\ claim'.finalizer = claim.finalizer
        /\ claim'.status.phase = "Provisioning" /\ loc'.status.phase = "Provisioning"
        /\ UNCHANGED <<templates, md, mhc>>
    BY <1>4 DEF SetInitialPhase, WriteStatus, PhaseStatus, Claims, Locals, Status, apiVars
  <2> QED
    BY <2>1 DEF Lives, FreshLives, DeletingPhase, FinalizerFirst, CachedOpen, ProvisionPcs,
                RenderedPcs, DeletePcs
<1>5. CASE AddFinalizer
  <2>1. /\ pc = "addFinalizer" /\ fresh /\ pc' = "render" /\ fresh' = fresh /\ cache' = cache
        /\ claim'.life = claim.life /\ claim'.finalizer
        /\ claim'.status = claim.status /\ loc'.status = claim.status
        /\ UNCHANGED <<templates, md, mhc>>
    BY <1>5 DEF AddFinalizer, Claims, Locals, apiVars
  <2> QED
    BY <2>1 DEF Lives, FreshLives, DeletingPhase, FinalizerFirst, CachedOpen, ProvisionPcs,
                RenderedPcs, DeletePcs
<1>6. CASE SetDeletingPhase
  <2>1. /\ pc = "delPhase" /\ fresh /\ pc' = "delMHC" /\ fresh' = fresh /\ cache' = cache
        /\ claim'.life = claim.life /\ claim'.finalizer = claim.finalizer
        /\ UNCHANGED <<templates, md, mhc>>
    BY <1>6 DEF SetDeletingPhase, WriteStatus, Claims, apiVars
  <2> QED
    BY <2>1 DEF Lives, FreshLives, DeletingPhase, FinalizerFirst, CachedOpen, ProvisionPcs,
                RenderedPcs, DeletePcs
<1>7. CASE RemoveFinalizer
  <2>1. /\ pc = "unfinalize" /\ fresh /\ Ended /\ cache' = cache
        /\ claim'.life = "gone" /\ ~claim'.finalizer
        /\ UNCHANGED <<templates, md, mhc>>
    BY <1>7 DEF RemoveFinalizer, Done, Ended, Claims, apiVars
  <2> QED
    BY <2>1 DEF Ended, Lives, FreshLives, DeletingPhase, FinalizerFirst, CachedOpen,
                ProvisionPcs, RenderedPcs, DeletePcs
<1>8. CASE User
  <2>1. Lives' /\ DeletingPhase' /\ FinalizerFirst'
    BY <1>8, UserSteps DEF Lives, DeletingPhase, FinalizerFirst, CachedOpen, Claims
  <2>2. FreshLives'
    BY <1>8, UserSteps DEF FreshLives
  <2> QED
    BY <2>1, <2>2
<1>9. CASE Sync
  <2>1. Lives'
    BY <1>9, SyncSteps DEF Lives, CachedOpen, Claims
  <2> QED
    BY <1>9, <2>1, SyncSteps DEF FreshLives, DeletingPhase, FinalizerFirst
<1>10. CASE TimeoutExpires \/ Capi \/ GarbageCollect
  <2>1. UNCHANGED <<claim, cache, pc, loc, fresh>>
    BY <1>10, EnvironmentSteps
  <2>2. CASE GarbageCollect
    BY <2>1, <2>2 DEF GarbageCollect, Lives, FreshLives, DeletingPhase, FinalizerFirst,
                      CachedOpen
  <2>3. CASE TimeoutExpires \/ Capi
    <3>1. UNCHANGED <<templates, mhc>>
      BY <2>3 DEF TimeoutExpires, Capi, CapiCreateMachineSet, CapiStartRollout,
                  CapiFinishRollout, CapiDeleteMachineSet, CapiDeleteMD, MDWrite, MSWrite,
                  apiVars
    <3>2. md' = md \/ md.state \in {"live", "deleting"}
      BY <2>3 DEF TimeoutExpires, Capi, CapiCreateMachineSet, CapiStartRollout,
                  CapiFinishRollout, CapiDeleteMachineSet, CapiDeleteMD, MDWrite, MSWrite,
                  apiVars
    <3>3. md = NoMD => md' = NoMD
      BY <3>2 DEF NoMD
    <3> QED
      BY <2>1, <3>1, <3>3 DEF Lives, FreshLives, DeletingPhase, FinalizerFirst, CachedOpen
  <2> QED
    BY <1>10, <2>2, <2>3
<1> QED
  BY <1>1, <1>2, <1>3, <1>4, <1>5, <1>6, <1>7, <1>8, <1>9, <1>10
  DEF Next, ReconcileStep, Fault, WalkStep, WriteStep

\* No step leaves LifeInv.
LEMMA LifeInductive == LifeInv /\ [Next]_vars => LifeInv'
<1>1. LifeInv /\ UNCHANGED vars => LifeInv'
  BY TypeInductive DEF LifeInv, Lives, FreshLives, DeletingPhase, FinalizerFirst, CachedOpen, vars
<1> QED
  BY <1>1, LifeStep, TypeInductive DEF LifeInv

\* ensureFinalizer comes before the first object: whatever lags, fails or is
\* interrupted, no template, MachineDeployment or MachineHealthCheck exists for
\* a claim that could disappear without its clean-up.
THEOREM FinalizerComesFirst == Spec => []FinalizerFirst
<1>1. LifeInv => FinalizerFirst
  BY DEF LifeInv
<1> QED
  BY <1>1, LifeInit, LifeInductive, PTL DEF Spec

\* A claim in phase Deleting stays there: a reconcile that read the claim before
\* its deletion has lost the right to write the status.
THEOREM DeletionIsFinal == Spec => DeletingIsFinal
<1>1. LifeInv /\ [Next]_vars =>
          [claim.status.phase = "Deleting" => claim'.status.phase = "Deleting"]_vars
  <2> SUFFICES ASSUME LifeInv, Next, claim.status.phase = "Deleting"
               PROVE  claim'.status.phase = "Deleting"
    BY DEF vars
  <2> USE DEF LifeInv
  <2> claim \in Claims /\ loc \in Locals /\ loc.status \in Status
    BY DEF TypeOK, Shapes, Locals
  <2>1. fresh => pc \in DeletePcs
    BY DEF DeletingPhase, FreshLives
  <2>2. CASE WalkStep
    BY <2>2, Walk
  <2>3. CASE WriteStep
    BY <2>1, <2>3, WriteEnd DEF WriteEndPcs, DeletePcs
  <2>4. CASE Begin \/ AddFinalizer \/ RemoveFinalizer
    BY <2>4 DEF Begin, AddFinalizer, RemoveFinalizer, Claims
  <2>5. CASE SetInitialPhase
    BY <2>1, <2>5 DEF SetInitialPhase, WriteStatus, DeletePcs
  <2>6. CASE SetDeletingPhase
    BY <2>6 DEF SetDeletingPhase, WriteStatus, PhaseStatus, Claims, Status
  <2>7. CASE User
    BY <2>7, UserSteps
  <2>8. CASE Sync
    BY <2>8, SyncSteps
  <2>9. CASE TimeoutExpires \/ Capi \/ GarbageCollect
    BY <2>9, EnvironmentSteps
  <2> QED
    BY <2>2, <2>3, <2>4, <2>5, <2>6, <2>7, <2>8, <2>9
    DEF Next, ReconcileStep, Fault, WalkStep, WriteStep
<1> QED
  BY <1>1, LifeInit, LifeInductive, PTL DEF Spec, DeletingIsFinal

-----------------------------------------------------------------------------
(* The order of a deletion                                                 *)

\* At first there is no MD.
LEMMA CleanInit == Init => CleanInv
<1> SUFFICES ASSUME Init PROVE CleanInv
  OBVIOUS
<1>1. claim.life = "live" /\ pc = "idle" /\ machineSets = {}
  BY DEF Init
<1> QED
  BY <1>1, LifeInit DEF CleanInv

\* The finalizer goes only after the MD, if the reconciler sees the MD as it is.
LEMMA CleanStep ==
    ASSUME "md" \notin Lag, CleanInv, Next, LifeInv'
    PROVE  CleanInv'
<1> USE DEF CleanInv, LifeInv
<1> claim \in Claims /\ md \in MDs /\ md' \in MDs /\ SeenMD = md
    /\ IF md.state = "absent" THEN md = NoMD ELSE md.names \in Names
  BY DEF TypeOK, Shapes, Assigned, SeenMD, Seen
<1>1. CASE Conflict \/ Abort
  BY <1>1, Walk DEF Conflict, Abort, Retry, Done, apiVars, WalkStep
<1>2. CASE RenderTemplates \/ TemplateUnreadable \/ EnsureBMT \/ EnsureKCT \/ TrackRollout
           \/ CheckOldTemplate \/ DeleteOldTemplate \/ OldTemplateKept \/ LoopDone
  <2>1. pc \in ProvisionPcs /\ UNCHANGED <<md, mhc, machineSets>>
    BY <1>2 DEF RenderTemplates, TemplateUnreadable, EnsureBMT, EnsureKCT, TrackRollout,
                CheckOldTemplate, DeleteOldTemplate, OldTemplateKept, LoopDone, apiVars,
                ProvisionPcs, RenderedPcs
  <2>2. claim' = claim /\ pc' \notin DeletePcs
    BY <1>2, <2>1, Walk DEF WalkStep, Ended, ProvisionPcs, RenderedPcs, DeletePcs
  <2> QED
    BY <2>1, <2>2 DEF DeletePcs
<1>3. CASE EnsureMachineDeployment \/ EnsureMachineHealthCheck
  <2>1. /\ pc \in ProvisionPcs /\ machineSets' = machineSets
        /\ md'.state = "absent" => md.state = "absent"
    BY <1>3 DEF EnsureMachineDeployment, EnsureMachineHealthCheck, ProvisionPcs, RenderedPcs,
                BuildMachineDeployment, MDs
  <2>2. claim' = claim /\ pc' \notin DeletePcs /\ claim.life # "gone"
    BY <1>3, <2>1, Walk DEF WalkStep, Ended, ProvisionPcs, RenderedPcs, DeletePcs, Lives
  <2> QED
    BY <2>1, <2>2 DEF DeletePcs
<1>4. CASE DeleteMachineHealthCheck
  BY <1>4 DEF DeleteMachineHealthCheck
<1>5. CASE DeleteMachineDeployment
  <2>1. CASE md.state = "absent"
    BY <1>5, <2>1 DEF DeleteMachineDeployment, Goto
  <2>2. CASE md.state # "absent"
    <3>1. /\ pc' = "idle" /\ UNCHANGED <<claim, machineSets, mhc>>
          /\ md'.state = "deleting"
      BY <1>5, <2>2 DEF DeleteMachineDeployment, Retry, Done, MDs
    <3> QED
      BY <2>2, <3>1 DEF NoMD
  <2> QED
    BY <2>1, <2>2
<1>6. CASE DeleteOwnTemplate \/ OwnTemplatesDone
  BY <1>6 DEF DeleteOwnTemplate, OwnTemplatesDone, Goto, apiVars
<1>7. CASE WriteStep
  BY <1>7, WriteEnd DEF Ended, Claims
<1>8. CASE Begin
  <2>1. /\ claim' = claim /\ UNCHANGED <<md, mhc, machineSets>>
        /\ pc' \notin {"delMD", "delTemplates", "unfinalize"}
    BY <1>8, SeenType, RouteType DEF Begin, apiVars
  <2> QED
    BY <2>1
<1>9. CASE SetInitialPhase \/ AddFinalizer \/ SetDeletingPhase
  BY <1>9 DEF SetInitialPhase, AddFinalizer, SetDeletingPhase, WriteStatus, Claims, apiVars
<1>10. CASE RemoveFinalizer
  BY <1>10 DEF RemoveFinalizer, Done, apiVars
<1>11. CASE User
  <2>1. claim'.life = "gone" => md = NoMD /\ mhc = None
    BY <1>11, UserSteps DEF FinalizerFirst
  <2> QED
    BY <1>11, <2>1, UserSteps
<1>12. CASE Sync
  BY <1>12, SyncSteps
<1>13. CASE TimeoutExpires
  BY <1>13 DEF TimeoutExpires, apiVars, reconVars
<1>14. CASE Capi
  <2>1. UNCHANGED <<claim, pc, mhc>>
    BY <1>14 DEF Capi, CapiCreateMachineSet, CapiStartRollout, CapiFinishRollout,
                 CapiDeleteMachineSet, CapiDeleteMD, MDWrite, MSWrite, reconVars
  <2>2. CASE CapiCreateMachineSet \/ CapiDeleteMachineSet
    <3>1. md' = md /\ (md.state = "absent" => machineSets' = machineSets)
      BY <2>2 DEF CapiCreateMachineSet, CapiDeleteMachineSet, MSWrite
    <3> QED
      BY <2>1, <3>1
  <2>3. CASE CapiStartRollout \/ CapiFinishRollout
    <3>1. machineSets' = machineSets /\ md.state = "live"
      BY <2>3 DEF CapiStartRollout, CapiFinishRollout
    <3>2. md'.state = md.state
      BY <2>3 DEF CapiStartRollout, CapiFinishRollout, MDWrite, MDs
    <3>3. md # NoMD
      BY <3>1 DEF NoMD
    <3> QED
      BY <2>1, <3>1, <3>2, <3>3
  <2>4. CASE CapiDeleteMD
    BY <2>1, <2>4 DEF CapiDeleteMD, MDWrite
  <2> QED
    BY <1>14, <2>2, <2>3, <2>4 DEF Capi
<1>15. CASE GarbageCollect
  BY <1>15 DEF GarbageCollect, reconVars, NoMD
<1> QED
  BY <1>1, <1>2, <1>3, <1>4, <1>5, <1>6, <1>7, <1>8, <1>9, <1>10, <1>11, <1>12, <1>13, <1>14,
     <1>15 DEF Next, ReconcileStep, Fault, WriteStep

\* No step leaves CleanInv, if MDs are read without lag.
LEMMA CleanInductive ==
    ASSUME "md" \notin Lag
    PROVE  CleanInv /\ [Next]_vars => CleanInv'
<1>1. CleanInv /\ UNCHANGED vars => CleanInv'
  BY LifeInductive DEF CleanInv, vars
<1> QED
  BY <1>1, CleanStep, LifeInductive DEF CleanInv

\* When reconcileDelete is not misled by an old copy of the MD, the finalizer is
\* released only after the MD, its MachineSets and the MachineHealthCheck are
\* gone, and nothing creates them again for a claim that is gone.
THEOREM DeletionIsClean == "md" \notin Lag => (Spec => []CleanDeletion)
<1> SUFFICES ASSUME "md" \notin Lag PROVE Spec => []CleanDeletion
  OBVIOUS
<1>1. CleanInv => CleanDeletion
  BY DEF CleanInv, CleanDeletion, NoMD
<1>2. CleanInv /\ [Next]_vars => CleanInv'
  BY CleanInductive
<1> QED
  BY <1>1, <1>2, CleanInit, PTL DEF Spec

-----------------------------------------------------------------------------
(* The bookkeeping of a running reconcile                                  *)

\* Locations at which the copy of the bookkeeping is the stored one.
EarlyPcs == Pcs \ (CleanupPcs \cup {"idle", "mhc", "start", "ready"})

\* What is superseded depends on the bookkeeping only.
LEMMA SupersededSame ==
    ASSUME NEW st, NEW old, NEW names, st.current = old.current, st.pending = old.pending
    PROVE  /\ Superseded(st, names) = Superseded(old, names)
           /\ HashChanged(st, names) <=> HashChanged(old, names)
BY DEF Superseded, HashChanged

\* At first no copy of the status is held.
LEMMA TrackInit == Init => TrackInv
<1> SUFFICES ASSUME Init PROVE TrackInv
  OBVIOUS
<1>1. pc = "idle" /\ loc.victim = None
  BY DEF Init, NoLocal
<1>2. StatusInv
  BY StatusInit
<1> QED
  BY <1>1, <1>2 DEF TrackInv, Tracks, SweptGone, CleanupPcs, SweepPcs

\* A step to the start of a reconcile's end forgets the copy.
LEMMA TrackEnded ==
    ASSUME Ended
    PROVE  Tracks' /\ SweptGone'
BY DEF Ended, NoLocal, Tracks, SweptGone, CleanupPcs, SweepPcs

\* A step between locations at which the copy is the stored bookkeeping.
LEMMA TrackEarly ==
    ASSUME TrackInv, pc \in EarlyPcs, pc' \in EarlyPcs, fresh' = fresh,
           claim'.status = claim.status,
           loc'.status.current = loc.status.current, loc'.status.pending = loc.status.pending,
           loc'.victim = loc.victim
    PROVE  ((fresh' \/ "claim" \notin Lag) => Tracks') /\ SweptGone'
<1> USE DEF EarlyPcs, Pcs, WritePcs, CleanupPcs, SweepPcs
<1>1. (fresh' \/ "claim" \notin Lag) => Tracks'
  BY DEF TrackInv, Tracks
<1>2. SweptGone'
  BY DEF TrackInv, SweptGone
<1> QED
  BY <1>1, <1>2

\* Every action keeps the copy in step with the stored status while it can be saved.
LEMMA TrackStep ==
    ASSUME TrackInv, Next, StatusInv'
    PROVE  TrackInv'
<1> USE DEF TrackInv
<1> TypeOK /\ claim \in Claims /\ loc \in Locals /\ loc.status \in Status /\ claim.status \in Status
  BY DEF StatusInv, TypeOK, Shapes, Locals, Claims
<1> SUFFICES ((fresh' \/ "claim" \notin Lag) => Tracks') /\ SweptGone'
  OBVIOUS
<1>1. CASE Conflict \/ Abort
  BY <1>1, TrackEnded DEF Conflict, Abort, Retry, Done, Ended
<1>2. CASE WriteStep \/ RemoveFinalizer
  BY <1>2, TrackEnded, WriteEnd DEF RemoveFinalizer, Done, Ended
<1>3. CASE RenderTemplates
  <2>1. /\ pc = "render" /\ pc' \in {"bmt", "fail"} /\ fresh' = fresh /\ claim' = claim
        /\ loc'.status = loc.status /\ loc'.victim = loc.victim
    BY <1>3 DEF RenderTemplates, Goto, Locals
  <2> QED
    BY <2>1, TrackEarly DEF EarlyPcs, Pcs, WritePcs, CleanupPcs, SweepPcs
<1>4. CASE TemplateUnreadable \/ EnsureBMT \/ EnsureKCT \/ OwnTemplatesDone
           \/ DeleteMachineHealthCheck
  <2>1. /\ pc \in {"render", "bmt", "kct", "delTemplates", "delMHC"}
        /\ pc' \in {"fail", "kct", "md", "unfinalize", "delMD"}
        /\ fresh' = fresh /\ claim' = claim /\ loc' = loc
    BY <1>4 DEF TemplateUnreadable, EnsureBMT, EnsureKCT, OwnTemplatesDone,
                DeleteMachineHealthCheck, Goto
  <2> QED
    BY <2>1, TrackEarly DEF EarlyPcs, Pcs, WritePcs, CleanupPcs, SweepPcs
<1>5. CASE DeleteMachineDeployment
  <2>1. CASE Retry
    BY <2>1, TrackEnded DEF Retry, Done, Ended
  <2>2. CASE ~Retry
    <3>1. /\ pc = "delMD" /\ pc' = "delTemplates" /\ fresh' = fresh /\ claim' = claim
          /\ loc'.status = loc.status /\ loc'.victim = loc.victim
      BY <1>5, <2>2 DEF DeleteMachineDeployment, Goto, Locals
    <3> QED
      BY <3>1, TrackEarly DEF EarlyPcs, Pcs, WritePcs, CleanupPcs, SweepPcs
  <2> QED
    BY <2>1, <2>2
<1>6. CASE DeleteOwnTemplate
  <2>1. /\ pc = "delTemplates" /\ pc' = "delTemplates" /\ fresh' = fresh /\ claim' = claim
        /\ loc'.status = loc.status /\ loc'.victim = loc.victim
    BY <1>6 DEF DeleteOwnTemplate, Goto, Locals
  <2> QED
    BY <2>1, TrackEarly DEF EarlyPcs, Pcs, WritePcs, CleanupPcs, SweepPcs
<1>7. CASE Begin
  <2>1. claim' = claim /\ pc = "idle" /\ pc' = Route(SeenClaim)
    BY <1>7 DEF Begin
  <2>2. SeenClaim \in Claims
    BY SeenType
  <2>3. loc'.victim = None
    BY <1>7, <2>1 DEF Begin, NoLocal, SweptGone
  <2>4. pc' \in EarlyPcs \cup {"idle"}
    BY <2>1, <2>2, RouteType DEF EarlyPcs, Pcs, WritePcs, CleanupPcs, SweepPcs
  <2>5. SweptGone'
    BY <2>3, <2>4 DEF SweptGone, EarlyPcs, CleanupPcs, SweepPcs, Pcs, WritePcs
  <2>6. ASSUME fresh' \/ "claim" \notin Lag, pc' # "idle"
        PROVE  loc'.status.current = claim.status.current /\ loc'.status.pending = claim.status.pending
    <3>1. loc'.status = Resumed(SeenClaim) /\ fresh' = (SeenClaim = claim)
      BY <1>7, <2>6 DEF Begin, NoLocal
    <3>2. SeenClaim = claim
      BY <2>6, <3>1 DEF SeenClaim, Seen
    <3> QED
      BY <2>2, <3>1, <3>2 DEF Resumed, Claims, Status
  <2> QED
    BY <2>1, <2>4, <2>5, <2>6 DEF Tracks, EarlyPcs, CleanupPcs, SweepPcs, Pcs, WritePcs
<1>8. CASE SetInitialPhase \/ SetDeletingPhase
  <2>1. /\ pc \in {"initPhase", "delPhase"} /\ pc' \in {"addFinalizer", "delMHC"} /\ fresh
        /\ loc'.status = claim'.status /\ loc'.victim = loc.victim
    BY <1>8 DEF SetInitialPhase, SetDeletingPhase, WriteStatus, Claims, Locals
  <2> QED
    BY <2>1 DEF Tracks, SweptGone, CleanupPcs, SweepPcs
<1>9. CASE AddFinalizer
  <2>1. /\ pc = "addFinalizer" /\ pc' = "render"
        /\ loc'.status = claim.status /\ claim'.status = claim.status /\ loc'.victim = loc.victim
    BY <1>9 DEF AddFinalizer, Claims, Locals
  <2> QED
    BY <2>1 DEF Tracks, SweptGone, CleanupPcs, SweepPcs
<1>10. CASE EnsureMachineDeployment
  <2>1. CASE Retry
    BY <2>1, TrackEnded DEF Retry, Done, Ended
  <2>2. CASE ~Retry
    <3>1. /\ pc = "md" /\ pc' = "mhc" /\ fresh' = fresh /\ claim' = claim
          /\ loc' = [loc EXCEPT !.status.pending = Superseded(loc.status, loc.names)]
      BY <1>10, <2>2 DEF EnsureMachineDeployment
    <3>2. /\ loc'.status.current = loc.status.current /\ loc'.names = loc.names
          /\ loc'.status.pending = Superseded(loc.status, loc.names) /\ loc'.victim = loc.victim
      BY <3>1 DEF Locals, Status
    <3>3. Tracks => /\ loc.status.current = claim.status.current
                    /\ loc.status.pending = claim.status.pending
      BY <3>1 DEF Tracks, CleanupPcs, SweepPcs
    <3>4. Tracks => Tracks'
      BY <3>1, <3>2, <3>3, SupersededSame DEF Tracks, CleanupPcs, SweepPcs
    <3>5. SweptGone'
      BY <3>1, <3>2 DEF SweptGone, SweepPcs
    <3> QED
      BY <3>1, <3>4, <3>5
  <2> QED
    BY <2>1, <2>2
<1>11. CASE EnsureMachineHealthCheck
  <2>1. pc = "mhc" /\ pc' \in {"start", "track", "ready"} /\ claim' = claim /\ fresh' = fresh
    BY <1>11 DEF EnsureMachineHealthCheck
  <2>2. pc' = "start" <=> HashChanged(loc.status, loc.names)
    BY <1>11, <2>1 DEF EnsureMachineHealthCheck
  <2>3. /\ loc'.status.current = loc.names /\ loc'.names = loc.names
        /\ loc'.status.pending = loc.status.pending /\ loc'.victim = loc.victim
    BY <1>11 DEF EnsureMachineHealthCheck, AppliedStatus, Locals, Status
  <2>4. Tracks => /\ loc.status.current = claim.status.current
                  /\ loc.status.pending = Superseded(claim.status, loc.names)
    BY <2>1 DEF Tracks
  <2>5. Tracks => Tracks'
    <3>1. CASE pc' = "start"
      BY <2>1, <2>2, <2>3, <2>4, <3>1 DEF Tracks, HashChanged, CleanupPcs, SweepPcs
    <3>2. CASE pc' \in {"track", "ready"}
      <4>1. ~HashChanged(loc.status, loc.names)
        BY <2>2, <3>2
      <4> QED
        BY <2>1, <2>3, <2>4, <3>2, <4>1 DEF Tracks, HashChanged, Superseded, CleanupPcs, SweepPcs
    <3> QED
      BY <2>1, <3>1, <3>2
  <2>6. SweptGone'
    BY <2>1, <2>3 DEF SweptGone, SweepPcs
  <2> QED
    BY <2>1, <2>5, <2>6
<1>12. CASE TrackRollout
  <2>1. CASE Retry
    BY <2>1, TrackEnded DEF Retry, Done, Ended
  <2>2. CASE ~Retry
    <3>1. /\ pc = "track" /\ pc' \in {"sweep", "degrade", "progress"}
          /\ fresh' = fresh /\ claim' = claim
          /\ \/ loc' = loc /\ pc' # "sweep"
             \/ loc' = [loc EXCEPT !.todo = loc.status.pending]
      BY <1>12, <2>2, SeenType DEF TrackRollout, Goto, MDs
    <3>2. /\ loc'.status = loc.status /\ loc'.names = loc.names /\ loc'.victim = loc.victim
          /\ pc' = "sweep" => loc'.todo = loc.status.pending
      BY <3>1 DEF Locals
    <3>3. Tracks => Tracks'
      BY <3>1, <3>2 DEF Tracks, CleanupPcs, SweepPcs
    <3>4. SweptGone'
      BY <3>1, <3>2 DEF SweptGone, SweepPcs
    <3> QED
      BY <3>1, <3>3, <3>4
  <2> QED
    BY <2>1, <2>2
<1>13. CASE CheckOldTemplate \/ DeleteOldTemplate \/ OldTemplateKept \/ LoopDone
  <2>1. /\ pc \in SweepPcs /\ pc' \in SweepPcs /\ fresh' = fresh /\ claim' = claim
        /\ loc'.status = loc.status /\ loc'.names = loc.names
    BY <1>13 DEF CheckOldTemplate, DeleteOldTemplate, OldTemplateKept, LoopDone, Goto, SweepPcs,
                 Locals
  <2>2. Tracks => Tracks'
    BY <2>1 DEF Tracks, CleanupPcs, SweepPcs
  <2>3. SweptGone'
    <3>1. CASE CheckOldTemplate
      <4>1. PICK ref \in loc.todo :
              \/ /\ loc' = [loc EXCEPT !.todo = @ \ {ref}, !.still = @ \cup {ref}]
                 /\ pc' = "sweep"
              \/ /\ loc' = [loc EXCEPT !.todo = @ \ {ref}, !.victim = ref]
                 /\ pc' = "delete"
        BY <3>1 DEF CheckOldTemplate, Goto
      <4>2. pc = "sweep" /\ templates' = templates
        BY <3>1 DEF CheckOldTemplate, apiVars
      <4>3. CASE pc' = "sweep"
        <5>1. /\ loc'.todo = loc.todo \ {ref} /\ loc'.still = loc.still \cup {ref}
              /\ loc'.victim = loc.victim
          BY <4>1, <4>3 DEF Locals
        <5> QED
          BY <2>1, <4>2, <4>3, <5>1 DEF SweptGone, SweepPcs
      <4>4. CASE pc' = "delete"
        <5>1. /\ loc'.todo = loc.todo \ {ref} /\ loc'.still = loc.still
              /\ loc'.victim = ref
          BY <4>1, <4>4 DEF Locals
        <5>2. loc.victim = None /\ None \notin loc.status.pending
          BY <4>2, NamesAssumption DEF SweptGone, Status
        <5> QED
          BY <2>1, <4>2, <4>4, <5>1, <5>2 DEF SweptGone, SweepPcs
      <4> QED
        BY <4>1, <4>3, <4>4
    <3>2. CASE DeleteOldTemplate
      <4>1. /\ pc = "delete" /\ pc' = "sweep" /\ templates' = templates \ {loc.victim}
            /\ loc'.todo = loc.todo /\ loc'.still = loc.still /\ loc'.victim = None
        BY <3>2 DEF DeleteOldTemplate, Goto, Locals
      <4> QED
        BY <2>1, <4>1 DEF SweptGone, SweepPcs
    <3>3. CASE OldTemplateKept
      <4>1. pc' = "sweep" /\ templates' = templates
        BY <3>3 DEF OldTemplateKept, Goto, apiVars
      <4>2. CASE pc = "sweep"
        <5>1. PICK ref \in loc.todo :
                loc' = [loc EXCEPT !.todo = @ \ {ref}, !.still = @ \cup {ref}]
          BY <3>3, <4>2 DEF OldTemplateKept
        <5>2. /\ loc'.todo = loc.todo \ {ref} /\ loc'.still = loc.still \cup {ref}
              /\ loc'.victim = loc.victim
          BY <5>1 DEF Locals
        <5> QED
          BY <2>1, <4>1, <4>2, <5>2 DEF SweptGone, SweepPcs
      <4>3. CASE pc = "delete"
        <5>1. loc' = [loc EXCEPT !.victim = None, !.still = @ \cup {loc.victim}]
          BY <3>3, <4>3 DEF OldTemplateKept
        <5>2. /\ loc'.todo = loc.todo /\ loc'.still = loc.still \cup {loc.victim}
              /\ loc'.victim = None
          BY <5>1 DEF Locals
        <5> QED
          BY <2>1, <4>1, <4>3, <5>2 DEF SweptGone, SweepPcs
      <4> QED
        BY <3>3, <4>2, <4>3 DEF OldTemplateKept
    <3>4. CASE LoopDone
      BY <2>1, <3>4 DEF LoopDone, Goto, apiVars, SweptGone, SweepPcs
    <3> QED
      BY <1>13, <3>1, <3>2, <3>3, <3>4
  <2> QED
    BY <2>1, <2>2, <2>3
<1>14. CASE User
  <2>1. /\ claim'.status = claim.status /\ (fresh' => fresh)
        /\ UNCHANGED <<templates, pc, loc>>
    BY <1>14, UserSteps
  <2> QED
    BY <2>1 DEF Tracks, SweptGone
<1>15. CASE Sync
  <2>1. UNCHANGED <<claim, templates, pc, loc, fresh>>
    BY <1>15, SyncSteps
  <2> QED
    BY <2>1 DEF Tracks, SweptGone
<1>16. CASE TimeoutExpires \/ Capi \/ GarbageCollect
  <2>1. UNCHANGED <<claim, pc, loc, fresh>>
    BY <1>16, EnvironmentSteps
  <2>2. templates' \subseteq templates
    BY <1>16 DEF TimeoutExpires, Capi, GarbageCollect, CapiCreateMachineSet, CapiStartRollout,
                 CapiFinishRollout, CapiDeleteMachineSet, CapiDeleteMD, MDWrite, MSWrite, apiVars
  <2> QED
    BY <2>1, <2>2 DEF Tracks, SweptGone
<1> QED
  BY <1>1, <1>2, <1>3, <1>4, <1>5, <1>6, <1>7, <1>8, <1>9, <1>10, <1>11, <1>12, <1>13, <1>14,
     <1>15, <1>16 DEF Next, ReconcileStep, Fault, WriteStep

\* No step leaves TrackInv, whatever lags.
LEMMA TrackInductive == TrackInv /\ [Next]_vars => TrackInv'
<1>1. TrackInv /\ UNCHANGED vars => TrackInv'
  BY StatusInductive DEF TrackInv, Tracks, SweptGone, vars, Superseded, HashChanged
<1> QED
  BY <1>1, TrackStep, StatusInductive DEF TrackInv

\* What a status write takes off pendingDeletion: nothing, but for the write that
\* starts a rollout, which takes off what is wanted again, and the one that ends
\* completeRollout, which takes off what has been deleted.
LEMMA WrittenPending ==
    ASSUME TrackInv, pc \in WriteEndPcs, fresh
    PROVE  \A ref \in claim.status.pending \ Written.pending :
               ref \notin templates \/ ref \in RefsOf(Written.current)
<1> USE DEF TrackInv
<1> Tracks /\ loc \in Locals /\ loc.status \in Status /\ loc.names \in Names \cup {None}
  BY DEF StatusInv, TypeOK, Shapes, Locals
<1>1. CASE pc \in {"pause", "fail"}
  <2>1. loc.status.pending = claim.status.pending
    BY <1>1 DEF Tracks, CleanupPcs, SweepPcs
  <2> QED
    BY <1>1, <2>1 DEF Written, PausedStatus, FailedStatus, Status
<1>2. CASE pc \in {"ready", "degrade", "progress"}
  <2>1. loc.status.pending = claim.status.pending
    BY <1>2 DEF Tracks, CleanupPcs, SweepPcs
  <2> QED
    BY <1>2, <2>1 DEF Written, ReadyStatus, DegradedStatus, UpdatingStatus, Status
<1>3. CASE pc = "start"
  <2>1. /\ loc.status.current = loc.names
        /\ loc.status.pending = Superseded(claim.status, loc.names)
    BY <1>3 DEF Tracks
  <2>2. Written.current = loc.names /\ Written.pending = loc.status.pending
    BY <1>3, <2>1 DEF Written, RolloutStartedStatus, Status
  <2> QED
    BY <2>1, <2>2 DEF Superseded
<1>4. CASE pc = "finish"
  <2>1. loc.status.pending = claim.status.pending
    BY <1>4 DEF Tracks, CleanupPcs, SweepPcs
  <2>2. \A ref \in loc.status.pending : ref \in loc.still \/ ref \notin templates
    BY <1>4, NamesAssumption DEF SweptGone, SweepPcs, Status
  <2>3. Written.pending = loc.still
    BY <1>4 DEF Written, CleanedUpStatus, RolloutCompleteStatus, Status
  <2> QED
    BY <2>1, <2>2, <2>3
<1> QED
  BY <1>1, <1>2, <1>3, <1>4 DEF WriteEndPcs

\* A step strikes a name off only when its template is gone or current again.
StruckOffWhenDone ==
    \A ref \in claim.status.pending \ claim'.status.pending :
        ref \notin templates \/ ref \in RefsOf(claim'.status.current)

\* Every step of the controller and its environment does so.
LEMMA StrikingOff ==
    ASSUME TrackInv, Next
    PROVE  StruckOffWhenDone
<1> USE DEF StruckOffWhenDone
<1> TypeOK /\ claim \in Claims /\ loc \in Locals /\ loc.status \in Status
  BY DEF TrackInv, StatusInv, TypeOK, Shapes, Locals
<1>1. CASE WriteStep
  <2>1. claim'.status = Written /\ pc \in WriteEndPcs /\ fresh
    BY <1>1, WriteEnd DEF Claims
  <2> QED
    BY <2>1, WrittenPending
<1>2. CASE SetInitialPhase \/ SetDeletingPhase
  <2>1. pc \in {"initPhase", "delPhase"} /\ fresh
    BY <1>2 DEF SetInitialPhase, SetDeletingPhase, WriteStatus
  <2>2. PICK phase \in Phases : claim' = [claim EXCEPT !.status = PhaseStatus(loc.status, phase)]
    BY <1>2 DEF SetInitialPhase, SetDeletingPhase, WriteStatus, Phases
  <2>3. claim'.status.pending = loc.status.pending
    BY <2>2 DEF PhaseStatus, Claims, Status
  <2> QED
    BY <2>1, <2>3 DEF TrackInv, Tracks, CleanupPcs, SweepPcs
<1>3. CASE WalkStep
  BY <1>3, Walk
<1>4. CASE Begin \/ AddFinalizer \/ RemoveFinalizer
  BY <1>4 DEF Begin, AddFinalizer, RemoveFinalizer, Claims
<1>5. CASE User
  BY <1>5, UserSteps
<1>6. CASE Sync
  BY <1>6, SyncSteps
<1>7. CASE TimeoutExpires \/ Capi \/ GarbageCollect
  BY <1>7, EnvironmentSteps
<1> QED
  BY <1>1, <1>2, <1>3, <1>4, <1>5, <1>6, <1>7
  DEF Next, ReconcileStep, Fault, WalkStep, WriteStep

\* No entry of pendingDeletion is dropped while its template exists, unless the
\* template is current again: conflicts, crashes, failed deletions, stale caches
\* and overtaken rollouts included.
THEOREM NoTemplateForgotten == Spec => NothingForgotten
<1>1. TrackInv /\ [Next]_vars => [StruckOffWhenDone]_vars
  BY StrikingOff
<1> QED
  BY <1>1, TrackInit, TrackInductive, PTL DEF Spec, NothingForgotten, StruckOffWhenDone

-----------------------------------------------------------------------------
(* Templates in use                                                        *)

\* InUseExists, template user by template user.
LEMMA InUseSplit ==
    ASSUME NEW sets, NEW names, NEW T
    PROVE  ((UNION {RefsOf(ms) : ms \in sets}) \cup RefsOf(names)) \subseteq T
             <=> (\A ms \in sets : RefsOf(ms) \subseteq T) /\ RefsOf(names) \subseteq T
<1>1. ASSUME \A ms \in sets : RefsOf(ms) \subseteq T
      PROVE  UNION {RefsOf(ms) : ms \in sets} \subseteq T
  BY <1>1
<1>2. ASSUME NEW ms \in sets
      PROVE  RefsOf(ms) \subseteq UNION {RefsOf(m) : m \in sets}
  OBVIOUS
<1> QED
  BY <1>1, <1>2

\* At first nothing is built on a template.
LEMMA UseInit == Init => UseInv
<1> SUFFICES ASSUME Init PROVE UseInv
  OBVIOUS
<1>1. pc = "idle" /\ machineSets = {} /\ md.names = None
  BY DEF Init, NoMD
<1>2. UsedExist /\ RolloutUse
  BY <1>1 DEF UsedExist, RolloutUse, RefsOf, AppliedPcs, CleanupPcs, SweepPcs
<1> QED
  BY <1>2, StatusInit, CleanInit DEF UseInv

\* What completeRollout is about to delete is in no use: it is superseded, so
\* the MD is not built on it, and no MachineSet was.
LEMMA VictimUnused ==
    ASSUME UseInv, pc = "delete"
    PROVE  /\ \A ms \in machineSets : loc.victim \notin RefsOf(ms)
           /\ loc.victim \notin RefsOf(md.names)
           /\ loc.victim \notin RefsOf(loc.names)
           /\ loc.victim \in loc.status.pending
<1> USE DEF UseInv
<1>1. loc.victim \in loc.status.pending /\ Sound(loc.status)
  BY DEF StatusInv, LocalSound
<1>2. loc.status.current = loc.names /\ md.names \in {loc.names, None}
  BY DEF RolloutUse, AppliedPcs, CleanupPcs, SweepPcs
<1>3. loc.victim \notin RefsOf(loc.names)
  BY <1>1, <1>2 DEF Sound
<1>4. loc.victim \notin RefsOf(md.names)
  BY <1>2, <1>3 DEF RefsOf
<1> QED
  BY <1>1, <1>3, <1>4 DEF RolloutUse

\* A step that takes a reconcile to a location where nothing is promised, and
\* that changes neither templates nor their users.
LEMMA UseFrame ==
    ASSUME UseInv, UNCHANGED <<templates, machineSets>>, md'.names = md.names,
           pc' \notin {"kct", "md"} \cup AppliedPcs
    PROVE  UsedExist' /\ RolloutUse'
BY DEF UseInv, UsedExist, RolloutUse, AppliedPcs, CleanupPcs, SweepPcs

\* No action deletes a template in use or puts one in use that does not exist.
LEMMA UseStep ==
    ASSUME Lag \subseteq {"claim"}, UseInv, Next, StatusInv', CleanInv'
    PROVE  UseInv'
<1> USE DEF UseInv
<1> TypeOK /\ claim \in Claims /\ loc \in Locals /\ loc.status \in Status /\ md \in MDs
  BY DEF StatusInv, TypeOK, Shapes, Locals
<1> SeenMD = md /\ SeenMS = machineSets /\ SeenKCT = templates \cap Kcts
  BY DEF SeenMD, SeenMS, SeenKCT, Seen
<1> SUFFICES UsedExist' /\ RolloutUse'
  OBVIOUS
<1>1. CASE Conflict \/ Abort \/ RenderTemplates \/ TemplateUnreadable
           \/ DeleteMachineHealthCheck \/ OwnTemplatesDone
  <2>1. /\ UNCHANGED <<templates, machineSets, md>>
        /\ pc' \in {"idle", "fail", "bmt", "delMD", "unfinalize"}
    BY <1>1 DEF Conflict, Abort, Retry, Done, RenderTemplates, TemplateUnreadable,
                DeleteMachineHealthCheck, OwnTemplatesDone, Goto, apiVars
  <2> QED
    BY <2>1, UseFrame DEF AppliedPcs, CleanupPcs, SweepPcs
<1>2. CASE WriteStep \/ RemoveFinalizer
  <2>1. UNCHANGED <<templates, machineSets, md>> /\ pc' = "idle"
    BY <1>2, WriteEnd DEF Ended, RemoveFinalizer, Done, apiVars
  <2> QED
    BY <2>1, UseFrame DEF AppliedPcs, CleanupPcs, SweepPcs
<1>3. CASE Begin
  <2>1. UNCHANGED <<templates, machineSets, md>> /\ pc' = Route(SeenClaim)
    BY <1>3 DEF Begin, apiVars
  <2> QED
    BY <2>1, SeenType, RouteType, UseFrame DEF AppliedPcs, CleanupPcs, SweepPcs
<1>4. CASE SetInitialPhase \/ SetDeletingPhase \/ AddFinalizer
  <2>1. UNCHANGED <<templates, machineSets, md>> /\ pc' \in {"addFinalizer", "delMHC", "render"}
    BY <1>4 DEF SetInitialPhase, SetDeletingPhase, AddFinalizer, apiVars
  <2> QED
    BY <2>1, UseFrame DEF AppliedPcs, CleanupPcs, SweepPcs
<1>5. CASE EnsureBMT
  <2>1. /\ templates' = templates \cup {loc.names.bmt} /\ pc' = "kct"
        /\ UNCHANGED <<machineSets, md, loc>>
    BY <1>5 DEF EnsureBMT, Goto
  <2> QED
    BY <2>1 DEF UsedExist, RolloutUse, AppliedPcs, CleanupPcs, SweepPcs
<1>6. CASE EnsureKCT
  <2>1. /\ pc = "kct" /\ pc' = "md" /\ UNCHANGED <<machineSets, md, loc>>
        /\ templates' = templates \cup {loc.names.kct}
    BY <1>6 DEF EnsureKCT, Goto
  <2>2. RefsOf(loc.names) \subseteq templates'
    BY <2>1 DEF RolloutUse, RefsOf
  <2> QED
    BY <2>1, <2>2 DEF UsedExist, RolloutUse, AppliedPcs, CleanupPcs, SweepPcs
<1>7. CASE EnsureMachineDeployment
  <2>1. pc = "md" /\ UNCHANGED <<templates, machineSets>>
    BY <1>7 DEF EnsureMachineDeployment
  <2>2. CASE Retry
    <3>1. md'.names = md.names \/ md'.names = loc.names
      BY <1>7 DEF EnsureMachineDeployment, BuildMachineDeployment, MDs
    <3> QED
      BY <2>1, <2>2, <3>1 DEF Retry, Done, UsedExist, RolloutUse, AppliedPcs, CleanupPcs, SweepPcs
  <2>3. CASE ~Retry
    <3>1. /\ pc' = "mhc"
          /\ loc' = [loc EXCEPT !.status.pending = Superseded(loc.status, loc.names)]
          /\ md' = IF ComputeMDDiff(md, loc.names, loc.spec)
                   THEN BuildMachineDeployment(md, loc.names, loc.spec) ELSE md
      BY <1>7, <2>3 DEF EnsureMachineDeployment
    <3>2. md'.names = loc.names
      BY <3>1 DEF ComputeMDDiff, BuildMachineDeployment, MDs
    <3>3. loc'.names = loc.names
      BY <3>1 DEF Locals
    <3> QED
      BY <2>1, <3>1, <3>2, <3>3 DEF UsedExist, RolloutUse, AppliedPcs, CleanupPcs, SweepPcs
  <2> QED
    BY <2>2, <2>3
<1>8. CASE EnsureMachineHealthCheck
  <2>1. /\ pc = "mhc" /\ pc' \in {"start", "track", "ready"}
        /\ UNCHANGED <<templates, machineSets, md>>
    BY <1>8 DEF EnsureMachineHealthCheck
  <2>2. loc'.names = loc.names /\ loc'.status.current = loc.names
    BY <1>8 DEF EnsureMachineHealthCheck, AppliedStatus, Locals, Status
  <2> QED
    BY <2>1, <2>2 DEF UsedExist, RolloutUse, AppliedPcs, CleanupPcs, SweepPcs
<1>9. CASE TrackRollout
  <2>1. pc = "track" /\ UNCHANGED <<templates, machineSets, md>>
    BY <1>9 DEF TrackRollout, apiVars
  <2>2. \/ pc' = "idle"
        \/ /\ pc' \in {"sweep", "degrade", "progress"}
           /\ loc'.names = loc.names /\ loc'.status = loc.status
    BY <1>9 DEF TrackRollout, Retry, Done, Goto, MDs, Locals
  <2> QED
    BY <2>1, <2>2 DEF UsedExist, RolloutUse, AppliedPcs, CleanupPcs, SweepPcs
<1>10. CASE CheckOldTemplate
  <2>1. /\ pc = "sweep" /\ UNCHANGED <<templates, machineSets, md>>
        /\ pc' \in {"sweep", "delete"}
    BY <1>10 DEF CheckOldTemplate, Goto, apiVars
  <2>2. loc'.names = loc.names /\ loc'.status = loc.status
    BY <1>10 DEF CheckOldTemplate, Locals
  <2>3. pc' = "delete" => \A ms \in machineSets : loc'.victim \notin RefsOf(ms)
    <3> SUFFICES ASSUME pc' = "delete"
                 PROVE  \A ms \in machineSets : loc'.victim \notin RefsOf(ms)
      OBVIOUS
    <3>1. PICK ref \in loc.todo : /\ ~IsTemplateReferencedByMachineSet(ref)
                                  /\ loc' = [loc EXCEPT !.todo = @ \ {ref}, !.victim = ref]
      BY <1>10 DEF CheckOldTemplate, Goto
    <3>2. loc'.victim = ref
      BY <3>1 DEF Locals
    <3> QED
      BY <3>1, <3>2 DEF IsTemplateReferencedByMachineSet
  <2> QED
    BY <2>1, <2>2, <2>3 DEF UsedExist, RolloutUse, AppliedPcs, CleanupPcs, SweepPcs
<1>11. CASE DeleteOldTemplate
  <2>1. /\ pc = "delete" /\ pc' = "sweep" /\ templates' = templates \ {loc.victim}
        /\ UNCHANGED <<machineSets, md>>
    BY <1>11 DEF DeleteOldTemplate, Goto
  <2>2. loc'.names = loc.names /\ loc'.status = loc.status
    BY <1>11 DEF DeleteOldTemplate, Locals
  <2> QED
    BY <2>1, <2>2, VictimUnused DEF UsedExist, RolloutUse, AppliedPcs, CleanupPcs, SweepPcs
<1>12. CASE OldTemplateKept \/ LoopDone
  <2>1. /\ pc \in {"sweep", "delete"} /\ pc' \in {"sweep", "finish"}
        /\ UNCHANGED <<templates, machineSets, md>>
    BY <1>12 DEF OldTemplateKept, LoopDone, Goto, apiVars
  <2>2. loc'.names = loc.names /\ loc'.status = loc.status
    BY <1>12 DEF OldTemplateKept, LoopDone, Locals
  <2> QED
    BY <2>1, <2>2 DEF UsedExist, RolloutUse, AppliedPcs, CleanupPcs, SweepPcs
<1>13. CASE DeleteMachineDeployment
  <2>1. UNCHANGED <<templates, machineSets>> /\ pc' \in {"idle", "delTemplates"}
    BY <1>13 DEF DeleteMachineDeployment, Retry, Done, Goto
  <2>2. md'.names = md.names
    BY <1>13 DEF DeleteMachineDeployment, MDs
  <2> QED
    BY <2>1, <2>2, UseFrame DEF AppliedPcs, CleanupPcs, SweepPcs
<1>14. CASE DeleteOwnTemplate
  <2>1. /\ pc = "delTemplates" /\ pc' = "delTemplates" /\ UNCHANGED <<machineSets, md>>
    BY <1>14 DEF DeleteOwnTemplate, Goto
  <2>2. machineSets = {} /\ md.names = None
    BY <2>1 DEF CleanInv, NoMD
  <2> QED
    BY <2>1, <2>2 DEF UsedExist, RolloutUse, RefsOf, AppliedPcs, CleanupPcs, SweepPcs
<1>15. CASE User
  <2>1. UNCHANGED <<templates, machineSets, md, pc, loc>>
    BY <1>15, UserSteps
  <2> QED
    BY <2>1 DEF UsedExist, RolloutUse
<1>16. CASE Sync
  <2>1. UNCHANGED <<templates, machineSets, md, pc, loc>>
    BY <1>16, SyncSteps
  <2> QED
    BY <2>1 DEF UsedExist, RolloutUse
<1>17. CASE TimeoutExpires
  BY <1>17 DEF TimeoutExpires, apiVars, reconVars, UsedExist, RolloutUse
<1>18. CASE Capi
  <2>1. UNCHANGED <<templates, pc, loc>>
    BY <1>18 DEF Capi, CapiCreateMachineSet, CapiStartRollout, CapiFinishRollout,
                 CapiDeleteMachineSet, CapiDeleteMD, MDWrite, MSWrite, reconVars
  <2>2. /\ machineSets' \subseteq machineSets \cup {md.names}
        /\ md'.names \in {md.names, None}
    <3>1. CASE CapiCreateMachineSet \/ CapiDeleteMachineSet
      BY <3>1 DEF CapiCreateMachineSet, CapiDeleteMachineSet, MSWrite
    <3>2. CASE CapiStartRollout \/ CapiFinishRollout
      <4>1. machineSets' = machineSets
        BY <3>2 DEF CapiStartRollout, CapiFinishRollout
      <4>2. md'.names = md.names
        BY <3>2 DEF CapiStartRollout, CapiFinishRollout, MDWrite, MDs
      <4> QED
        BY <4>1, <4>2
    <3>3. CASE CapiDeleteMD
      BY <3>3 DEF CapiDeleteMD, MDWrite, NoMD
    <3> QED
      BY <1>18, <3>1, <3>2, <3>3 DEF Capi
  <2>3. UsedExist'
    BY <2>1, <2>2 DEF UsedExist, RefsOf
  <2>4. pc = "delete" => \A ms \in machineSets' : loc.victim \notin RefsOf(ms)
    BY <2>2, VictimUnused
  <2> QED
    BY <2>1, <2>2, <2>3, <2>4 DEF RolloutUse
<1>19. CASE GarbageCollect
  <2>1. claim.life = "gone" /\ UNCHANGED <<machineSets, pc, loc>>
    BY <1>19 DEF GarbageCollect, reconVars
  <2>2. machineSets = {} /\ md.names = None /\ md.state = "absent"
    BY <2>1 DEF CleanInv, NoMD
  <2>3. md' = md
    BY <1>19, <2>2 DEF GarbageCollect
  <2>4. pc \notin ProvisionPcs
    BY <2>1 DEF CleanInv, LifeInv, Lives
  <2> QED
    BY <2>1, <2>2, <2>3, <2>4 DEF UsedExist, RolloutUse, RefsOf, ProvisionPcs, RenderedPcs,
                                   AppliedPcs, CleanupPcs, SweepPcs
<1> QED
  BY <1>1, <1>2, <1>3, <1>4, <1>5, <1>6, <1>7, <1>8, <1>9, <1>10, <1>11, <1>12, <1>13, <1>14,
     <1>15, <1>16, <1>17, <1>18, <1>19 DEF Next, ReconcileStep, Fault, WriteStep

\* No step leaves UseInv, if only the claim's cache lags.
LEMMA UseInductive ==
    ASSUME Lag \subseteq {"claim"}
    PROVE  UseInv /\ [Next]_vars => UseInv'
<1>1. StatusInv /\ CleanInv /\ [Next]_vars => StatusInv' /\ CleanInv'
  BY StatusInductive, CleanInductive
<1>2. UseInv /\ UNCHANGED vars => UseInv'
  BY <1>1 DEF UseInv, UsedExist, RolloutUse, vars
<1> QED
  BY <1>1, <1>2, UseStep DEF UseInv

\* With caches of MDs, MachineSets and KCTs that are up to date, no interleaving
\* of reconciles, user writes, faults, Cluster API and garbage collection deletes
\* a template under the MD or a MachineSet, or builds the MD on a template that
\* does not exist, however old the cached claim is.
THEOREM TemplatesInUseExist == Lag \subseteq {"claim"} => (Spec => []InUseExists)
<1> SUFFICES ASSUME Lag \subseteq {"claim"} PROVE Spec => []InUseExists
  OBVIOUS
<1>1. UseInv => InUseExists
  <2>1. InUseExists <=> UsedExist
    BY InUseSplit DEF UsedExist, InUseExists, InUse
  <2> QED
    BY <2>1 DEF UseInv
<1>2. UseInv /\ [Next]_vars => UseInv'
  BY UseInductive
<1> QED
  BY <1>1, <1>2, UseInit, PTL DEF Spec
=============================================================================
