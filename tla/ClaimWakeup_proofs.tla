------------------------- MODULE ClaimWakeup_proofs -------------------------
(***************************************************************************)
(* No lost wakeup in ClaimController, whichever caches lag.  As long as    *)
(* nothing has enqueued the claim again, the claim and the MD that the     *)
(* reconciler sees are those its last reconcile has worked from; what is   *)
(* stored may be ahead of them, but then it differs from them in a way     *)
(* that only a watch event, which enqueues the claim, can end.             *)
(***************************************************************************)
EXTENDS ClaimTemplates_proofs

\* A MachineDeployment is deleted only for a claim that is, and no reconcile that
\* creates objects runs then or will start.
MDClosing ==
    md.state = "deleting" =>
        claim.life # "live" /\ ~CachedOpen /\ pc \notin ProvisionPcs

\* The stored claim is ahead of the one seen in what only the reconciler writes.
ClaimAhead == claim.status # SeenClaim.status \/ claim.finalizer # SeenClaim.finalizer

\* The MD has these names and this spec, or is ahead of one that has not.
OnNames(m, names, spec) == m.names = names /\ m.spec = spec
MDAhead(names, spec) ==
    /\ md.state = "live" /\ claim.finalizer /\ claim.life # "gone"
    /\ OnNames(md, names, spec) /\ ~OnNames(SeenMD, names, spec)
MDApplied(names, spec) == OnNames(SeenMD, names, spec) \/ MDAhead(names, spec)

SeenSettled ==
    LET c == SeenClaim
        names == Rendered[c.spec, tmpl]
    IN  /\ c.finalizer
        /\ c.status.phase = "Ready" /\ c.status.ready
        /\ c.status.current = names /\ c.status.pending = {}
        /\ c.status.healing <=> c.spec \in WantsMHC
        /\ mhc = BuildMachineHealthCheck(c.spec)
        /\ MDApplied(names, c.spec)

\* What a reconcile may leave behind when nothing is queued.
AtRest ==
    \/ ClaimAhead
    \/ SeenClaim.life = "gone"
    \/ SeenClaim.life = "deleting" /\ ~SeenClaim.finalizer
    \/ SeenClaim.life = "live" /\ SeenClaim.paused /\ SeenClaim.status.phase = "Paused"
    \/ SeenClaim.life = "live" /\ ~SeenClaim.paused /\ SeenSettled

\* What a reconcile knows that nothing has overtaken yet.
EndPcs == {"start", "ready"} \cup CleanupPcs
UpToDate ==
    /\ loc.spec = SeenClaim.spec
    /\ pc = "pause" => SeenClaim.life = "live" /\ SeenClaim.paused
    /\ pc \in {"initPhase", "addFinalizer"} \cup ProvisionPcs =>
         SeenClaim.life = "live" /\ ~SeenClaim.paused
    /\ pc \in DeletePcs => SeenClaim.finalizer
    /\ pc \in RenderedPcs => loc.names = Rendered[loc.spec, tmpl]
    /\ pc \in AppliedPcs => MDApplied(loc.names, loc.spec)
    /\ pc \in EndPcs =>
         /\ mhc = BuildMachineHealthCheck(loc.spec)
         /\ loc.status.healing <=> loc.spec \in WantsMHC
         /\ loc.status.current = loc.names

WakeInv ==
    /\ StatusInv /\ LifeInv /\ MDClosing
    /\ ~queued => IF pc = "idle" THEN AtRest ELSE UpToDate

-----------------------------------------------------------------------------
(* The MachineDeployment of a claim that is being deleted                  *)

\* No step brings the MD of a live claim into deletion, or a deletion back.
LEMMA ClosingStep ==
    ASSUME LifeInv, MDClosing, Next
    PROVE  MDClosing'
<1> TypeOK /\ Lives /\ FreshLives
  BY DEF LifeInv
<1> md \in MDs /\ claim \in Claims /\ cache.claim \in Claims
  BY DEF TypeOK, Shapes
<1> SUFFICES ASSUME md'.state = "deleting"
             PROVE  claim'.life # "live" /\ ~CachedOpen' /\ pc' \notin ProvisionPcs
  BY DEF MDClosing
<1>1. CASE WalkStep
  <2>1. claim' = claim /\ cache' = cache /\ (pc' \in ProvisionPcs => pc \in ProvisionPcs)
    BY <1>1, Walk DEF Ended, ProvisionPcs, RenderedPcs, DeletePcs
  <2>2. CASE md.state = "deleting"
    BY <2>1, <2>2 DEF MDClosing, CachedOpen
  <2>3. CASE md.state # "deleting"
    <3>1. md' = md \/ EnsureMachineDeployment \/ DeleteMachineDeployment
      BY <1>1 DEF WalkStep, Conflict, Abort, RenderTemplates, TemplateUnreadable, EnsureBMT,
            EnsureKCT, EnsureMachineHealthCheck, TrackRollout,
            CheckOldTemplate, DeleteOldTemplate, OldTemplateKept, LoopDone,
            DeleteMachineHealthCheck, DeleteOwnTemplate, OwnTemplatesDone, apiVars
    <3>2. ~EnsureMachineDeployment
      BY <2>3 DEF EnsureMachineDeployment, BuildMachineDeployment, MDs
    <3>3. pc = "delMD"
      BY <2>3, <3>1, <3>2 DEF DeleteMachineDeployment
    <3> QED
      BY <2>1, <3>3 DEF Lives, CachedOpen, DeletePcs, ProvisionPcs, RenderedPcs
  <2> QED
    BY <2>2, <2>3
<1>2. CASE Begin
  <2>1. md' = md /\ claim' = claim /\ cache' = cache /\ pc' = Route(SeenClaim)
    BY <1>2 DEF Begin, apiVars
  <2>2. pc' \in ProvisionPcs => SeenClaim.life = "live" /\ SeenClaim.finalizer
    BY <2>1, SeenType, RouteLife
  <2> QED
    BY <2>1, <2>2 DEF MDClosing, CachedOpen, SeenClaim, Seen
<1>3. CASE WriteStep
  <2>1. md' = md /\ cache' = cache /\ pc' = "idle" /\ claim'.life = claim.life
    BY <1>3, WriteEnd DEF Ended, Claims
  <2> QED
    BY <2>1 DEF MDClosing, CachedOpen, ProvisionPcs, RenderedPcs
<1>4. CASE SetInitialPhase \/ AddFinalizer
  <2>1. md' = md /\ fresh /\ pc \in {"initPhase", "addFinalizer"}
    BY <1>4 DEF SetInitialPhase, AddFinalizer, WriteStatus, apiVars
  <2>2. claim.life = "live"
    BY <2>1 DEF FreshLives, DeletePcs
  <2> QED
    BY <2>1, <2>2 DEF MDClosing
<1>5. CASE SetDeletingPhase \/ RemoveFinalizer
  <2>1. /\ md' = md /\ cache' = cache /\ pc' \in {"delMHC", "idle"}
        /\ claim'.life \in {claim.life, "gone"}
    BY <1>5 DEF SetDeletingPhase, RemoveFinalizer, WriteStatus, Done, apiVars, Claims
  <2> QED
    BY <2>1 DEF MDClosing, CachedOpen, ProvisionPcs, RenderedPcs
<1>6. CASE User
  <2>1. /\ md' = md /\ cache' = cache /\ pc' = pc
        /\ claim'.life = claim.life \/ claim'.life \in {"deleting", "gone"}
    BY <1>6, UserSteps
  <2> QED
    BY <2>1 DEF MDClosing, CachedOpen
<1>7. CASE TimeoutExpires \/ Capi \/ GarbageCollect
  <2>1. UNCHANGED <<claim, cache, pc>>
    BY <1>7, EnvironmentSteps
  <2>2. md.state = "deleting" \/ claim.life = "gone"
    BY <1>7 DEF TimeoutExpires, Capi, GarbageCollect, CapiCreateMachineSet, CapiStartRollout,
       CapiFinishRollout, CapiDeleteMachineSet, CapiDeleteMD, MDWrite, MSWrite, apiVars, MDs, NoMD
  <2> QED
    BY <2>1, <2>2 DEF MDClosing, CachedOpen, Lives
<1>8. CASE Sync
  BY <1>8, SyncSteps DEF MDClosing, CachedOpen
<1> QED
  BY <1>1, <1>2, <1>3, <1>4, <1>5, <1>6, <1>7, <1>8
  DEF Next, ReconcileStep, Fault, WalkStep, WriteStep

-----------------------------------------------------------------------------
(* What a step leaves alone when it enqueues nothing                       *)

\* A step that leaves the claim out of the queue changes nothing that a watch would
\* report.
LEMMA Unwoken ==
    ASSUME TypeOK, Next, ~queued'
    PROVE  /\ queued => Begin
           /\ tmpl' = tmpl
           /\ "claim" \in Lag \/ claim' = claim
           /\ SeenClaim' = SeenClaim
           /\ claim.life # "gone" => SeenMD' = SeenMD /\ mhc' = mhc
<1> md \in MDs /\ claim \in Claims /\ loc \in Locals
    /\ cache \in [claim : Claims, md : MDs, ms : SUBSET Names, kct : SUBSET Kcts]
  BY DEF TypeOK, Shapes
<1> DEFINE SameClaim == ("claim" \in Lag \/ claim' = claim) /\ cache'.claim = cache.claim
           SameMD == ("md" \in Lag \/ md' = md) /\ cache'.md = cache.md
<1>0. SUFFICES /\ queued => Begin
               /\ tmpl' = tmpl /\ SameClaim /\ (claim.life # "gone" => SameMD /\ mhc' = mhc)
  BY DEF SeenClaim, SeenMD, Seen
<1>1. CASE WalkStep
  <2>1. ~Retry
    BY DEF Retry
  <2>2. claim' = claim /\ cache' = cache
    BY <1>1, Walk
  <2>3. tmpl' = tmpl /\ ~queued
    <3>1. CASE TrackRollout
      BY <2>1, <3>1, SeenType DEF TrackRollout, Goto, apiVars, MDs
    <3>2. CASE EnsureMachineDeployment \/ EnsureMachineHealthCheck \/ DeleteMachineHealthCheck
               \/ DeleteMachineDeployment
      BY <2>1, <3>2 DEF EnsureMachineDeployment, EnsureMachineHealthCheck,
         DeleteMachineHealthCheck, DeleteMachineDeployment, Goto, Enqueue
    <3>3. CASE CheckOldTemplate
      BY <3>3 DEF CheckOldTemplate, Goto, apiVars
    <3>4. CASE EnsureBMT \/ EnsureKCT \/ LoopDone \/ DeleteOldTemplate \/ OwnTemplatesDone
      BY <3>4 DEF EnsureBMT, EnsureKCT, LoopDone, DeleteOldTemplate, OwnTemplatesDone, apiVars,
                  Goto
    <3>5. CASE TemplateUnreadable \/ DeleteOwnTemplate
      BY <3>5 DEF TemplateUnreadable, DeleteOwnTemplate, apiVars, Goto
    <3>6. CASE RenderTemplates
      BY <3>6 DEF RenderTemplates, apiVars, Goto
    <3>7. CASE OldTemplateKept
      BY <3>7 DEF OldTemplateKept, apiVars, Goto
    <3>8. CASE Conflict \/ Abort
      BY <2>1, <3>8 DEF Conflict, Abort
    <3> QED
      BY <1>1, <3>1, <3>2, <3>3, <3>4, <3>5, <3>6, <3>7, <3>8 DEF WalkStep
  <2>4. mhc' = mhc
    BY <1>1, <2>1 DEF WalkStep, Conflict, Abort, RenderTemplates, TemplateUnreadable, EnsureBMT,
            EnsureKCT, EnsureMachineDeployment, EnsureMachineHealthCheck, TrackRollout,
            CheckOldTemplate, DeleteOldTemplate, OldTemplateKept, LoopDone,
            DeleteMachineHealthCheck, DeleteMachineDeployment, DeleteOwnTemplate,
            OwnTemplatesDone, apiVars, Goto
  <2>5. "md" \in Lag \/ md' = md
    BY <1>1, <2>1 DEF WalkStep, Conflict, Abort, RenderTemplates, TemplateUnreadable, EnsureBMT,
            EnsureKCT, EnsureMachineDeployment, EnsureMachineHealthCheck, TrackRollout,
            CheckOldTemplate, DeleteOldTemplate, OldTemplateKept, LoopDone,
            DeleteMachineHealthCheck, DeleteMachineDeployment, DeleteOwnTemplate,
            OwnTemplatesDone, apiVars, Goto, Enqueue
  <2> QED
    BY <2>2, <2>3, <2>4, <2>5
<1>2. CASE Begin
  BY <1>2 DEF Begin, apiVars
<1>3. CASE WriteStep
  <2>1. PICK st \in Status, requeue \in BOOLEAN : WriteStatusAndEnd(st, requeue)
    <3>1. loc.status \in Status /\ loc.still \in SUBSET Refs
      BY DEF Locals
    <3> QED
      BY <1>3, <3>1, StatusTypes DEF WriteStep, ReconcilePaused, SetFailed, StartRollout, SetReady,
         SetDegraded, SetUpdating, CompleteRollout, Phases
  <2>2. /\ cache' = cache /\ tmpl' = tmpl /\ md' = md /\ mhc' = mhc /\ ~queued
        /\ "claim" \in Lag \/ st = claim.status
        /\ claim' = [claim EXCEPT !.status = st]
    BY <2>1 DEF WriteStatusAndEnd, WriteStatus, Enqueue, apiVars
  <2> QED
    BY <2>2 DEF Claims
<1>4. CASE SetInitialPhase \/ AddFinalizer \/ SetDeletingPhase \/ RemoveFinalizer
  BY <1>4 DEF SetInitialPhase, AddFinalizer, SetDeletingPhase, RemoveFinalizer, Enqueue, apiVars
<1>5. CASE User
  BY <1>5 DEF User, EditSpec, TogglePaused, DeleteClaim, EditTemplate, UserWrite, Enqueue, apiVars
<1>6. CASE TimeoutExpires \/ Capi \/ GarbageCollect
  <2>1. UNCHANGED <<claim, tmpl, cache>>
    BY <1>6, EnvironmentSteps
  <2>2. CASE TimeoutExpires \/ GarbageCollect
    BY <2>1, <2>2 DEF TimeoutExpires, GarbageCollect, reconVars, apiVars
  <2>3. CASE CapiCreateMachineSet \/ CapiDeleteMachineSet
    BY <2>1, <2>3 DEF CapiCreateMachineSet, CapiDeleteMachineSet, MSWrite, reconVars
  <2>4. CASE CapiStartRollout \/ CapiFinishRollout \/ CapiDeleteMD
    BY <2>1, <2>4 DEF CapiStartRollout, CapiFinishRollout, CapiDeleteMD, MDWrite, Enqueue
  <2> QED
    BY <1>6, <2>2, <2>3, <2>4 DEF Capi
<1>7. CASE Sync
  BY <1>7 DEF Sync, SyncClaim, SyncMD, SyncMS, SyncKCT, userVars, reconVars
<1> QED
  BY <1>0, <1>1, <1>2, <1>3, <1>4, <1>5, <1>6, <1>7
  DEF Next, ReconcileStep, Fault, WalkStep, WriteStep

-----------------------------------------------------------------------------
(* The invariant                                                           *)

\* A new claim is in the queue.
LEMMA WakeInit == Init => WakeInv
BY StatusInit, LifeInit DEF Init, WakeInv, MDClosing, NoMD

\* A step that leaves the claim's life and the MD's names and spec alone keeps
\* the MD applied.
LEMMA AppliedFrame ==
    ASSUME SeenMD' = SeenMD,
           md'.state = md.state, md'.names = md.names, md'.spec = md.spec,
           claim'.finalizer = claim.finalizer,
           claim'.life = "gone" => claim.life = "gone",
           NEW names, NEW spec, MDApplied(names, spec)
    PROVE  MDApplied(names, spec)'
BY DEF MDApplied, MDAhead, OnNames

\* What only an event can end lasts as long as there is none.
LEMMA IdleStep ==
    ASSUME WakeInv, Next, ~queued, ~queued', pc = "idle"
    PROVE  pc' = "idle" /\ AtRest'
<1> TypeOK /\ Lives /\ FreshLives /\ MDClosing /\ AtRest
  BY DEF WakeInv, LifeInv
<1> claim \in Claims /\ md \in MDs
  BY DEF TypeOK, Shapes
<1>1. User \/ TimeoutExpires \/ Capi \/ GarbageCollect \/ Sync
  BY DEF Next, ReconcileStep, Fault, Begin, Conflict, ReconcilePaused, SetInitialPhase,
         AddFinalizer, RenderTemplates, SetFailed, EnsureBMT, EnsureKCT,
         EnsureMachineDeployment, EnsureMachineHealthCheck, StartRollout, SetReady,
         TrackRollout, SetDegraded, SetUpdating, CheckOldTemplate, DeleteOldTemplate, LoopDone,
         CompleteRollout, SetDeletingPhase, DeleteMachineHealthCheck, DeleteMachineDeployment,
         DeleteOwnTemplate, OwnTemplatesDone, RemoveFinalizer, Abort, TemplateUnreadable,
         OldTemplateKept, WritePcs
<1>2. /\ pc' = pc /\ claim'.status = claim.status /\ claim'.finalizer = claim.finalizer
      /\ claim.finalizer /\ claim.life # "gone" => claim'.life # "gone"
  BY <1>1, UserSteps, EnvironmentSteps, SyncSteps
<1>3. tmpl' = tmpl /\ SeenClaim' = SeenClaim
  BY Unwoken
<1>4. CASE ClaimAhead
  BY <1>2, <1>3, <1>4 DEF AtRest, ClaimAhead
<1>5. CASE SeenClaim.life # "live" \/ SeenClaim.paused
  BY <1>2, <1>3, <1>5 DEF AtRest, ClaimAhead
<1>6. CASE SeenClaim.life = "live" /\ ~SeenClaim.paused /\ SeenSettled
  <2>1. claim.finalizer /\ claim.life # "gone"
    BY <1>6 DEF SeenSettled, SeenClaim, Seen, Lives, CachedOpen
  <2>2. SeenMD' = SeenMD /\ mhc' = mhc
    BY <2>1, Unwoken
  <2>3. PICK names, spec : names = Rendered[SeenClaim.spec, tmpl] /\ spec = SeenClaim.spec
    OBVIOUS
  <2>4. MDApplied(names, spec)
    BY <1>6, <2>3 DEF SeenSettled
  <2>5. md.state # "deleting" => md'.state = md.state /\ md'.names = md.names /\ md'.spec = md.spec
    BY <1>1, <2>1, UserSteps, SyncSteps DEF TimeoutExpires, Capi, GarbageCollect,
       CapiCreateMachineSet, CapiStartRollout, CapiFinishRollout, CapiDeleteMachineSet,
       CapiDeleteMD, MDWrite, MSWrite, apiVars, MDs
  <2>6. MDApplied(names, spec)'
    BY <1>2, <2>1, <2>2, <2>4, <2>5 DEF MDApplied, MDAhead, OnNames
  <2>7. SeenSettled'
    BY <1>3, <1>6, <2>2, <2>3, <2>6 DEF SeenSettled, MDApplied, MDAhead, OnNames,
       BuildMachineHealthCheck
  <2> QED
    BY <1>2, <1>3, <1>6, <2>7 DEF AtRest
<1> QED
  BY <1>4, <1>5, <1>6 DEF AtRest

\* A reconcile starts from what is seen, or has nothing to do.
LEMMA BeginStep ==
    ASSUME WakeInv, Begin, ~queued'
    PROVE  IF pc' = "idle" THEN AtRest' ELSE UpToDate'
<1> TypeOK
  BY DEF WakeInv, LifeInv
<1>1. PICK c \in Claims : c = SeenClaim
  BY SeenType
<1>2. SeenClaim' = c /\ pc' = Route(c)
  BY <1>1 DEF Begin, SeenClaim, Seen
<1>3. CASE pc' = "idle"
  <2>1. \/ c.life = "gone"
        \/ c.life = "deleting" /\ ~c.finalizer
        \/ c.life = "live" /\ c.paused /\ c.status.phase = "Paused"
    BY <1>2, <1>3 DEF Route, Claims
  <2> QED
    BY <1>2, <1>3, <2>1 DEF AtRest
<1>4. CASE pc' # "idle"
  <2>1. loc'.spec = c.spec
    BY <1>1, <1>4, ConstantTypes DEF Begin, Locals
  <2>2. pc' \in {"delMHC", "delPhase", "pause", "render", "initPhase", "addFinalizer"}
    BY <1>2, <1>4, RouteType
  <2>3. /\ pc' = "pause" => c.life = "live" /\ c.paused
        /\ pc' \in {"initPhase", "addFinalizer", "render"} => c.life = "live" /\ ~c.paused
        /\ pc' \in {"delMHC", "delPhase"} => c.finalizer
    BY <1>2 DEF Route, Claims
  <2> QED
    BY <1>2, <1>4, <2>1, <2>2, <2>3 DEF UpToDate, ProvisionPcs, DeletePcs, RenderedPcs,
       AppliedPcs, EndPcs, CleanupPcs, SweepPcs
<1> QED
  BY <1>3, <1>4

\* Nobody but the reconciler can overtake a running reconcile without an event.
LEMMA OthersStep ==
    ASSUME WakeInv, Next, User \/ TimeoutExpires \/ Capi \/ GarbageCollect \/ Sync,
           ~queued, ~queued', pc # "idle"
    PROVE  pc' = pc /\ UpToDate'
<1> TypeOK /\ Lives /\ MDClosing /\ UpToDate
  BY DEF WakeInv, LifeInv
<1> claim \in Claims /\ md \in MDs
  BY DEF TypeOK, Shapes
<1>1. /\ pc' = pc /\ loc' = loc /\ claim'.finalizer = claim.finalizer
      /\ claim.finalizer /\ claim.life # "gone" => claim'.life # "gone"
  BY UserSteps, EnvironmentSteps, SyncSteps
<1>2. tmpl' = tmpl /\ SeenClaim' = SeenClaim
  BY Unwoken
<1>3. CASE pc \notin AppliedPcs
  BY <1>1, <1>2, <1>3 DEF UpToDate, AppliedPcs, EndPcs
<1>4. CASE pc \in AppliedPcs
  <2>1. claim.finalizer /\ claim.life # "gone" /\ md.state # "deleting"
    BY <1>4 DEF Lives, MDClosing, AppliedPcs, CleanupPcs, SweepPcs, ProvisionPcs, RenderedPcs
  <2>2. SeenMD' = SeenMD /\ mhc' = mhc
    BY <2>1, Unwoken
  <2>3. md'.state = md.state /\ md'.names = md.names /\ md'.spec = md.spec
    BY <2>1, UserSteps, SyncSteps DEF TimeoutExpires, Capi, GarbageCollect,
       CapiCreateMachineSet, CapiStartRollout, CapiFinishRollout, CapiDeleteMachineSet,
       CapiDeleteMD, MDWrite, MSWrite, apiVars, MDs
  <2>4. MDApplied(loc.names, loc.spec)'
    BY <1>1, <1>4, <2>1, <2>2, <2>3 DEF UpToDate, MDApplied, MDAhead, OnNames
  <2> QED
    BY <1>1, <1>2, <2>2, <2>4 DEF UpToDate, BuildMachineHealthCheck
<1> QED
  BY <1>3, <1>4

\* A reconcile that ends with nothing queued has done what it was woken for.
LEMMA EndStep ==
    ASSUME WakeInv, Next, WriteStep, ~queued, ~queued'
    PROVE  pc' = "idle" /\ AtRest'
<1> TypeOK /\ Lives /\ LocalSound /\ pc # "idle"
  BY WriteEnd DEF WakeInv, LifeInv, StatusInv, WriteEndPcs
<1> UpToDate
  BY DEF WakeInv
<1> claim \in Claims /\ loc \in Locals /\ loc.status \in Status
  BY DEF TypeOK, Shapes, Locals
<1>1. /\ pc' = "idle" /\ md' = md
      /\ claim' = [claim EXCEPT !.status = Written] /\ Written \in Status
  BY WriteEnd DEF Ended
<1>2. tmpl' = tmpl /\ SeenClaim' = SeenClaim
  BY Unwoken
<1>3. PICK c \in Claims : c = SeenClaim
  BY SeenType
<1>4. PICK st \in Status : st = Written
  BY <1>1
<1>5. claim'.status = st /\ claim'.finalizer = claim.finalizer /\ claim'.life = claim.life
  BY <1>1, <1>4 DEF Claims
<1>6. CASE c.status # st \/ c.finalizer # claim.finalizer
  BY <1>1, <1>2, <1>3, <1>5, <1>6 DEF AtRest, ClaimAhead
<1>7. CASE c.status = st /\ c.finalizer = claim.finalizer
  <2>1. pc = "pause" \/ pc = "ready" \/ (pc = "finish" /\ loc.still = {})
    BY DEF WriteStep, ReconcilePaused, SetFailed, StartRollout, SetReady, SetDegraded,
           SetUpdating, CompleteRollout, WriteStatusAndEnd
  <2>2. CASE pc = "pause"
    <3>1. st.phase = "Paused"
      BY <1>4, <2>2 DEF Written, PausedStatus, Status
    <3>2. c.life = "live" /\ c.paused
      BY <1>3, <2>2 DEF UpToDate
    <3> QED
      BY <1>1, <1>2, <1>3, <1>7, <3>1, <3>2 DEF AtRest
  <2>3. CASE pc \in {"ready", "finish"}
    <3>1. pc \in EndPcs /\ pc \in AppliedPcs /\ pc \in RenderedPcs /\ pc \in ProvisionPcs
      BY <2>3 DEF EndPcs, AppliedPcs, RenderedPcs, ProvisionPcs, CleanupPcs, SweepPcs
    <3>2. PICK names \in Names : names = loc.names
      BY <3>1 DEF TypeOK, Assigned
    <3>3. /\ loc.spec = c.spec /\ names = Rendered[c.spec, tmpl]
          /\ MDApplied(names, c.spec) /\ mhc = BuildMachineHealthCheck(c.spec)
          /\ loc.status.healing <=> c.spec \in WantsMHC
          /\ loc.status.current = names
          /\ c.life = "live" /\ ~c.paused
      BY <1>3, <3>1, <3>2 DEF UpToDate
    <3>4. claim.finalizer /\ claim.life # "gone"
      BY <3>1 DEF Lives
    <3>5. /\ st.phase = "Ready" /\ st.ready /\ st.pending = {}
          /\ st.current = loc.status.current /\ st.healing = loc.status.healing
      <4>1. CASE pc = "ready"
        BY <1>4, <4>1 DEF Written, ReadyStatus, Status, LocalSound
      <4>2. CASE pc = "finish"
        BY <1>4, <2>1, <4>2 DEF Written, CleanedUpStatus, RolloutCompleteStatus, Status
      <4> QED
        BY <2>3, <4>1, <4>2
    <3>6. SeenMD' = SeenMD /\ mhc' = mhc
      BY <3>4, Unwoken
    <3>7. MDApplied(names, c.spec)'
      BY <1>1, <1>5, <3>3, <3>6, AppliedFrame
    <3>8. SeenSettled'
      <4>1. SeenClaim' = c /\ Rendered[c.spec, tmpl'] = names
        BY <1>2, <1>3, <3>3
      <4>2. mhc' = BuildMachineHealthCheck(c.spec)
        BY <3>3, <3>6
      <4> QED
        BY <1>7, <3>3, <3>4, <3>5, <3>7, <4>1, <4>2 DEF SeenSettled, MDApplied, MDAhead, OnNames
    <3> QED
      BY <1>1, <1>2, <1>3, <3>3, <3>8 DEF AtRest
  <2> QED
    BY <2>1, <2>2, <2>3
<1> QED
  BY <1>6, <1>7

\* The writes of the claim in the middle of a reconcile.  Without an event the
\* cache does not show them yet.
LEMMA ClaimWriteStep ==
    ASSUME WakeInv, Next, SetInitialPhase \/ AddFinalizer \/ SetDeletingPhase \/ RemoveFinalizer,
           ~queued, ~queued'
    PROVE  IF pc' = "idle" THEN AtRest' ELSE UpToDate'
<1> TypeOK /\ Lives /\ UpToDate
  BY DEF WakeInv, LifeInv, SetInitialPhase, AddFinalizer, SetDeletingPhase, RemoveFinalizer
<1> claim \in Claims /\ loc \in Locals
  BY DEF TypeOK, Shapes
<1>1. SeenClaim' = SeenClaim
  BY Unwoken
<1>2. CASE SetInitialPhase \/ AddFinalizer \/ SetDeletingPhase
  <2>1. /\ loc'.spec = loc.spec
        /\ \/ pc \in {"initPhase", "addFinalizer"} /\ pc' \in {"addFinalizer", "render"}
           \/ pc = "delPhase" /\ pc' = "delMHC"
    BY <1>2 DEF SetInitialPhase, AddFinalizer, SetDeletingPhase, Locals
  <2> QED
    BY <1>1, <2>1 DEF UpToDate, ProvisionPcs, DeletePcs, RenderedPcs, AppliedPcs, EndPcs,
       CleanupPcs, SweepPcs
<1>3. CASE RemoveFinalizer
  <2>1. pc = "unfinalize" /\ pc' = "idle" /\ claim'.finalizer = FALSE
    BY <1>3 DEF RemoveFinalizer, Done, Claims
  <2>2. SeenClaim.finalizer
    BY <2>1 DEF UpToDate, DeletePcs
  <2> QED
    BY <1>1, <2>1, <2>2 DEF AtRest, ClaimAhead
<1> QED
  BY <1>2, <1>3

\* The steps that write other objects, or nothing.
LEMMA WalkOn ==
    ASSUME WakeInv, Next, WalkStep, ~queued, ~queued'
    PROVE  pc' # "idle" /\ UpToDate'
<1> TypeOK /\ Lives /\ MDClosing /\ LocalSound
  BY DEF WakeInv, LifeInv, StatusInv
<1> claim \in Claims /\ md \in MDs /\ loc \in Locals /\ loc.status \in Status
  BY DEF TypeOK, Shapes, Locals
<1>1. ~Retry
  BY DEF Retry
<1>2. UpToDate /\ pc # "idle"
  BY <1>1 DEF WakeInv, WalkStep, Conflict, Abort, RenderTemplates, TemplateUnreadable, EnsureBMT,
      EnsureKCT, EnsureMachineDeployment, EnsureMachineHealthCheck, TrackRollout,
      CheckOldTemplate, DeleteOldTemplate, OldTemplateKept, LoopDone, DeleteMachineHealthCheck,
      DeleteMachineDeployment, DeleteOwnTemplate, OwnTemplatesDone
<1>3. tmpl' = tmpl /\ claim' = claim /\ cache' = cache /\ SeenClaim' = SeenClaim
  BY Unwoken, Walk
<1>4. pc \in ProvisionPcs => /\ claim.finalizer /\ claim.life # "gone" /\ md.state # "deleting"
                             /\ SeenMD' = SeenMD /\ mhc' = mhc
  BY Unwoken DEF Lives, MDClosing
<1>5. CASE RenderTemplates \/ TemplateUnreadable
  <2>1. /\ pc = "render" /\ loc'.spec = loc.spec
        /\ pc' = "fail" \/ (pc' = "bmt" /\ loc'.names = Rendered[loc.spec, tmpl])
    BY <1>5 DEF RenderTemplates, TemplateUnreadable, Goto, Locals
  <2> QED
    BY <1>2, <1>3, <2>1 DEF UpToDate, ProvisionPcs, DeletePcs, RenderedPcs, AppliedPcs, EndPcs,
       CleanupPcs, SweepPcs
<1>6. CASE EnsureBMT \/ EnsureKCT
  <2>1. pc \in {"bmt", "kct"} /\ pc' \in {"kct", "md"} /\ loc' = loc
    BY <1>6 DEF EnsureBMT, EnsureKCT, Goto
  <2> QED
    BY <1>2, <1>3, <2>1 DEF UpToDate, ProvisionPcs, DeletePcs, RenderedPcs, AppliedPcs, EndPcs,
       CleanupPcs, SweepPcs
<1>7. CASE EnsureMachineDeployment
  <2>1. pc = "md" /\ pc' = "mhc"
    BY <1>1, <1>7 DEF EnsureMachineDeployment
  <2>2. loc'.spec = loc.spec /\ loc'.names = loc.names
    BY <1>1, <1>7 DEF EnsureMachineDeployment, Locals
  <2>3. /\ pc \in ProvisionPcs /\ pc' \in ProvisionPcs /\ pc \in RenderedPcs
        /\ pc' \in AppliedPcs /\ pc' \notin DeletePcs /\ pc' \notin EndPcs
    BY <2>1 DEF ProvisionPcs, RenderedPcs, AppliedPcs, EndPcs, DeletePcs, CleanupPcs, SweepPcs
  <2>4. PICK names, spec : names = loc.names /\ spec = loc.spec
    OBVIOUS
  <2>5. MDApplied(names, spec)'
    <3>1. CASE OnNames(SeenMD, names, spec)
      BY <1>4, <2>3, <3>1 DEF MDApplied, OnNames
    <3>2. CASE ~OnNames(SeenMD, names, spec)
      <4>1. ComputeMDDiff(SeenMD, loc.names, loc.spec)
        BY <2>4, <3>2 DEF OnNames, ComputeMDDiff
      <4>2. md' = BuildMachineDeployment(md, names, spec)
        BY <1>1, <1>7, <2>4, <4>1 DEF EnsureMachineDeployment
      <4>3. md'.state = "live" /\ md'.names = names /\ md'.spec = spec
        BY <1>4, <2>3, <4>2 DEF BuildMachineDeployment, MDs
      <4> QED
        BY <1>3, <1>4, <2>3, <3>2, <4>3 DEF MDApplied, MDAhead, OnNames
    <3> QED
      BY <3>1, <3>2
  <2>6. MDApplied(loc.names, loc.spec)'
    BY <2>2, <2>4, <2>5 DEF MDApplied, MDAhead, OnNames
  <2> QED
    BY <1>2, <1>3, <2>1, <2>2, <2>3, <2>6 DEF UpToDate
<1>8. CASE EnsureMachineHealthCheck
  <2>1. pc = "mhc" /\ pc' \in {"start", "track", "ready"} /\ md' = md
    BY <1>8 DEF EnsureMachineHealthCheck
  <2>2. /\ loc'.spec = loc.spec /\ loc'.names = loc.names
        /\ loc'.status = AppliedStatus(loc.status, loc.names, loc.spec \in WantsMHC)
        /\ mhc' = BuildMachineHealthCheck(loc.spec)
    BY <1>8 DEF EnsureMachineHealthCheck, Locals
  <2>3. loc'.status.current = loc.names /\ loc'.status.healing = (loc.spec \in WantsMHC)
    BY <2>2 DEF AppliedStatus, Status
  <2>4. /\ pc \in ProvisionPcs /\ pc' \in ProvisionPcs /\ pc \in RenderedPcs
        /\ pc \in AppliedPcs /\ pc' \notin DeletePcs
    BY <2>1 DEF ProvisionPcs, RenderedPcs, AppliedPcs, DeletePcs
  <2>5. MDApplied(loc.names, loc.spec)'
    BY <1>2, <1>3, <1>4, <2>1, <2>2, <2>4 DEF UpToDate, MDApplied, MDAhead, OnNames
  <2>6. mhc' = BuildMachineHealthCheck(loc'.spec)
    BY <2>2
  <2> QED
    BY <1>2, <1>3, <2>1, <2>2, <2>3, <2>4, <2>5, <2>6 DEF UpToDate, BuildMachineHealthCheck
<1>9. CASE TrackRollout \/ CheckOldTemplate \/ DeleteOldTemplate \/ OldTemplateKept \/ LoopDone
  <2>1. /\ pc \in CleanupPcs /\ pc' \in CleanupPcs /\ md' = md
        /\ loc'.spec = loc.spec /\ loc'.names = loc.names /\ loc'.status = loc.status
    <3>1. CASE TrackRollout
      BY <1>1, <3>1, SeenType DEF TrackRollout, Goto, apiVars, MDs, Locals, CleanupPcs, SweepPcs
    <3>2. CASE CheckOldTemplate
      BY <3>2 DEF CheckOldTemplate, Goto, apiVars, Locals, CleanupPcs, SweepPcs
    <3>3. CASE DeleteOldTemplate \/ LoopDone
      BY <3>3 DEF DeleteOldTemplate, LoopDone, Goto, apiVars, Locals, CleanupPcs, SweepPcs
    <3>4. CASE OldTemplateKept
      <4>1. pc \in CleanupPcs /\ pc' \in CleanupPcs /\ md' = md
        BY <3>4 DEF OldTemplateKept, Goto, apiVars, CleanupPcs, SweepPcs
      <4>2. loc'.spec = loc.spec /\ loc'.names = loc.names /\ loc'.status = loc.status
        BY <3>4 DEF OldTemplateKept, Locals
      <4> QED
        BY <4>1, <4>2
    <3> QED
      BY <1>9, <3>1, <3>2, <3>3, <3>4
  <2>2. /\ pc \in ProvisionPcs /\ pc' \in ProvisionPcs /\ pc \in RenderedPcs
        /\ pc \in AppliedPcs /\ pc \in EndPcs /\ pc' \notin DeletePcs
        /\ pc' \notin {"idle", "pause"}
    BY <2>1 DEF ProvisionPcs, RenderedPcs, AppliedPcs, EndPcs, DeletePcs, CleanupPcs, SweepPcs
  <2>3. MDApplied(loc.names, loc.spec)'
    BY <1>2, <1>3, <1>4, <2>1, <2>2 DEF UpToDate, MDApplied, MDAhead, OnNames
  <2>4. mhc' = BuildMachineHealthCheck(loc'.spec)
    BY <1>2, <1>4, <2>1, <2>2 DEF UpToDate
  <2> QED
    BY <1>2, <1>3, <2>1, <2>2, <2>3, <2>4 DEF UpToDate, BuildMachineHealthCheck
<1>10. CASE DeleteMachineHealthCheck \/ DeleteMachineDeployment \/ DeleteOwnTemplate
            \/ OwnTemplatesDone
  <2>1. pc \in DeletePcs /\ pc' \in DeletePcs
    BY <1>1, <1>10 DEF DeleteMachineHealthCheck, DeleteMachineDeployment, DeleteOwnTemplate,
       OwnTemplatesDone, Goto, DeletePcs
  <2>2. loc'.spec = loc.spec
    BY <1>10, Walk, <2>1 DEF WalkStep, Ended, Carries, DeletePcs
  <2> QED
    BY <1>2, <1>3, <2>1, <2>2 DEF UpToDate, ProvisionPcs, DeletePcs, RenderedPcs, AppliedPcs,
       EndPcs, CleanupPcs, SweepPcs
<1> QED
  BY <1>1, <1>5, <1>6, <1>7, <1>8, <1>9, <1>10 DEF WalkStep, Conflict, Abort

\* The invariant is kept by every step.
LEMMA WakeInductive == WakeInv /\ [Next]_vars => WakeInv'
<1>1. ASSUME WakeInv, UNCHANGED vars
      PROVE  WakeInv'
  <2>1. StatusInv' /\ LifeInv'
    BY <1>1, StatusInductive, LifeInductive DEF WakeInv
  <2> QED
    BY <1>1, <2>1 DEF WakeInv, vars, MDClosing, CachedOpen, AtRest, UpToDate, ClaimAhead,
       SeenSettled, MDApplied, MDAhead, OnNames, SeenClaim, SeenMD, Seen,
       BuildMachineHealthCheck
<1>2. ASSUME WakeInv, Next
      PROVE  WakeInv'
  <2>1. StatusInv' /\ LifeInv'
    BY <1>2, StatusInductive, LifeInductive DEF WakeInv
  <2>2. MDClosing'
    BY <1>2, ClosingStep DEF WakeInv
  <2>3. ASSUME ~queued'
        PROVE  IF pc' = "idle" THEN AtRest' ELSE UpToDate'
    <3>1. TypeOK
      BY <1>2 DEF WakeInv, LifeInv
    <3>2. CASE Begin
      BY <1>2, <2>3, <3>2, BeginStep
    <3>3. CASE ~Begin
      <4>1. ~queued
        BY <1>2, <2>3, <3>1, <3>3, Unwoken
      <4>2. CASE WalkStep
        BY <1>2, <2>3, <4>1, <4>2, WalkOn
      <4>3. CASE WriteStep
        BY <1>2, <2>3, <4>1, <4>3, EndStep
      <4>4. CASE SetInitialPhase \/ AddFinalizer \/ SetDeletingPhase \/ RemoveFinalizer
        BY <1>2, <2>3, <4>1, <4>4, ClaimWriteStep
      <4>5. CASE User \/ TimeoutExpires \/ Capi \/ GarbageCollect \/ Sync
        <5>1. CASE pc = "idle"
          BY <1>2, <2>3, <4>1, <5>1, IdleStep
        <5>2. CASE pc # "idle"
          BY <1>2, <2>3, <4>1, <4>5, <5>2, OthersStep
        <5> QED
          BY <5>1, <5>2
      <4> QED
        BY <1>2, <3>3, <4>2, <4>3, <4>4, <4>5
        DEF Next, ReconcileStep, Fault, WalkStep, WriteStep
    <3> QED
      BY <3>2, <3>3
  <2> QED
    BY <2>1, <2>2, <2>3 DEF WakeInv
<1> QED
  BY <1>1, <1>2

\* A claim out of the queue is as its last reconcile left it.
LEMMA WakeMeansDone == WakeInv => SleepsOnlyWhenDone
<1> SUFFICES ASSUME WakeInv, pc = "idle", ~queued, CachesInSync
             PROVE  CASE claim.life = "live" /\ ~claim.paused -> Settled
                      [] claim.life = "live" /\ claim.paused  -> claim.status.phase = "Paused"
                      [] claim.life # "live" -> claim.life = "gone"
  BY DEF SleepsOnlyWhenDone
<1>1. TypeOK /\ Lives /\ MDClosing /\ AtRest
  BY DEF WakeInv, LifeInv
<1>2. SeenClaim = claim /\ SeenMD = md
  BY DEF CachesInSync
<1>3. claim \in Claims /\ md \in MDs /\ tmpl \in Tmpls
  BY <1>1 DEF TypeOK, Shapes
<1>4. /\ claim.life = "live" /\ claim.paused => claim.status.phase = "Paused"
      /\ claim.life # "live" => claim.life = "gone"
      /\ claim.life = "live" /\ ~claim.paused => SeenSettled
  BY <1>1, <1>2, <1>3 DEF AtRest, ClaimAhead, Lives, Claims
<1>5. CASE claim.life = "live" /\ ~claim.paused
  <2>1. md.names = Rendered[claim.spec, tmpl] /\ md.spec = claim.spec
    BY <1>2, <1>4, <1>5 DEF SeenSettled, MDApplied, MDAhead, OnNames
  <2>2. md.state # "absent"
    <3>1. md.spec # None
      BY <1>3, <2>1, NamesAssumption DEF Claims
    <3>2. md.state = "absent" => md = NoMD
      BY <1>1 DEF TypeOK, Assigned
    <3> QED
      BY <3>1, <3>2 DEF NoMD
  <2>3. md.state = "live"
    BY <1>1, <1>3, <1>5, <2>2 DEF MDClosing, MDs
  <2>4. Settled
    BY <1>2, <1>4, <1>5, <2>1, <2>3 DEF SeenSettled, Settled
  <2> QED
    BY <1>5, <2>4
<1>6. CASE ~(claim.life = "live" /\ ~claim.paused)
  BY <1>4, <1>6
<1> QED
  BY <1>5, <1>6

\* No wakeup is lost, whichever caches lag: when the workqueue is empty, no
\* reconcile runs and the caches have caught up, an unpaused claim is what the
\* user asked for and says so, a paused one shows phase Paused, and a deleted one
\* is gone (Reconcile's requeues and the watches of SetupWithManager).
THEOREM NoWakeupLost == Spec => []SleepsOnlyWhenDone
BY WakeMeansDone, WakeInit, WakeInductive, PTL DEF Spec
=============================================================================
