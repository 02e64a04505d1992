------------------------ MODULE ClaimController_proofs ------------------------
(***************************************************************************)
(* Proofs about ClaimController, for every set of specs, templates and     *)
(* names, every rendering function and every bound.                        *)
(***************************************************************************)
EXTENDS ClaimController, TLAPS

-----------------------------------------------------------------------------
(* Types of the operators                                                  *)

\* The names a pair stands for are references.
LEMMA RefsOfType ==
    ASSUME NEW names \in Names \cup {None}
    PROVE  RefsOf(names) \subseteq Refs
BY NamesAssumption DEF RefsOf, Names, Refs

\* The constant records are of their types.
LEMMA ConstantTypes ==
    NoStatus \in Status /\ NoMD \in MDs /\ NoLocal \in Locals
BY DEF NoStatus, Status, Phases, NoMD, MDs, NoLocal, Locals, Refs, Names

\* Reconcile dispatches a claim to one of the reconciler's locations.
LEMMA RouteType ==
    ASSUME NEW c \in Claims
    PROVE  Route(c) \in {"idle", "delMHC", "delPhase", "pause", "render", "initPhase",
                         "addFinalizer"}
BY DEF Route, Claims

\* Resuming a claim in memory keeps its status a status.
LEMMA ResumedType ==
    ASSUME NEW c \in Claims
    PROVE  Resumed(c) \in Status
BY DEF Resumed, Claims, Status

\* What is superseded are references.
LEMMA SupersededType ==
    ASSUME NEW st \in Status, NEW names \in Names \cup {None}
    PROVE  Superseded(st, names) \subseteq Refs
<1>1. RefsOf(st.current) \subseteq Refs
  BY RefsOfType DEF Status
<1>2. st.pending \subseteq Refs
  BY DEF Status
<1> QED
  BY <1>1, <1>2 DEF Superseded

\* What the reconciler sees of the claim and of the MD has the right type.
LEMMA SeenType ==
    ASSUME TypeOK
    PROVE  SeenClaim \in Claims /\ SeenMD \in MDs
BY DEF TypeOK, Shapes, SeenClaim, SeenMD, Seen

-----------------------------------------------------------------------------
(* Type correctness                                                        *)

\* Every status the reconciler writes is a status.
LEMMA StatusTypes ==
    ASSUME NEW st \in Status, NEW still \in SUBSET Refs, NEW phase \in Phases
    PROVE  /\ PausedStatus(st) \in Status /\ FailedStatus(st) \in Status
           /\ RolloutStartedStatus(st) \in Status /\ ReadyStatus(st) \in Status
           /\ DegradedStatus(st) \in Status /\ UpdatingStatus(st) \in Status
           /\ CleanedUpStatus(st, still) \in Status /\ PhaseStatus(st, phase) \in Status
           /\ \A names \in Names \cup {None}, healing \in BOOLEAN :
                 AppliedStatus(st, names, healing) \in Status
<1> USE DEF Status, Phases
<1>1. PausedStatus(st) \in Status
  BY DEF PausedStatus
<1>2. FailedStatus(st) \in Status
  BY DEF FailedStatus
<1>3. RolloutStartedStatus(st) \in Status
  BY DEF RolloutStartedStatus
<1>4. ReadyStatus(st) \in Status
  BY DEF ReadyStatus
<1>5. DegradedStatus(st) \in Status
  BY DEF DegradedStatus
<1>6. UpdatingStatus(st) \in Status
  BY DEF UpdatingStatus
<1>7. CleanedUpStatus(st, still) \in Status
  BY DEF CleanedUpStatus, RolloutCompleteStatus
<1>8. PhaseStatus(st, phase) \in Status
  BY DEF PhaseStatus
<1>9. ASSUME NEW names \in Names \cup {None}, NEW healing \in BOOLEAN
      PROVE  AppliedStatus(st, names, healing) \in Status
  BY DEF AppliedStatus
<1> QED
  BY <1>1, <1>2, <1>3, <1>4, <1>5, <1>6, <1>7, <1>8, <1>9

\* A status write that ends the reconcile preserves the shapes.
LEMMA WriteAndEndShapes ==
    ASSUME Shapes, NEW st \in Status, NEW requeueAfter \in BOOLEAN,
           WriteStatusAndEnd(st, requeueAfter), overdue' \in BOOLEAN
    PROVE  Shapes'
<1>1. claim' \in Claims
  BY DEF Shapes, WriteStatusAndEnd, WriteStatus, Claims
<1>2. queued' \in BOOLEAN
  BY DEF WriteStatusAndEnd, Enqueue
<1>3. loc' \in Locals /\ pc' \in Pcs /\ fresh' \in BOOLEAN
  BY ConstantTypes DEF WriteStatusAndEnd, Done, Pcs
<1> QED
  BY <1>1, <1>2, <1>3 DEF Shapes, WriteStatusAndEnd, apiVars

\* Before the first reconcile everything is of its type.
LEMMA TypeInit == Init => TypeOK
<1> SUFFICES ASSUME Init PROVE TypeOK
  OBVIOUS
<1>1. claim \in Claims
  BY ConstantTypes DEF Init, Claims
<1>2. edits \in 0..MaxEdits /\ faults \in 0..MaxFaults
  BY BoundAssumption DEF Init
<1>3. cache \in [claim : Claims, md : MDs, ms : SUBSET Names, kct : SUBSET Kcts]
  BY <1>1, ConstantTypes DEF Init
<1>4. md = NoMD /\ md \in MDs /\ pc = "idle" /\ loc \in Locals
  BY ConstantTypes DEF Init
<1>5. fresh \in BOOLEAN /\ queued \in BOOLEAN /\ overdue \in BOOLEAN
  BY DEF Init
<1>6. Shapes
  BY <1>1, <1>2, <1>3, <1>4, <1>5 DEF Init, Shapes, Pcs
<1>7. Assigned
  BY <1>4 DEF Assigned, NoMD, RenderedPcs
<1> QED
  BY <1>6, <1>7 DEF TypeOK

\* A step of a reconcile that is running preserves the shapes ...
LEMMA ShapesReconcile ==
    ASSUME TypeOK, ReconcileStep
    PROVE  Shapes'
<1> USE ConstantTypes DEF Pcs, WritePcs
<1> Shapes /\ Assigned
  BY DEF TypeOK
<1> loc.status \in Status /\ loc.still \in SUBSET Refs /\ loc.names \in Names \cup {None}
  BY DEF Shapes, Locals
<1>1. CASE Begin
  <2>1. SeenClaim \in Claims
    BY SeenType
  <2>2. pc' \in Pcs
    BY <1>1, <2>1, RouteType DEF Begin
  <2>3. loc' \in Locals
    <3>1. SeenClaim.spec \in Specs /\ Resumed(SeenClaim) \in Status
      BY <2>1, ResumedType DEF Claims
    <3>2. [NoLocal EXCEPT !.spec = SeenClaim.spec, !.status = Resumed(SeenClaim)] \in Locals
      BY <3>1 DEF Locals
    <3> QED
      BY <1>1, <3>2 DEF Begin, Shapes
  <2>4. fresh' \in BOOLEAN /\ queued' \in BOOLEAN
    BY <1>1 DEF Begin, Shapes
  <2> QED
    BY <1>1, <2>2, <2>3, <2>4 DEF Begin, Shapes, apiVars
<1>2. CASE Conflict
  BY <1>2 DEF Conflict, Retry, Done, Shapes, apiVars
<1>3. CASE ReconcilePaused
  BY <1>3, WriteAndEndShapes, StatusTypes DEF ReconcilePaused, Shapes, Phases
<1>4. CASE SetInitialPhase
  <2>1. PhaseStatus(loc.status, "Provisioning") \in Status
    BY StatusTypes DEF Phases
  <2>2. claim' \in Claims /\ loc' \in Locals
    BY <1>4, <2>1 DEF SetInitialPhase, WriteStatus, Shapes, Claims, Locals
  <2> QED
    BY <1>4, <2>2 DEF SetInitialPhase, Shapes, apiVars, Enqueue
<1>5. CASE AddFinalizer
  <2>1. claim' \in Claims /\ loc' \in Locals
    BY <1>5 DEF AddFinalizer, Shapes, Claims, Locals
  <2> QED
    BY <1>5, <2>1 DEF AddFinalizer, Shapes, apiVars, Enqueue
<1>6. CASE RenderTemplates
  <2>1. Rendered[loc.spec, tmpl] \in Names \cup {RenderError}
    BY <1>6, RenderAssumption DEF RenderTemplates, Shapes, Assigned
  <2>2. loc' \in Locals
    BY <1>6, <2>1 DEF RenderTemplates, Shapes, Locals, Goto
  <2> QED
    BY <1>6, <2>2 DEF RenderTemplates, Shapes, apiVars, Goto
<1>7. CASE SetFailed
  BY <1>7, WriteAndEndShapes, StatusTypes DEF SetFailed, Shapes, Phases
<1>8. CASE EnsureBMT
  <2>1. loc.names.bmt \in Refs
    BY <1>8 DEF EnsureBMT, Assigned, RenderedPcs, Names, Refs
  <2> QED
    BY <1>8, <2>1 DEF EnsureBMT, Shapes, Goto
<1>9. CASE EnsureKCT
  <2>1. loc.names.kct \in Refs
    BY <1>9 DEF EnsureKCT, Assigned, RenderedPcs, Names, Refs
  <2> QED
    BY <1>9, <2>1 DEF EnsureKCT, Shapes, Goto
<1>10. CASE EnsureMachineDeployment
  <2>1. BuildMachineDeployment(md, loc.names, loc.spec) \in MDs
    BY <1>10 DEF BuildMachineDeployment, Shapes, MDs, Locals
  <2>2. md' \in MDs
    BY <1>10, <2>1 DEF EnsureMachineDeployment, Shapes
  <2>3. loc' \in Locals
    BY <1>10, SupersededType DEF EnsureMachineDeployment, Shapes, Locals, Status, Retry, Done
  <2> QED
    BY <1>10, <2>2, <2>3 DEF EnsureMachineDeployment, Shapes, Retry, Done, Enqueue
<1>11. CASE EnsureMachineHealthCheck
  <2>1. AppliedStatus(loc.status, loc.names, loc.spec \in WantsMHC) \in Status
    <3>1. (loc.spec \in WantsMHC) \in BOOLEAN
      OBVIOUS
    <3> QED
      BY <3>1, StatusTypes DEF Phases
  <2>2. loc' \in Locals
    BY <1>11, <2>1 DEF EnsureMachineHealthCheck, Shapes, Locals
  <2>3. mhc' \in Specs \cup {None}
    BY <1>11, SpecsAssumption DEF EnsureMachineHealthCheck, BuildMachineHealthCheck
  <2>4. pc' \in Pcs /\ queued' \in BOOLEAN
    BY <1>11 DEF EnsureMachineHealthCheck, Shapes
  <2> QED
    BY <1>11, <2>2, <2>3, <2>4 DEF EnsureMachineHealthCheck, Shapes
<1>12. CASE StartRollout
  BY <1>12, WriteAndEndShapes, StatusTypes DEF StartRollout, Shapes, Phases
<1>13. CASE SetReady
  BY <1>13, WriteAndEndShapes, StatusTypes DEF SetReady, Shapes, Phases
<1>14. CASE TrackRollout
  <2>1. loc' \in Locals
    BY <1>14 DEF TrackRollout, Shapes, Locals, Status, Retry, Done, Goto
  <2>2. pc' \in Pcs /\ fresh' \in BOOLEAN /\ queued' \in BOOLEAN
    BY <1>14 DEF TrackRollout, Shapes, Retry, Done, Goto
  <2> QED
    BY <1>14, <2>1, <2>2 DEF TrackRollout, Shapes, apiVars
<1>15. CASE SetDegraded
  BY <1>15, WriteAndEndShapes, StatusTypes DEF SetDegraded, Shapes, Phases
<1>16. CASE SetUpdating
  BY <1>16, WriteAndEndShapes, StatusTypes DEF SetUpdating, Shapes, Phases
<1>17. CASE CheckOldTemplate
  <2>1. PICK ref \in loc.todo :
            \/ loc' = [loc EXCEPT !.todo = @ \ {ref}, !.still = @ \cup {ref}]
            \/ loc' = [loc EXCEPT !.todo = @ \ {ref}, !.victim = ref]
    BY <1>17 DEF CheckOldTemplate
  <2>2. ref \in Refs /\ loc \in Locals
    BY DEF Shapes, Locals
  <2>3. [loc EXCEPT !.todo = @ \ {ref}, !.still = @ \cup {ref}] \in Locals
    BY <2>2 DEF Locals
  <2>4. [loc EXCEPT !.todo = @ \ {ref}, !.victim = ref] \in Locals
    BY <2>2 DEF Locals
  <2>5. loc' \in Locals
    BY <2>1, <2>3, <2>4
  <2> QED
    BY <1>17, <2>5 DEF CheckOldTemplate, Shapes, Goto, apiVars
<1>18. CASE DeleteOldTemplate
  <2>1. loc' \in Locals
    BY <1>18 DEF DeleteOldTemplate, Shapes, Locals
  <2> QED
    BY <1>18, <2>1 DEF DeleteOldTemplate, Shapes, Goto
<1>19. CASE LoopDone
  BY <1>19 DEF LoopDone, Shapes, Goto, apiVars
<1>20. CASE CompleteRollout
  <2>1. CleanedUpStatus(loc.status, loc.still) \in Status
    BY StatusTypes DEF Phases
  <2> QED
    BY <1>20, <2>1, WriteAndEndShapes DEF CompleteRollout, Shapes
<1>21. CASE SetDeletingPhase
  <2>1. PhaseStatus(loc.status, "Deleting") \in Status
    BY StatusTypes DEF Phases
  <2>2. claim' \in Claims /\ loc' \in Locals
    BY <1>21, <2>1 DEF SetDeletingPhase, WriteStatus, Shapes, Claims, Locals
  <2> QED
    BY <1>21, <2>2 DEF SetDeletingPhase, Shapes, apiVars, Enqueue
<1>22. CASE DeleteMachineHealthCheck
  BY <1>22 DEF DeleteMachineHealthCheck, Shapes
<1>23. CASE DeleteMachineDeployment
  <2>1. md' \in MDs
    BY <1>23 DEF DeleteMachineDeployment, Shapes, MDs
  <2>2. RefsOf(loc.status.current) \cup loc.status.pending \subseteq Refs
    BY RefsOfType DEF Status
  <2>3. loc' \in Locals
    BY <1>23, <2>2 DEF DeleteMachineDeployment, Shapes, Locals, Retry, Done, Goto
  <2> QED
    BY <1>23, <2>1, <2>3 DEF DeleteMachineDeployment, Shapes, Retry, Done, Goto
<1>24. CASE DeleteOwnTemplate
  <2>1. loc' \in Locals
    BY <1>24 DEF DeleteOwnTemplate, Shapes, Locals
  <2>2. templates' \subseteq Refs /\ faults' \in 0..MaxFaults
    BY <1>24, BoundAssumption DEF DeleteOwnTemplate, Shapes
  <2> QED
    BY <1>24, <2>1, <2>2 DEF DeleteOwnTemplate, Shapes, Goto
<1>25. CASE OwnTemplatesDone
  BY <1>25 DEF OwnTemplatesDone, Shapes, Goto, apiVars
<1>26. CASE RemoveFinalizer
  <2>1. claim' \in Claims
    BY <1>26 DEF RemoveFinalizer, Shapes, Claims
  <2> QED
    BY <1>26, <2>1 DEF RemoveFinalizer, Shapes, Done, Enqueue, apiVars
<1> QED
  BY <1>1, <1>2, <1>3, <1>4, <1>5, <1>6, <1>7, <1>8, <1>9, <1>10, <1>11, <1>12, <1>13,
     <1>14, <1>15, <1>16, <1>17, <1>18, <1>19, <1>20, <1>21, <1>22, <1>23, <1>24,
     <1>25, <1>26 DEF ReconcileStep

\* ... and what has to be set at each location.
LEMMA AssignedReconcile ==
    ASSUME TypeOK, ReconcileStep
    PROVE  Assigned'
<1> Shapes /\ Assigned /\ loc \in Locals
  BY DEF TypeOK, Shapes
<1> USE DEF Assigned, RenderedPcs
<1>1. CASE Begin
  <2>1. SeenClaim.spec \in Specs /\ Route(SeenClaim) \notin RenderedPcs
    BY SeenType, RouteType DEF Claims
  <2> QED
    BY <1>1, <2>1, ConstantTypes DEF Begin, apiVars, Locals
<1>2. CASE Conflict \/ ReconcilePaused \/ SetFailed \/ StartRollout \/ SetReady \/ SetDegraded
           \/ SetUpdating \/ CompleteRollout \/ RemoveFinalizer
  <2>1. pc' = "idle" /\ md' = md
    BY <1>2 DEF Conflict, ReconcilePaused, SetFailed, StartRollout, SetReady, SetDegraded,
                SetUpdating, CompleteRollout, RemoveFinalizer, WriteStatusAndEnd, Retry, Done,
                apiVars
  <2> QED
    BY <2>1
<1>3. CASE SetInitialPhase \/ AddFinalizer \/ SetDeletingPhase
  <2>1. /\ pc' \in {"addFinalizer", "render", "delMHC"} /\ md' = md
        /\ loc'.spec = loc.spec /\ pc # "idle"
    BY <1>3 DEF SetInitialPhase, AddFinalizer, SetDeletingPhase, apiVars, Locals
  <2> QED
    BY <2>1
<1>4. CASE RenderTemplates
  <2>1. Rendered[loc.spec, tmpl] \in Names \cup {RenderError}
    BY <1>4, RenderAssumption DEF RenderTemplates, Shapes
  <2>2. /\ md' = md /\ loc'.spec = loc.spec /\ loc.spec \in Specs
        /\ pc' = "fail" \/ (pc' = "bmt" /\ loc'.names \in Names)
    BY <1>4, <2>1 DEF RenderTemplates, Goto, apiVars, Locals
  <2> QED
    BY <2>2
<1>5. CASE EnsureBMT \/ EnsureKCT \/ LoopDone \/ OwnTemplatesDone \/ DeleteMachineHealthCheck
  <2>1. /\ md' = md /\ loc' = loc /\ pc # "idle" /\ pc' # "delete"
        /\ pc' \in RenderedPcs => pc \in RenderedPcs
    BY <1>5 DEF EnsureBMT, EnsureKCT, LoopDone, OwnTemplatesDone, DeleteMachineHealthCheck,
                Goto, apiVars
  <2> QED
    BY <2>1
<1>6. CASE EnsureMachineDeployment
  <2>1. md' # md => md' = BuildMachineDeployment(md, loc.names, loc.spec)
    BY <1>6 DEF EnsureMachineDeployment
  <2>2. LET m == BuildMachineDeployment(md, loc.names, loc.spec)
        IN  m.state # "absent" /\ m.names = loc.names
    BY DEF BuildMachineDeployment, Shapes, MDs
  <2>3. loc.names \in Names /\ loc.spec \in Specs
    BY <1>6 DEF EnsureMachineDeployment
  <2>4. \/ pc' = "idle"
        \/ pc' = "mhc" /\ loc'.spec = loc.spec /\ loc'.names = loc.names
    BY <1>6 DEF EnsureMachineDeployment, Retry, Done, Locals
  <2> QED
    BY <2>1, <2>2, <2>3, <2>4
<1>7. CASE EnsureMachineHealthCheck
  <2>1. /\ md' = md /\ pc = "mhc" /\ loc'.spec = loc.spec /\ loc'.names = loc.names
        /\ pc' \in {"start", "track", "ready"}
    BY <1>7 DEF EnsureMachineHealthCheck, Locals
  <2> QED
    BY <2>1
<1>8. CASE TrackRollout
  <2>1. /\ md' = md /\ pc = "track"
        /\ \/ pc' = "idle"
           \/ /\ pc' \in {"sweep", "degrade", "progress"}
              /\ loc'.spec = loc.spec /\ loc'.names = loc.names
    BY <1>8 DEF TrackRollout, Retry, Done, Goto, apiVars, Locals
  <2> QED
    BY <2>1
<1>9. CASE CheckOldTemplate
  <2>1. PICK ref \in loc.todo :
            \/ /\ pc' = "sweep"
               /\ loc' = [loc EXCEPT !.todo = @ \ {ref}, !.still = @ \cup {ref}]
            \/ /\ pc' = "delete"
               /\ loc' = [loc EXCEPT !.todo = @ \ {ref}, !.victim = ref]
    BY <1>9 DEF CheckOldTemplate, Goto
  <2>2. /\ loc'.spec = loc.spec /\ loc'.names = loc.names
        /\ pc' = "delete" => loc'.victim \in Refs
    BY <2>1 DEF Locals
  <2>3. pc = "sweep" /\ md' = md
    BY <1>9 DEF CheckOldTemplate, apiVars
  <2> QED
    BY <2>1, <2>2, <2>3
<1>10. CASE DeleteOldTemplate
  <2>1. /\ md' = md /\ pc = "delete" /\ pc' = "sweep"
        /\ loc'.spec = loc.spec /\ loc'.names = loc.names
    BY <1>10 DEF DeleteOldTemplate, Goto, Locals
  <2> QED
    BY <2>1
<1>11. CASE DeleteMachineDeployment
  <2>1. /\ pc = "delMD" /\ pc' \in {"idle", "delTemplates"}
        /\ pc' # "idle" => loc'.spec = loc.spec
    BY <1>11 DEF DeleteMachineDeployment, Retry, Done, Goto, Locals
  <2>2. \/ md' = md
        \/ md.state # "absent" /\ md' = [md EXCEPT !.state = "deleting"]
    BY <1>11 DEF DeleteMachineDeployment
  <2>3. IF md'.state = "absent" THEN md' = NoMD ELSE md'.names \in Names
    BY <2>2 DEF Shapes, MDs
  <2> QED
    BY <2>1, <2>3
<1>12. CASE DeleteOwnTemplate
  <2>1. md' = md /\ pc = "delTemplates" /\ pc' = "delTemplates" /\ loc'.spec = loc.spec
    BY <1>12 DEF DeleteOwnTemplate, Goto, Locals
  <2> QED
    BY <2>1
<1> QED
  BY <1>1, <1>2, <1>3, <1>4, <1>5, <1>6, <1>7, <1>8, <1>9, <1>10, <1>11, <1>12
  DEF ReconcileStep

\* Faults, the user, the clock, the caches, Cluster API and garbage collection.
LEMMA TypeEnvironment ==
    ASSUME TypeOK,
           Fault \/ User \/ TimeoutExpires \/ Sync \/ Capi \/ GarbageCollect
    PROVE  TypeOK'
<1> USE ConstantTypes DEF TypeOK
<1> Shapes /\ Assigned /\ loc \in Locals
  BY DEF Shapes
<1>1. CASE Abort
  <2>1. faults' \in 0..MaxFaults
    BY <1>1, BoundAssumption DEF Abort, Shapes
  <2> QED
    BY <1>1, <2>1 DEF Abort, Retry, Done, Shapes, Assigned, RenderedPcs, Pcs, apiVars
<1>2. CASE OldTemplateKept
  <2>1. faults' \in 0..MaxFaults
    <3>1. faults < MaxFaults /\ faults' = faults + 1
      BY <1>2 DEF OldTemplateKept
    <3> QED
      BY <3>1, BoundAssumption DEF Shapes
  <2>2. PICK ref \in Refs :
            \/ loc' = [loc EXCEPT !.todo = @ \ {ref}, !.still = @ \cup {ref}]
            \/ loc' = [loc EXCEPT !.victim = None, !.still = @ \cup {ref}]
    BY <1>2 DEF OldTemplateKept, Assigned, Locals
  <2>3. loc' \in Locals /\ loc'.spec = loc.spec /\ loc'.names = loc.names
    <3>1. CASE loc' = [loc EXCEPT !.todo = @ \ {ref}, !.still = @ \cup {ref}]
      BY <3>1 DEF Locals
    <3>2. CASE loc' = [loc EXCEPT !.victim = None, !.still = @ \cup {ref}]
      BY <3>2 DEF Locals
    <3> QED
      BY <2>2, <3>1, <3>2
  <2> QED
    BY <1>2, <2>1, <2>3 DEF OldTemplateKept, Goto, Shapes, Assigned, RenderedPcs, Pcs, apiVars
<1>3. CASE User
  <2>1. edits' \in 0..MaxEdits
    <3>1. edits < MaxEdits /\ edits' = edits + 1
      BY <1>3 DEF User, EditSpec, TogglePaused, DeleteClaim, EditTemplate, UserWrite
    <3> QED
      BY <3>1, BoundAssumption DEF Shapes
  <2>2. claim' \in Claims
    BY <1>3 DEF User, EditSpec, TogglePaused, DeleteClaim, EditTemplate, UserWrite, Shapes,
                Claims
  <2>3. tmpl' \in Tmpls /\ overdue' \in BOOLEAN /\ fresh' \in BOOLEAN /\ queued' \in BOOLEAN
    BY <1>3 DEF User, EditSpec, TogglePaused, DeleteClaim, EditTemplate, UserWrite, Shapes,
                apiVars, Enqueue
  <2>4. UNCHANGED <<templates, md, machineSets, mhc, cache, pc, loc, faults>>
    BY <1>3 DEF User, EditSpec, TogglePaused, DeleteClaim, EditTemplate, UserWrite, apiVars
  <2> QED
    BY <2>1, <2>2, <2>3, <2>4 DEF Shapes, Assigned
<1>4. CASE TimeoutExpires
  BY <1>4 DEF TimeoutExpires, Shapes, Assigned, apiVars, reconVars
<1>5. CASE Sync
  <2>1. cache' \in [claim : Claims, md : MDs, ms : SUBSET Names, kct : SUBSET Kcts]
    BY <1>5 DEF Sync, SyncClaim, SyncMD, SyncMS, SyncKCT, Shapes
  <2> QED
    BY <1>5, <2>1 DEF Sync, SyncClaim, SyncMD, SyncMS, SyncKCT, Shapes, Assigned, userVars,
                      reconVars
<1>6. CASE CapiCreateMachineSet
  <2>1. machineSets' \subseteq Names
    BY <1>6 DEF CapiCreateMachineSet, MSWrite, Shapes, Assigned
  <2> QED
    BY <1>6, <2>1 DEF CapiCreateMachineSet, MSWrite, Shapes, Assigned, reconVars
<1>7. CASE CapiStartRollout \/ CapiFinishRollout \/ CapiDeleteMD
  <2>1. md' \in MDs /\ IF md'.state = "absent" THEN md' = NoMD ELSE md'.names \in Names
    BY <1>7 DEF CapiStartRollout, CapiFinishRollout, CapiDeleteMD, MDWrite, Shapes, Assigned,
                MDs, NoMD
  <2> QED
    BY <1>7, <2>1 DEF CapiStartRollout, CapiFinishRollout, CapiDeleteMD, MDWrite, Shapes,
                      Assigned, Enqueue
<1>8. CASE CapiDeleteMachineSet
  BY <1>8 DEF CapiDeleteMachineSet, MSWrite, Shapes, Assigned, reconVars
<1>9. CASE GarbageCollect
  <2>1. md' \in MDs /\ IF md'.state = "absent" THEN md' = NoMD ELSE md'.names \in Names
    BY <1>9 DEF GarbageCollect, Shapes, Assigned, MDs
  <2> QED
    BY <1>9, <2>1 DEF GarbageCollect, Shapes, Assigned, reconVars
<1>10. CASE TemplateUnreadable
  <2>1. faults' \in 0..MaxFaults
    BY <1>10, BoundAssumption DEF TemplateUnreadable, Shapes
  <2> QED
    BY <1>10, <2>1 DEF TemplateUnreadable, Goto, Shapes, Assigned, RenderedPcs, Pcs, WritePcs,
                       apiVars
<1> QED
  BY <1>1, <1>2, <1>3, <1>4, <1>5, <1>6, <1>7, <1>8, <1>9, <1>10 DEF Fault, Capi

\* The type invariant is kept by every step.
LEMMA TypeInductive == TypeOK /\ [Next]_vars => TypeOK'
<1>1. TypeOK /\ UNCHANGED vars => TypeOK'
  BY DEF TypeOK, Shapes, Assigned, vars
<1> QED
  BY <1>1, ShapesReconcile, AssignedReconcile, TypeEnvironment DEF Next, TypeOK

\* The variables of the reconciler, of the API server and of the caches always
\* have the shapes the code gives them, and no step uses a name or a spec that
\* has not been set, whatever fails or lags.
THEOREM TypeCorrect == Spec => []TypeOK
BY TypeInit, TypeInductive, PTL DEF Spec

-----------------------------------------------------------------------------
(* The status is sound                                                     *)
(*                                                                         *)
(* Bookkeeping and ConditionsHonest speak of the stored status.  They are  *)
(* inductive once the same is known of every copy a later write can start  *)
(* from: the cached claim and the reconciler's copy, whose pendingDeletion *)
(* runs ahead of the rest of it between the update of the MD and the write *)
(* that starts the rollout.                                                *)

Sound(st) ==
    /\ RefsOf(st.current) \cap st.pending = {}
    /\ st.current = None => st.pending = {}
    /\ st.started <=> st.pending # {}
    /\ st.ready => /\ st.pending = {} /\ st.current # None
                   /\ st.phase \in {"Ready", "Deleting"}
    /\ st.complete => st.pending = {}
    /\ st.timedOut => st.pending # {}
    /\ st.phase = "Degraded" => st.timedOut

SweepPcs   == {"sweep", "delete", "finish"}
CleanupPcs == {"track", "degrade", "progress"} \cup SweepPcs

LocalSound ==
    /\ pc \notin {"idle", "mhc", "start"} => Sound(loc.status)
    /\ pc = "initPhase" => loc.status.phase = "None"
    /\ pc = "mhc" =>
         /\ RefsOf(loc.names) \cap loc.status.pending = {}
         /\ IF HashChanged(loc.status, loc.names) THEN loc.status.pending # {}
                                                  ELSE Sound(loc.status)
    /\ pc = "start" =>
         /\ loc.status.current # None
         /\ RefsOf(loc.status.current) \cap loc.status.pending = {}
         /\ loc.status.pending # {}
    /\ pc = "ready" => loc.status.pending = {} /\ loc.status.current # None
    /\ pc \in CleanupPcs =>
         loc.status.pending # {} /\ loc.status.current # None
    /\ IF pc \in SweepPcs
       THEN loc.todo \cup loc.still \subseteq loc.status.pending
       ELSE loc.still = {}
    /\ pc = "delete" => loc.victim \in loc.status.pending

StatusInv ==
    /\ TypeOK
    /\ Sound(claim.status)
    /\ Sound(cache.claim.status)
    /\ LocalSound

\* Pairs of names that differ leave a name behind.
LEMMA NamesDiffer ==
    ASSUME NEW a \in Names, NEW b \in Names, a # b
    PROVE  RefsOf(a) \ RefsOf(b) # {}
<1>1. a.bmt # b.bmt \/ a.kct # b.kct
  BY DEF Names
<1>2. a.bmt # b.kct /\ a.kct # b.bmt
  BY NamesAssumption DEF Names
<1>3. a # None /\ b # None
  BY NamesAssumption
<1> QED
  BY <1>1, <1>2, <1>3 DEF RefsOf

\* What the filter of pendingDeletion guarantees.
LEMMA SupersededSound ==
    ASSUME NEW st \in Status, Sound(st), NEW names \in Names
    PROVE  /\ RefsOf(names) \cap Superseded(st, names) = {}
           /\ HashChanged(st, names) => Superseded(st, names) # {}
           /\ ~HashChanged(st, names) => Superseded(st, names) = st.pending
<1>1. CASE HashChanged(st, names)
  <2>1. st.current \in Names
    BY <1>1 DEF HashChanged, Status
  <2>2. RefsOf(st.current) \ RefsOf(names) # {}
    BY <1>1, <2>1, NamesDiffer DEF HashChanged
  <2> QED
    BY <1>1, <2>2 DEF Superseded
<1>2. CASE ~HashChanged(st, names)
  <2>1. st.current = None \/ st.current = names
    BY <1>2 DEF HashChanged
  <2>2. RefsOf(names) \cap st.pending = {}
    BY <2>1 DEF Sound
  <2> QED
    BY <1>2, <2>2 DEF Superseded
<1> QED
  BY <1>1, <1>2

\* Every status the reconciler writes is sound.
LEMMA WrittenSound ==
    ASSUME NEW st \in Status, Sound(st)
    PROVE  /\ Sound(PausedStatus(st)) /\ Sound(FailedStatus(st))
           /\ Sound(PhaseStatus(st, "Deleting"))
           /\ st.phase = "None" => Sound(PhaseStatus(st, "Provisioning"))
           /\ st.pending # {} => Sound(DegradedStatus(st)) /\ Sound(UpdatingStatus(st))
           /\ st.pending = {} /\ st.current # None => Sound(ReadyStatus(st))
<1> USE DEF Status
<1>1. Sound(PausedStatus(st))
  BY DEF Sound, PausedStatus
<1>2. Sound(FailedStatus(st))
  BY DEF Sound, FailedStatus
<1>3. Sound(PhaseStatus(st, "Deleting"))
  BY DEF Sound, PhaseStatus
<1>4. st.phase = "None" => Sound(PhaseStatus(st, "Provisioning"))
  BY DEF Sound, PhaseStatus
<1>5. st.pending # {} => Sound(DegradedStatus(st))
  BY DEF Sound, DegradedStatus
<1>6. st.pending # {} => Sound(UpdatingStatus(st))
  BY DEF Sound, UpdatingStatus
<1>7. st.pending = {} /\ st.current # None => Sound(ReadyStatus(st))
  BY DEF Sound, ReadyStatus
<1> QED
  BY <1>1, <1>2, <1>3, <1>4, <1>5, <1>6, <1>7

\* The write that starts a rollout and the one that ends completeRollout.
LEMMA RolloutSound ==
    ASSUME NEW st \in Status
    PROVE  /\ (st.current # None /\ st.pending # {} /\ RefsOf(st.current) \cap st.pending = {})
                => Sound(RolloutStartedStatus(st))
           /\ \A still \in SUBSET st.pending :
                Sound(st) /\ st.pending # {} /\ st.current # None
                    => Sound(CleanedUpStatus(st, still))
<1> USE DEF Status
<1>1. (st.current # None /\ st.pending # {} /\ RefsOf(st.current) \cap st.pending = {})
        => Sound(RolloutStartedStatus(st))
  BY DEF Sound, RolloutStartedStatus
<1>2. ASSUME NEW still \in SUBSET st.pending, Sound(st), st.pending # {}, st.current # None
      PROVE  Sound(CleanedUpStatus(st, still))
  <2>1. CASE still = {}
    BY <1>2, <2>1 DEF Sound, CleanedUpStatus, RolloutCompleteStatus
  <2>2. CASE still # {}
    BY <1>2, <2>2 DEF Sound, CleanedUpStatus
  <2> QED
    BY <2>1, <2>2
<1> QED
  BY <1>1, <1>2

\* What Begin hands to the reconcile is as sound as what it read.
LEMMA ResumedSound ==
    ASSUME NEW c \in Claims, Sound(c.status)
    PROVE  /\ Sound(Resumed(c))
           /\ Route(c) = "initPhase" => Resumed(c).phase = "None"
<1>1. Sound(Resumed(c))
  BY DEF Sound, Resumed, Claims, Status
<1>2. Route(c) = "initPhase" => Resumed(c).phase = "None"
  BY DEF Route, Resumed, Claims, Status
<1> QED
  BY <1>1, <1>2

\* A status write that ends the reconcile keeps the statuses sound.
LEMMA WriteAndEndSound ==
    ASSUME StatusInv, NEW st \in Status, Sound(st), NEW requeueAfter \in BOOLEAN,
           WriteStatusAndEnd(st, requeueAfter)
    PROVE  Sound(claim'.status) /\ Sound(cache'.claim.status) /\ LocalSound'
<1>1. claim'.status = st
  BY DEF WriteStatusAndEnd, WriteStatus, StatusInv, TypeOK, Shapes, Claims
<1>2. cache' = cache /\ pc' = "idle" /\ loc'.still = {}
  BY DEF WriteStatusAndEnd, Done, NoLocal
<1> QED
  BY <1>1, <1>2 DEF StatusInv, LocalSound, CleanupPcs, SweepPcs

\* Initially nothing has been promised.
LEMMA StatusInit == Init => StatusInv
<1> SUFFICES ASSUME Init PROVE StatusInv
  OBVIOUS
<1>1. TypeOK
  BY TypeInit
<1>2. claim.status = NoStatus /\ cache.claim.status = NoStatus /\ pc = "idle" /\ loc.still = {}
  BY DEF Init, NoLocal
<1>3. Sound(NoStatus)
  BY DEF Sound, NoStatus, RefsOf
<1> QED
  BY <1>1, <1>2, <1>3 DEF StatusInv, LocalSound, CleanupPcs, SweepPcs

\* Only the reconciler writes statuses.
LEMMA StatusEnvironment ==
    ASSUME StatusInv,
           Fault \/ User \/ TimeoutExpires \/ Sync \/ Capi \/ GarbageCollect
    PROVE  Sound(claim'.status) /\ Sound(cache'.claim.status) /\ LocalSound'
<1> USE DEF StatusInv
<1> claim \in Claims /\ cache \in [claim : Claims, md : MDs, ms : SUBSET Names, kct : SUBSET Kcts]
  BY DEF TypeOK, Shapes
<1>1. CASE Abort
  BY <1>1 DEF Abort, Retry, Done, NoLocal, LocalSound, CleanupPcs, SweepPcs
<1>2. CASE OldTemplateKept
  <2>1. claim' = claim /\ cache' = cache /\ pc' = "sweep"
    BY <1>2 DEF OldTemplateKept, Goto
  <2>2. loc'.status = loc.status /\ loc'.names = loc.names
        /\ loc'.todo \subseteq loc.todo /\ loc'.still \subseteq loc.status.pending
    <3> loc \in Locals
      BY DEF TypeOK, Shapes
    <3>1. CASE pc = "sweep"
      <4>1. PICK ref \in loc.todo :
              loc' = [loc EXCEPT !.todo = @ \ {ref}, !.still = @ \cup {ref}]
        BY <1>2, <3>1 DEF OldTemplateKept
      <4> QED
        BY <4>1, <3>1 DEF LocalSound, CleanupPcs, SweepPcs, Locals
    <3>2. CASE pc = "delete"
      <4>1. loc' = [loc EXCEPT !.victim = None, !.still = @ \cup {loc.victim}]
        BY <1>2, <3>2 DEF OldTemplateKept
      <4> QED
        BY <4>1, <3>2 DEF LocalSound, CleanupPcs, SweepPcs, Locals
    <3> QED
      BY <1>2, <3>1, <3>2 DEF OldTemplateKept
  <2>3. pc \in {"sweep", "delete"}
    BY <1>2 DEF OldTemplateKept
  <2> QED
    BY <2>1, <2>2, <2>3 DEF LocalSound, CleanupPcs, SweepPcs
<1>3. CASE User
  <2>1. claim'.status = claim.status /\ cache' = cache /\ pc' = pc /\ loc' = loc
    <3>1. CASE \E s \in Specs : EditSpec(s)
      BY <1>3, <3>1 DEF EditSpec, UserWrite, Claims
    <3>2. CASE TogglePaused
      BY <1>3, <3>2 DEF TogglePaused, UserWrite, Claims
    <3>3. CASE DeleteClaim
      BY <1>3, <3>3 DEF DeleteClaim, UserWrite, Claims
    <3>4. CASE \E t \in Tmpls : EditTemplate(t)
      BY <1>3, <3>4 DEF EditTemplate
    <3> QED
      BY <1>3, <3>1, <3>2, <3>3, <3>4 DEF User
  <2> QED
    BY <2>1 DEF LocalSound, CleanupPcs, SweepPcs
<1>4. CASE TimeoutExpires
  BY <1>4 DEF TimeoutExpires, reconVars, LocalSound, CleanupPcs, SweepPcs
<1>5. CASE Sync
  <2>1. claim' = claim /\ pc' = pc /\ loc' = loc
    BY <1>5 DEF Sync, SyncClaim, SyncMD, SyncMS, SyncKCT, userVars, reconVars
  <2>2. cache'.claim = claim \/ cache'.claim = cache.claim
    BY <1>5 DEF Sync, SyncClaim, SyncMD, SyncMS, SyncKCT
  <2> QED
    BY <2>1, <2>2 DEF LocalSound, CleanupPcs, SweepPcs
<1>6. CASE Capi
  <2>1. claim' = claim /\ cache' = cache /\ pc' = pc /\ loc' = loc
    BY <1>6 DEF Capi, CapiCreateMachineSet, CapiStartRollout, CapiFinishRollout,
                CapiDeleteMachineSet, CapiDeleteMD, MDWrite, MSWrite, reconVars
  <2> QED
    BY <2>1 DEF LocalSound, CleanupPcs, SweepPcs
<1>7. CASE GarbageCollect
  BY <1>7 DEF GarbageCollect, reconVars, LocalSound, CleanupPcs, SweepPcs
<1>8. CASE TemplateUnreadable
  BY <1>8 DEF TemplateUnreadable, Goto, LocalSound, CleanupPcs, SweepPcs
<1> QED
  BY <1>1, <1>2, <1>3, <1>4, <1>5, <1>6, <1>7, <1>8 DEF Fault

\* Every step of a reconcile starts its write from a sound copy.
LEMMA StatusReconcile ==
    ASSUME StatusInv, ReconcileStep
    PROVE  Sound(claim'.status) /\ Sound(cache'.claim.status) /\ LocalSound'
<1> USE DEF StatusInv
<1> claim \in Claims /\ loc \in Locals
    /\ cache \in [claim : Claims, md : MDs, ms : SUBSET Names, kct : SUBSET Kcts]
  BY DEF TypeOK, Shapes
<1> loc.status \in Status /\ claim.status \in Status
  BY DEF Locals, Claims
<1>1. CASE Begin
  <2>1. claim' = claim /\ cache' = cache
    BY <1>1 DEF Begin
  <2>2. SeenClaim \in Claims /\ Sound(SeenClaim.status)
    BY DEF SeenClaim, Seen
  <2>3. pc' = Route(SeenClaim) /\ loc'.still = {}
        /\ (pc' # "idle" => loc'.status = Resumed(SeenClaim))
    BY <1>1 DEF Begin, NoLocal, LocalSound, SweepPcs
  <2>4. Route(SeenClaim) \notin {"mhc", "start", "ready"} \cup CleanupPcs
    BY <2>2, RouteType DEF CleanupPcs, SweepPcs
  <2> QED
    BY <2>1, <2>2, <2>3, <2>4, ResumedSound DEF LocalSound, CleanupPcs, SweepPcs
<1>2. CASE Conflict
  BY <1>2 DEF Conflict, Retry, Done, NoLocal, LocalSound, CleanupPcs, SweepPcs
<1>3. CASE ReconcilePaused
  <2>1. Sound(PausedStatus(loc.status)) /\ PausedStatus(loc.status) \in Status
    BY <1>3, WrittenSound, StatusTypes DEF ReconcilePaused, LocalSound, Phases
  <2> QED
    BY <1>3, <2>1, WriteAndEndSound DEF ReconcilePaused
<1>4. CASE SetInitialPhase
  <2>1. Sound(PhaseStatus(loc.status, "Provisioning"))
    BY <1>4, WrittenSound DEF SetInitialPhase, LocalSound
  <2>2. claim'.status = PhaseStatus(loc.status, "Provisioning")
        /\ loc'.status = PhaseStatus(loc.status, "Provisioning")
        /\ cache' = cache /\ pc' = "addFinalizer"
        /\ loc'.still = loc.still /\ pc = "initPhase"
    BY <1>4 DEF SetInitialPhase, WriteStatus, Claims, Locals
  <2> QED
    BY <2>1, <2>2 DEF LocalSound, CleanupPcs, SweepPcs
<1>5. CASE AddFinalizer
  <2>1. claim'.status = claim.status /\ loc'.status = claim.status /\ cache' = cache
        /\ pc' = "render" /\ loc'.still = loc.still /\ pc = "addFinalizer"
    BY <1>5 DEF AddFinalizer, Claims, Locals
  <2> QED
    BY <2>1 DEF LocalSound, CleanupPcs, SweepPcs
<1>6. CASE RenderTemplates
  <2>1. claim' = claim /\ loc'.status = loc.status /\ cache' = cache /\ pc' \in {"fail", "bmt"}
    BY <1>6 DEF RenderTemplates, Goto, Locals
  <2>2. pc = "render" /\ loc'.still = loc.still
    BY <1>6 DEF RenderTemplates, Locals
  <2> QED
    BY <2>1, <2>2 DEF LocalSound, CleanupPcs, SweepPcs
<1>7. CASE SetFailed
  <2>1. Sound(FailedStatus(loc.status)) /\ FailedStatus(loc.status) \in Status
    BY <1>7, WrittenSound, StatusTypes DEF SetFailed, LocalSound, Phases
  <2> QED
    BY <1>7, <2>1, WriteAndEndSound DEF SetFailed
<1>8. CASE EnsureBMT
  BY <1>8 DEF EnsureBMT, Goto, LocalSound, CleanupPcs, SweepPcs
<1>9. CASE EnsureKCT
  BY <1>9 DEF EnsureKCT, Goto, LocalSound, CleanupPcs, SweepPcs
<1>10. CASE EnsureMachineDeployment
  <2>0. claim' = claim /\ cache' = cache /\ pc = "md" /\ loc.names \in Names
    BY <1>10 DEF EnsureMachineDeployment, TypeOK, Assigned, RenderedPcs
  <2>1. CASE pc' = "idle"
    <3>1. loc'.still = {}
      BY <1>10, <2>1 DEF EnsureMachineDeployment, Retry, Done, NoLocal
    <3> QED
      BY <2>0, <2>1, <3>1 DEF LocalSound, CleanupPcs, SweepPcs
  <2>2. CASE pc' = "mhc"
    <3>1. loc' = [loc EXCEPT !.status.pending = Superseded(loc.status, loc.names)]
      BY <1>10, <2>2 DEF EnsureMachineDeployment, Retry, Done
    <3>2. Sound(loc.status) /\ loc'.still = {}
      BY <2>0, <3>1 DEF LocalSound, SweepPcs, Locals
    <3>3. RefsOf(loc'.names) \cap loc'.status.pending = {}
      BY <2>0, <3>1, <3>2, SupersededSound DEF Locals, Status
    <3>4. HashChanged(loc'.status, loc'.names) <=> HashChanged(loc.status, loc.names)
      BY <3>1 DEF HashChanged, Locals, Status
    <3>5. HashChanged(loc'.status, loc'.names) => loc'.status.pending # {}
      BY <2>0, <3>1, <3>2, <3>4, SupersededSound DEF Locals, Status
    <3>6. ~HashChanged(loc'.status, loc'.names) => Sound(loc'.status)
      BY <2>0, <3>1, <3>2, <3>4, SupersededSound DEF Locals, Status, Sound
    <3> QED
      BY <2>0, <2>2, <3>2, <3>3, <3>5, <3>6 DEF LocalSound, CleanupPcs, SweepPcs, HashChanged
  <2> QED
    BY <1>10, <2>1, <2>2 DEF EnsureMachineDeployment, Retry, Done
<1>11. CASE EnsureMachineHealthCheck
  <2>0. claim' = claim /\ cache' = cache /\ pc = "mhc" /\ loc.names \in Names
        /\ pc' \in {"start", "track", "ready"}
    BY <1>11 DEF EnsureMachineHealthCheck, TypeOK, Assigned, RenderedPcs
  <2>1. loc.names # None
    BY <2>0, NamesAssumption
  <2>2. loc' = [loc EXCEPT !.status = [loc.status EXCEPT !.current = loc.names,
                                                         !.healing = loc.spec \in WantsMHC]]
    BY <1>11 DEF EnsureMachineHealthCheck, AppliedStatus
  <2>3. loc'.status.current = loc.names /\ loc'.status.pending = loc.status.pending
        /\ loc'.todo = loc.todo /\ loc'.still = loc.still
    BY <2>2 DEF Locals, Status
  <2>4. RefsOf(loc'.status.current) \cap loc'.status.pending = {}
    BY <2>0, <2>3 DEF LocalSound
  <2>5. CASE pc' = "start"
    <3>1. HashChanged(loc.status, loc.names)
      BY <1>11, <2>5 DEF EnsureMachineHealthCheck
    <3> QED
      BY <2>0, <2>1, <2>3, <2>4, <2>5, <3>1 DEF LocalSound, CleanupPcs, SweepPcs
  <2>6. CASE pc' \in {"track", "ready"}
    <3>1. ~HashChanged(loc.status, loc.names)
          /\ (pc' = "track" => loc.status.pending # {})
          /\ (pc' = "ready" => loc.status.pending = {})
      BY <1>11, <2>6 DEF EnsureMachineHealthCheck
    <3>2. Sound(loc.status)
      BY <2>0, <3>1 DEF LocalSound
    <3>3. Sound(loc'.status)
      BY <2>1, <2>2, <2>3, <2>4, <3>2 DEF Sound, Locals, Status
    <3> QED
      BY <2>0, <2>1, <2>3, <2>6, <3>1, <3>3 DEF LocalSound, CleanupPcs, SweepPcs
  <2> QED
    BY <2>0, <2>5, <2>6
<1>12. CASE StartRollout
  <2>1. Sound(RolloutStartedStatus(loc.status)) /\ RolloutStartedStatus(loc.status) \in Status
    BY <1>12, RolloutSound, StatusTypes DEF StartRollout, LocalSound, Phases
  <2> QED
    BY <1>12, <2>1, WriteAndEndSound DEF StartRollout
<1>13. CASE SetReady
  <2>1. Sound(ReadyStatus(loc.status)) /\ ReadyStatus(loc.status) \in Status
    BY <1>13, WrittenSound, StatusTypes DEF SetReady, LocalSound, Phases
  <2> QED
    BY <1>13, <2>1, WriteAndEndSound DEF SetReady
<1>14. CASE TrackRollout
  <2>0. claim' = claim /\ cache' = cache /\ pc = "track"
    BY <1>14 DEF TrackRollout
  <2>1. CASE pc' = "idle"
    <3>1. SeenMD.state = "absent" /\ Retry
      BY <1>14, <2>1 DEF TrackRollout, Goto, SeenMD, Seen, TypeOK, Shapes, MDs
    <3> QED
      BY <2>0, <3>1 DEF Retry, Done, NoLocal, LocalSound, CleanupPcs, SweepPcs
  <2>2. CASE pc' = "sweep"
    <3>1. loc' = [loc EXCEPT !.todo = loc.status.pending]
      BY <1>14, <2>2 DEF TrackRollout, Retry, Done, Goto
    <3> QED
      BY <2>0, <2>2, <3>1 DEF LocalSound, CleanupPcs, SweepPcs, Locals
  <2>3. CASE pc' \in {"degrade", "progress"}
    <3>1. loc' = loc
      BY <1>14, <2>3 DEF TrackRollout, Retry, Done, Goto
    <3> QED
      BY <2>0, <2>3, <3>1 DEF LocalSound, CleanupPcs, SweepPcs
  <2>4. pc' \in {"idle", "sweep", "degrade", "progress"}
    BY <1>14 DEF TrackRollout, Retry, Done, Goto, SeenMD, Seen, TypeOK, Shapes, MDs
  <2> QED
    BY <2>1, <2>2, <2>3, <2>4
<1>15. CASE SetDegraded
  <2>1. Sound(DegradedStatus(loc.status)) /\ DegradedStatus(loc.status) \in Status
    BY <1>15, WrittenSound, StatusTypes DEF SetDegraded, LocalSound, CleanupPcs, Phases
  <2> QED
    BY <1>15, <2>1, WriteAndEndSound DEF SetDegraded
<1>16. CASE SetUpdating
  <2>1. Sound(UpdatingStatus(loc.status)) /\ UpdatingStatus(loc.status) \in Status
    BY <1>16, WrittenSound, StatusTypes DEF SetUpdating, LocalSound, CleanupPcs, Phases
  <2> QED
    BY <1>16, <2>1, WriteAndEndSound DEF SetUpdating
<1>17. CASE CheckOldTemplate
  <2>0. claim' = claim /\ cache' = cache /\ pc = "sweep" /\ pc' \in {"sweep", "delete"}
    BY <1>17 DEF CheckOldTemplate, Goto
  <2>1. PICK ref \in loc.todo :
          \/ pc' = "sweep"
             /\ loc' = [loc EXCEPT !.todo = @ \ {ref}, !.still = @ \cup {ref}]
          \/ pc' = "delete" /\ loc' = [loc EXCEPT !.todo = @ \ {ref}, !.victim = ref]
    BY <1>17 DEF CheckOldTemplate, Goto
  <2>2. ref \in loc.status.pending
    BY <2>0 DEF LocalSound, SweepPcs
  <2>3. loc'.status = loc.status /\ loc'.todo \cup loc'.still \subseteq loc.status.pending
        /\ (pc' = "delete" => loc'.victim = ref)
    <3>1. loc.todo \cup loc.still \subseteq loc.status.pending
      BY <2>0 DEF LocalSound, SweepPcs
    <3>2. CASE pc' = "sweep"
      BY <2>1, <2>2, <3>1, <3>2 DEF Locals
    <3>3. CASE pc' = "delete"
      BY <2>1, <2>2, <3>1, <3>3 DEF Locals
    <3> QED
      BY <2>0, <3>2, <3>3
  <2> QED
    BY <2>0, <2>2, <2>3 DEF LocalSound, CleanupPcs, SweepPcs
<1>18. CASE DeleteOldTemplate
  <2>1. claim' = claim /\ cache' = cache /\ pc = "delete" /\ pc' = "sweep"
    BY <1>18 DEF DeleteOldTemplate, Goto
  <2>2. loc'.status = loc.status /\ loc'.todo = loc.todo /\ loc'.still = loc.still
    BY <1>18 DEF DeleteOldTemplate, Locals
  <2> QED
    BY <2>1, <2>2 DEF LocalSound, CleanupPcs, SweepPcs
<1>19. CASE LoopDone
  BY <1>19 DEF LoopDone, Goto, LocalSound, CleanupPcs, SweepPcs
<1>20. CASE CompleteRollout
  <2>0. loc.still \in SUBSET loc.status.pending /\ loc.still \in SUBSET Refs
    BY <1>20 DEF CompleteRollout, LocalSound, SweepPcs, Locals
  <2>1. Sound(CleanedUpStatus(loc.status, loc.still))
        /\ CleanedUpStatus(loc.status, loc.still) \in Status
    BY <1>20, <2>0, RolloutSound, StatusTypes
       DEF CompleteRollout, LocalSound, CleanupPcs, SweepPcs, Phases
  <2> QED
    BY <1>20, <2>1, WriteAndEndSound DEF CompleteRollout
<1>21. CASE SetDeletingPhase
  <2>1. Sound(PhaseStatus(loc.status, "Deleting"))
    BY <1>21, WrittenSound DEF SetDeletingPhase, LocalSound
  <2>2. claim'.status = PhaseStatus(loc.status, "Deleting")
        /\ loc'.status = PhaseStatus(loc.status, "Deleting")
        /\ cache' = cache /\ pc' = "delMHC" /\ loc'.still = loc.still /\ pc = "delPhase"
    BY <1>21 DEF SetDeletingPhase, WriteStatus, Claims, Locals
  <2> QED
    BY <2>1, <2>2 DEF LocalSound, CleanupPcs, SweepPcs
<1>22. CASE DeleteMachineHealthCheck
  BY <1>22 DEF DeleteMachineHealthCheck, LocalSound, CleanupPcs, SweepPcs
<1>23. CASE DeleteMachineDeployment
  <2>0. claim' = claim /\ cache' = cache /\ pc = "delMD"
    BY <1>23 DEF DeleteMachineDeployment
  <2>1. CASE pc' = "idle"
    BY <1>23, <2>0, <2>1 DEF DeleteMachineDeployment, Retry, Done, Goto, NoLocal, LocalSound,
                             CleanupPcs, SweepPcs
  <2>2. CASE pc' = "delTemplates"
    <3>1. loc'.status = loc.status /\ loc'.still = loc.still
      BY <1>23, <2>2 DEF DeleteMachineDeployment, Retry, Done, Locals
    <3> QED
      BY <2>0, <2>2, <3>1 DEF LocalSound, CleanupPcs, SweepPcs
  <2> QED
    BY <1>23, <2>1, <2>2 DEF DeleteMachineDeployment, Retry, Done, Goto
<1>24. CASE DeleteOwnTemplate
  <2>1. claim' = claim /\ cache' = cache /\ pc = "delTemplates" /\ pc' = "delTemplates"
    BY <1>24 DEF DeleteOwnTemplate, Goto
  <2>2. loc'.status = loc.status /\ loc'.still = loc.still
    BY <1>24 DEF DeleteOwnTemplate, Locals
  <2> QED
    BY <2>1, <2>2 DEF LocalSound, CleanupPcs, SweepPcs
<1>25. CASE OwnTemplatesDone
  BY <1>25 DEF OwnTemplatesDone, Goto, LocalSound, CleanupPcs, SweepPcs
<1>26. CASE RemoveFinalizer
  <2>1. claim'.status = claim.status /\ cache' = cache /\ pc' = "idle" /\ loc'.still = {}
    BY <1>26 DEF RemoveFinalizer, Done, NoLocal, Claims
  <2> QED
    BY <2>1 DEF LocalSound, CleanupPcs, SweepPcs
<1> QED
  BY <1>1, <1>2, <1>3, <1>4, <1>5, <1>6, <1>7, <1>8, <1>9, <1>10, <1>11, <1>12, <1>13, <1>14,
     <1>15, <1>16, <1>17, <1>18, <1>19, <1>20, <1>21, <1>22, <1>23, <1>24, <1>25, <1>26
     DEF ReconcileStep

\* No step leaves StatusInv.
LEMMA StatusInductive == StatusInv /\ [Next]_vars => StatusInv'
<1> SUFFICES ASSUME StatusInv, [Next]_vars
             PROVE  StatusInv'
  OBVIOUS
<1>1. CASE UNCHANGED vars
  BY <1>1 DEF StatusInv, TypeOK, Shapes, Assigned, LocalSound, CleanupPcs, SweepPcs, vars,
              HashChanged
<1>2. CASE ReconcileStep
  BY <1>2, StatusReconcile, ShapesReconcile, AssignedReconcile DEF StatusInv, TypeOK
<1>3. CASE Fault \/ User \/ TimeoutExpires \/ Sync \/ Capi \/ GarbageCollect
  BY <1>3, StatusEnvironment, TypeEnvironment DEF StatusInv
<1> QED
  BY <1>1, <1>2, <1>3 DEF Next

\* However reconciles, faults, edits and stale caches interleave, the stored
\* status never schedules a current template for deletion, and runs the rollout
\* timer exactly while something waits for deletion.
THEOREM StatusIsSound == Spec => []Bookkeeping
<1>1. StatusInv => Bookkeeping
  BY DEF StatusInv, Sound, Bookkeeping
<1> QED
  BY <1>1, StatusInit, StatusInductive, PTL DEF Spec

\* Under the same interleavings no stored condition contradicts the bookkeeping
\* or the phase.
THEOREM ConditionsAreHonest == Spec => []ConditionsHonest
<1>1. StatusInv => ConditionsHonest
  BY DEF StatusInv, Sound, ConditionsHonest
<1> QED
  BY <1>1, StatusInit, StatusInductive, PTL DEF Spec
=============================================================================
