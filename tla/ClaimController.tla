--------------------------- MODULE ClaimController ---------------------------
(***************************************************************************)
(* The WorkerGroupClaim reconciler                                         *)
(* (internal/controller/workergroupclaim_controller.go) for one claim,     *)
(* together with the API-server objects it reads and writes, the informer  *)
(* caches it reads them through, Cluster API acting on the MachineDeploy-  *)
(* ment it owns, the garbage collector and the user.                       *)
(*                                                                         *)
(* One step of the reconciler is one API write together with the reads and *)
(* the computation before it: `pc` names the write it is about to do, and  *)
(* `loc` is the in-memory copy of the claim.  Between two steps anybody    *)
(* else may act, an API call may fail and the operator may crash.          *)
(*                                                                         *)
(* A rendered template is represented by the name its content hashes to:   *)
(* `Rendered` gives the pair of names for a claim spec and a version of    *)
(* the shared WG templates, or RenderError.  Everything else of the spec   *)
(* is carried as the spec itself.                                          *)
(***************************************************************************)
EXTENDS Naturals, FiniteSets

CONSTANTS
    Bmts, Kcts,     \* names BMTs and KCTs can be rendered to
    Specs,          \* values of the claim's spec
    Tmpls,          \* versions of the shared WG templates and of the label policy
    Rendered,       \* [Specs \X Tmpls -> Names \cup {RenderError}]
    WantsMHC,       \* the specs with autohealing enabled
    RenderError, None,
    Lag,            \* kinds whose informer cache may trail the API server
    MaxEdits,       \* bound: writes of the user
    MaxFaults       \* bound: failed API calls and crashes

Names == [bmt : Bmts, kct : Kcts]
Refs  == Bmts \cup Kcts

\* The template names a pair stands for; nothing for CurrentTemplates == nil.
RefsOf(names) == IF names = None THEN {} ELSE {names.bmt, names.kct}

ASSUME NamesAssumption ==
    /\ Bmts \cap Kcts = {}
    /\ None \notin Names /\ None \notin Specs /\ None \notin Refs
    /\ RenderError \notin Names
ASSUME RenderAssumption == Rendered \in [Specs \X Tmpls -> Names \cup {RenderError}]
ASSUME SpecsAssumption  == WantsMHC \subseteq Specs
ASSUME LagAssumption    == Lag \subseteq {"claim", "md", "ms", "kct"}
ASSUME BoundAssumption  == MaxEdits \in Nat /\ MaxFaults \in Nat

VARIABLES
    \* objects on the API server
    claim,          \* the WorkerGroupClaim: life, finalizer, spec, paused, status
    tmpl,           \* current version of the shared templates
    templates,      \* names of the BMTs and KCTs that exist
    md,             \* the MachineDeployment
    machineSets,    \* template names of the MachineSets that exist
    mhc,            \* spec the MachineHealthCheck was built from, or None
    overdue,        \* now - rolloutStartedAt > rolloutTimeout
    \* informer caches of the operator
    cache,          \* [claim, md, ms, kct]
    \* the reconciler
    pc,             \* the write it is about to do
    loc,            \* its copy of the claim and its loop variables
    fresh,          \* the copy has the claim's current resourceVersion
    queued,         \* the claim is in the workqueue or has a RequeueAfter pending
    \* bounds
    edits, faults

apiVars   == <<tmpl, templates, md, machineSets, mhc>>
userVars  == <<claim, tmpl, overdue, edits>>
reconVars == <<pc, loc, fresh, queued>>
vars == <<claim, tmpl, templates, md, machineSets, mhc, overdue, cache,
          pc, loc, fresh, queued, edits, faults>>

-----------------------------------------------------------------------------
(* State                                                                   *)

Phases == {"None", "Provisioning", "Ready", "Updating", "Degraded", "Failed",
           "Paused", "Deleting"}

\* Status conditions are Booleans: absent and False are not told apart.
Status == [phase : Phases, current : Names \cup {None}, pending : SUBSET Refs,
           started : BOOLEAN, ready : BOOLEAN, paused : BOOLEAN,
           complete : BOOLEAN, timedOut : BOOLEAN, healing : BOOLEAN]

NoStatus == [phase |-> "None", current |-> None, pending |-> {},
             started |-> FALSE, ready |-> FALSE, paused |-> FALSE,
             complete |-> FALSE, timedOut |-> FALSE, healing |-> FALSE]

Claims == [life : {"live", "deleting", "gone"}, finalizer : BOOLEAN,
           spec : Specs, paused : BOOLEAN, status : Status]

\* The MD as the API server keeps it.  rolledOut stands for the part of its status
\* that Cluster API writes when a rollout ends (RollingOut=False and as many
\* up-to-date replicas as wanted, or the v1beta1 counters); observed says whether
\* Cluster API has acted on the last change of the MD's spec.
MDs == [state : {"absent", "live", "deleting"}, names : Names \cup {None},
        spec : Specs \cup {None}, observed : BOOLEAN, rolledOut : BOOLEAN]

NoMD == [state |-> "absent", names |-> None, spec |-> None,
         observed |-> FALSE, rolledOut |-> FALSE]

WritePcs == {"pause", "initPhase", "addFinalizer", "fail", "start", "degrade",
             "progress", "finish", "ready", "delPhase", "unfinalize"}
Pcs == WritePcs \cup {"idle", "render", "bmt", "kct", "md", "mhc", "track",
                      "sweep", "delete", "delMHC", "delMD", "delTemplates"}

Locals == [spec : Specs \cup {None}, status : Status, names : Names \cup {None},
           todo : SUBSET Refs, still : SUBSET Refs, victim : Refs \cup {None}]

NoLocal == [spec |-> None, status |-> NoStatus, names |-> None,
            todo |-> {}, still |-> {}, victim |-> None]

\* Locations at which both templates have been rendered.
RenderedPcs == {"bmt", "kct", "md", "mhc", "start", "ready", "track", "degrade",
                "progress", "sweep", "delete", "finish"}

\* Shapes of the variables ...
Shapes ==
    /\ claim \in Claims
    /\ tmpl \in Tmpls
    /\ templates \subseteq Refs
    /\ md \in MDs
    /\ machineSets \subseteq Names
    /\ mhc \in Specs \cup {None}
    /\ overdue \in BOOLEAN
    /\ cache \in [claim : Claims, md : MDs, ms : SUBSET Names, kct : SUBSET Kcts]
    /\ pc \in Pcs
    /\ loc \in Locals
    /\ fresh \in BOOLEAN /\ queued \in BOOLEAN
    /\ edits \in 0..MaxEdits /\ faults \in 0..MaxFaults

\* ... and what is set when.
Assigned ==
    /\ pc # "idle" => loc.spec \in Specs
    /\ pc \in RenderedPcs => loc.names \in Names
    /\ pc = "delete" => loc.victim \in Refs
    /\ IF md.state = "absent" THEN md = NoMD ELSE md.names \in Names

TypeOK == Shapes /\ Assigned

\* A user has just created the claim; nothing else exists.
Init ==
    /\ claim \in [life : {"live"}, finalizer : {FALSE}, spec : Specs,
                  paused : BOOLEAN, status : {NoStatus}]
    /\ tmpl \in Tmpls
    /\ templates = {} /\ md = NoMD /\ machineSets = {} /\ mhc = None
    /\ overdue = FALSE
    /\ cache = [claim |-> claim, md |-> NoMD, ms |-> {}, kct |-> {}]
    /\ pc = "idle" /\ loc = NoLocal /\ fresh = FALSE /\ queued = TRUE
    /\ edits = 0 /\ faults = 0

-----------------------------------------------------------------------------
(* Reads through the informer caches, watch events                         *)

Seen(kind, cached, live) == IF kind \in Lag THEN cached ELSE live
SeenClaim == Seen("claim", cache.claim, claim)
SeenMD    == Seen("md", cache.md, md)
SeenMS    == Seen("ms", cache.ms, machineSets)
SeenKCT   == Seen("kct", cache.kct, templates \cap Kcts)

\* A change of a watched object enqueues the claim at once if the informer is
\* up to date, and otherwise when the informer receives it (Sync... below).
Enqueue(kind, changed) == queued \/ (changed /\ kind \notin Lag)

SyncClaim ==
    /\ "claim" \in Lag /\ cache.claim # claim
    /\ cache' = [cache EXCEPT !.claim = claim]
    /\ queued' = TRUE
    /\ UNCHANGED <<userVars, templates, md, machineSets, mhc, pc, loc, fresh, faults>>

\* Mutant: the MachineDeployment is not watched.
SyncMDUnwatched ==
    /\ "md" \in Lag /\ cache.md # md
    /\ cache' = [cache EXCEPT !.md = md]
    /\ UNCHANGED <<userVars, templates, md, machineSets, mhc, reconVars, faults>>

SyncMD ==
    /\ "md" \in Lag /\ cache.md # md
    /\ cache' = [cache EXCEPT !.md = md]
    /\ queued' = TRUE
    /\ UNCHANGED <<userVars, templates, md, machineSets, mhc, pc, loc, fresh, faults>>

\* MachineSets and KCTs are cached but not watched: no event.
SyncMS ==
    /\ "ms" \in Lag /\ cache.ms # machineSets
    /\ cache' = [cache EXCEPT !.ms = machineSets]
    /\ UNCHANGED <<userVars, templates, md, machineSets, mhc, reconVars, faults>>

SyncKCT ==
    /\ "kct" \in Lag /\ cache.kct # templates \cap Kcts
    /\ cache' = [cache EXCEPT !.kct = templates \cap Kcts]
    /\ UNCHANGED <<userVars, templates, md, machineSets, mhc, reconVars, faults>>

Sync == SyncClaim \/ SyncMD \/ SyncMS \/ SyncKCT

-----------------------------------------------------------------------------
(* Ends of a reconcile                                                     *)

Done == pc' = "idle" /\ loc' = NoLocal /\ fresh' = FALSE

\* An error return: the workqueue retries with backoff.  A crash looks the
\* same: the in-memory copy is lost and the restart lists every claim.
Retry == Done /\ queued' = TRUE

\* The resourceVersion of the copy is not the claim's any more: the API
\* server refuses the write and the reconcile returns the error.
Conflict ==
    /\ pc \in WritePcs /\ ~fresh
    /\ Retry
    /\ UNCHANGED <<claim, apiVars, overdue, cache, edits, faults>>

\* Any API call of the reconcile fails, or the operator crashes.
Abort ==
    /\ pc # "idle" /\ faults < MaxFaults
    /\ faults' = faults + 1
    /\ Retry
    /\ UNCHANGED <<claim, apiVars, overdue, cache, edits>>

\* Mutant: a status write that ignores the resourceVersion.
WriteStatusUnchecked(st) == claim' = [claim EXCEPT !.status = st]

\* Status().Update with the new status st.  The claim is watched without a
\* predicate, so a status that changed enqueues it again.
WriteStatus(st) ==
    /\ fresh
    /\ claim' = [claim EXCEPT !.status = st]

WriteStatusAndEnd(st, requeueAfter) ==
    /\ WriteStatus(st)
    /\ Done
    /\ queued' = (requeueAfter \/ Enqueue("claim", st # claim.status))
    /\ UNCHANGED <<apiVars, cache, edits, faults>>

-----------------------------------------------------------------------------
(* The statuses the reconciler writes, as functions of the one it holds    *)

PausedStatus(st) == [st EXCEPT !.phase = "Paused", !.paused = TRUE, !.ready = FALSE]

FailedStatus(st) == [st EXCEPT !.phase = "Failed", !.ready = FALSE]

\* Mutant: condition Ready is left as it was.
StillReadyStatus(st) ==
    [st EXCEPT !.phase = "Updating", !.started = TRUE, !.complete = FALSE,
               !.timedOut = FALSE]

RolloutStartedStatus(st) ==
    [st EXCEPT !.phase = "Updating", !.started = TRUE, !.complete = FALSE,
               !.timedOut = FALSE, !.ready = FALSE]

ReadyStatus(st) == [st EXCEPT !.phase = "Ready", !.started = FALSE, !.ready = TRUE]

\* The conditions are set only on the first visit.
DegradedStatus(st) ==
    IF st.phase = "Degraded" THEN st
    ELSE [st EXCEPT !.phase = "Degraded", !.timedOut = TRUE, !.ready = FALSE]

\* Still rolling out: nothing but the phase is touched.
UpdatingStatus(st) == [st EXCEPT !.phase = "Updating"]

RolloutCompleteStatus(st) ==
    [st EXCEPT !.phase = "Ready", !.pending = {}, !.started = FALSE, !.complete = TRUE,
               !.timedOut = FALSE, !.ready = TRUE]

\* Mutant: what could not be deleted is dropped.
ForgetfulStatus(st, still) == RolloutCompleteStatus(st)

\* The partial path of completeRollout rewrites pendingDeletion and leaves the
\* phase alone.
CleanedUpStatus(st, still) ==
    IF still = {} THEN RolloutCompleteStatus(st) ELSE [st EXCEPT !.pending = still]

\* currentTemplates and condition AutohealingConfigured, set together in memory.
AppliedStatus(st, names, healing) == [st EXCEPT !.current = names, !.healing = healing]

PhaseStatus(st, phase) == [st EXCEPT !.phase = phase]

-----------------------------------------------------------------------------
(* Reconcile                                                               *)

Goto(next) == pc' = next /\ UNCHANGED <<fresh, queued>>

\* Mutant: the pause annotation is looked at before the deletion timestamp.
RoutePauseFirst(c) ==
    CASE c.life = "gone" \/ (c.life = "deleting" /\ ~c.finalizer) -> "idle"
      [] c.life # "gone" /\ c.paused ->
             IF c.status.phase = "Paused" THEN "idle" ELSE "pause"
      [] c.life = "deleting" /\ c.finalizer /\ ~c.paused ->
             IF c.status.phase = "Deleting" THEN "delMHC" ELSE "delPhase"
      [] c.life = "live" /\ ~c.paused ->
             IF c.finalizer THEN "render" ELSE "initPhase"

\* Where Reconcile, reconcileDelete, reconcilePaused and ensureFinalizer take a
\* claim to: deletion comes before pause, both have an early return, and the
\* phase is initialised only when it is empty.
Route(c) ==
    CASE c.life = "gone" \/ (c.life = "deleting" /\ ~c.finalizer) -> "idle"
      [] c.life = "deleting" /\ c.finalizer ->
             IF c.status.phase = "Deleting" THEN "delMHC" ELSE "delPhase"
      [] c.life = "live" /\ c.paused ->
             IF c.status.phase = "Paused" THEN "idle" ELSE "pause"
      [] c.life = "live" /\ ~c.paused /\ c.finalizer -> "render"
      [] c.life = "live" /\ ~c.paused /\ ~c.finalizer ->
             IF c.status.phase = "None" THEN "initPhase" ELSE "addFinalizer"

\* The condition Paused is reset in memory when the claim is resumed.
Resumed(c) ==
    [c.status EXCEPT !.paused = @ /\ (c.life # "live" \/ c.paused \/ c.status.phase # "Paused")]

\* Get the claim (from the cache) and dispatch.
Begin ==
    /\ pc = "idle" /\ queued
    /\ queued' = FALSE
    /\ pc' = Route(SeenClaim)
    /\ IF pc' = "idle"
       THEN UNCHANGED <<loc, fresh>>
       ELSE /\ loc' = [NoLocal EXCEPT !.spec = SeenClaim.spec,
                                      !.status = Resumed(SeenClaim)]
            /\ fresh' = (SeenClaim = claim)
    /\ UNCHANGED <<claim, apiVars, overdue, cache, edits, faults>>

ReconcilePaused ==
    /\ pc = "pause"
    /\ WriteStatusAndEnd(PausedStatus(loc.status), FALSE)
    /\ UNCHANGED overdue

\* Mutant: only the phase is saved, the Update that adds the finalizer is lost.
SetInitialPhaseOnly ==
    /\ pc = "initPhase"
    /\ LET st == PhaseStatus(loc.status, "Provisioning")
       IN  WriteStatus(st) /\ loc' = [loc EXCEPT !.status = st]
    /\ pc' = "render"
    /\ queued' = Enqueue("claim", TRUE)
    /\ UNCHANGED <<apiVars, overdue, cache, fresh, edits, faults>>

\* ensureFinalizer: the initial phase is saved first, then the finalizer.
SetInitialPhase ==
    /\ pc = "initPhase"
    /\ LET st == PhaseStatus(loc.status, "Provisioning")
       IN  WriteStatus(st) /\ loc' = [loc EXCEPT !.status = st]
    /\ pc' = "addFinalizer"
    /\ queued' = Enqueue("claim", TRUE)
    /\ UNCHANGED <<apiVars, overdue, cache, fresh, edits, faults>>

\* Update decodes the server's answer into the copy: the status subresource
\* is not written, and what was changed in the local status is lost.
AddFinalizer ==
    /\ pc = "addFinalizer" /\ fresh
    /\ claim' = [claim EXCEPT !.finalizer = TRUE]
    /\ loc' = [loc EXCEPT !.status = claim.status]
    /\ pc' = "render"
    /\ queued' = Enqueue("claim", TRUE)
    /\ UNCHANGED <<apiVars, overdue, cache, fresh, edits, faults>>

\* Mutant: the error of the renderer is not looked at.
RenderTemplatesUnchecked ==
    /\ pc = "render"
    /\ Goto("bmt") /\ loc' = [loc EXCEPT !.names = Rendered[loc.spec, tmpl]]
    /\ UNCHANGED <<claim, apiVars, overdue, cache, edits, faults>>

\* SanitizeNodeLabels and renderTemplates, then the two hashed names.
RenderTemplates ==
    /\ pc = "render"
    /\ LET names == Rendered[loc.spec, tmpl]
       IN  IF names = RenderError
           THEN Goto("fail") /\ UNCHANGED loc
           ELSE Goto("bmt") /\ loc' = [loc EXCEPT !.names = names]
    /\ UNCHANGED <<claim, apiVars, overdue, cache, edits, faults>>

\* A shared template cannot be read: reported like one that does not render.
TemplateUnreadable ==
    /\ pc = "render" /\ faults < MaxFaults
    /\ faults' = faults + 1
    /\ Goto("fail")
    /\ UNCHANGED <<claim, apiVars, overdue, cache, loc, edits>>

\* Mutant: no requeue after a failure.
SetFailedForGood ==
    /\ pc = "fail"
    /\ WriteStatusAndEnd(FailedStatus(loc.status), FALSE)
    /\ UNCHANGED overdue

SetFailed ==
    /\ pc = "fail"
    /\ WriteStatusAndEnd(FailedStatus(loc.status), TRUE)
    /\ UNCHANGED overdue

EnsureBMT ==
    /\ pc = "bmt"
    /\ templates' = templates \cup {loc.names.bmt}
    /\ Goto("kct")
    /\ UNCHANGED <<claim, tmpl, md, machineSets, mhc, overdue, cache, loc, edits, faults>>

\* A KCT the cache shows is taken to exist.
EnsureKCT ==
    /\ pc = "kct"
    /\ templates' = IF loc.names.kct \in SeenKCT THEN templates
                                                 ELSE templates \cup {loc.names.kct}
    /\ Goto("md")
    /\ UNCHANGED <<claim, tmpl, md, machineSets, mhc, overdue, cache, loc, edits, faults>>

HashChanged(st, names) == st.current # None /\ st.current # names

\* Mutant: what is wanted again is not filtered out.
SupersededUnfiltered(st, names) ==
    IF HashChanged(st, names) THEN st.pending \cup RefsOf(st.current) ELSE st.pending

\* Mutant: what an overtaken rollout has left is dropped.
SupersededLastOnly(st, names) ==
    IF HashChanged(st, names) THEN RefsOf(st.current) \ RefsOf(names) ELSE st.pending

\* pendingDeletion once `names` take over from st.current: the names replaced
\* are appended, and those that are wanted again are filtered out.
Superseded(st, names) ==
    IF HashChanged(st, names)
    THEN (st.pending \cup RefsOf(st.current)) \ RefsOf(names)
    ELSE st.pending

\* The MD that Create makes and Update turns an existing one into.
BuildMachineDeployment(m, names, spec) ==
    [m EXCEPT !.state = IF @ = "absent" THEN "live" ELSE @,
              !.names = names, !.spec = spec, !.observed = FALSE]

\* The MD needs an update: another template, or another spec to copy in place.
ComputeMDDiff(m, names, spec) == m.names # names \/ m.spec # spec

\* Create or update the MD if the cached one is absent or differs.  When the
\* cached one is stale the API server refuses either; a stale one that agrees
\* is left alone.
EnsureMachineDeployment ==
    /\ pc = "md"
    /\ LET differs == ComputeMDDiff(SeenMD, loc.names, loc.spec)
       IN  IF differs /\ SeenMD # md
           THEN Retry /\ UNCHANGED md
           ELSE /\ md' = IF differs THEN BuildMachineDeployment(md, loc.names, loc.spec)
                                    ELSE md
                /\ loc' = [loc EXCEPT !.status.pending = Superseded(loc.status, loc.names)]
                /\ pc' = "mhc"
                /\ queued' = Enqueue("md", differs)
                /\ UNCHANGED fresh
    /\ UNCHANGED <<claim, tmpl, templates, machineSets, mhc, overdue, cache, edits, faults>>

\* No MHC is wanted when autohealing is disabled.
BuildMachineHealthCheck(spec) == IF spec \in WantsMHC THEN spec ELSE None

\* Create, update or delete the MHC, record the new templates in the local
\* status and dispatch.
EnsureMachineHealthCheck ==
    /\ pc = "mhc"
    /\ mhc' = BuildMachineHealthCheck(loc.spec)
    /\ loc' = [loc EXCEPT !.status = AppliedStatus(loc.status, loc.names,
                                                   loc.spec \in WantsMHC)]
    /\ pc' = CASE HashChanged(loc.status, loc.names) -> "start"
               [] ~HashChanged(loc.status, loc.names) /\ loc.status.pending # {} -> "track"
               [] ~HashChanged(loc.status, loc.names) /\ loc.status.pending = {} -> "ready"
    /\ queued' = (queued \/ mhc' # mhc)
    /\ UNCHANGED <<claim, tmpl, templates, md, machineSets, overdue, cache, fresh,
                   edits, faults>>

StartRollout ==
    /\ pc = "start"
    /\ WriteStatusAndEnd(RolloutStartedStatus(loc.status), TRUE)
    /\ overdue' = FALSE

SetReady ==
    /\ pc = "ready"
    /\ WriteStatusAndEnd(ReadyStatus(loc.status), FALSE)
    /\ UNCHANGED overdue

-----------------------------------------------------------------------------
(* trackRollout and completeRollout                                        *)

\* Mutant: a claim that is Degraded already is not timed out again.
RolloutOverdueOnce(st) == st.started /\ overdue /\ st.phase # "Degraded"

RolloutOverdue(st) == st.started /\ overdue

\* Two conditions and three counters of the status, one bit here.  The code does
\* not ask which generation of the spec that status is about (~m.observed).
IsRolloutComplete(m) == m.state # "absent" /\ m.rolledOut

TrackRollout ==
    /\ pc = "track"
    /\ CASE SeenMD.state = "absent" -> Retry
         [] IsRolloutComplete(SeenMD) ->
                /\ Goto("sweep")
                /\ loc' = [loc EXCEPT !.todo = loc.status.pending]
         [] SeenMD.state # "absent" /\ ~IsRolloutComplete(SeenMD) ->
                /\ Goto(IF RolloutOverdue(loc.status) THEN "degrade" ELSE "progress")
                /\ UNCHANGED loc
    /\ UNCHANGED <<claim, apiVars, overdue, cache, edits, faults>>

SetDegraded ==
    /\ pc = "degrade"
    /\ WriteStatusAndEnd(DegradedStatus(loc.status), TRUE)
    /\ UNCHANGED overdue

SetUpdating ==
    /\ pc = "progress"
    /\ WriteStatusAndEnd(UpdatingStatus(loc.status), TRUE)
    /\ UNCHANGED overdue

\* Mutant: the MachineSets are not looked at.
NeverReferenced(ref) == FALSE

IsTemplateReferencedByMachineSet(ref) == \E ms \in SeenMS : ref \in RefsOf(ms)

\* One turn of completeRollout's loop up to the decision on one template ...
CheckOldTemplate ==
    /\ pc = "sweep"
    /\ \E ref \in loc.todo :
         IF IsTemplateReferencedByMachineSet(ref)
         THEN /\ loc' = [loc EXCEPT !.todo = @ \ {ref}, !.still = @ \cup {ref}]
              /\ Goto("sweep")
         ELSE /\ loc' = [loc EXCEPT !.todo = @ \ {ref}, !.victim = ref]
              /\ Goto("delete")
    /\ UNCHANGED <<claim, apiVars, overdue, cache, edits, faults>>

\* ... and its deletion (NotFound counts as success).
DeleteOldTemplate ==
    /\ pc = "delete"
    /\ templates' = templates \ {loc.victim}
    /\ loc' = [loc EXCEPT !.victim = None]
    /\ Goto("sweep")
    /\ UNCHANGED <<claim, tmpl, md, machineSets, mhc, overdue, cache, edits, faults>>

\* Listing the MachineSets or the deletion itself fails: kept for later.
OldTemplateKept ==
    /\ faults < MaxFaults /\ faults' = faults + 1
    /\ \/ /\ pc = "sweep"
          /\ \E ref \in loc.todo :
               loc' = [loc EXCEPT !.todo = @ \ {ref}, !.still = @ \cup {ref}]
       \/ /\ pc = "delete"
          /\ loc' = [loc EXCEPT !.victim = None, !.still = @ \cup {loc.victim}]
    /\ Goto("sweep")
    /\ UNCHANGED <<claim, apiVars, overdue, cache, edits>>

LoopDone ==
    /\ pc = "sweep" /\ loc.todo = {}
    /\ Goto("finish")
    /\ UNCHANGED <<claim, apiVars, overdue, cache, loc, edits, faults>>

\* Mutant: the partial path waits for an event instead of requeueing.
CompleteRolloutNoRequeue ==
    /\ pc = "finish"
    /\ WriteStatusAndEnd(CleanedUpStatus(loc.status, loc.still), FALSE)
    /\ UNCHANGED overdue

\* completeRollout's end: requeue while something is left to delete.
CompleteRollout ==
    /\ pc = "finish"
    /\ WriteStatusAndEnd(CleanedUpStatus(loc.status, loc.still), loc.still # {})
    /\ UNCHANGED overdue

-----------------------------------------------------------------------------
(* reconcileDelete                                                         *)

SetDeletingPhase ==
    /\ pc = "delPhase"
    /\ LET st == PhaseStatus(loc.status, "Deleting")
       IN  WriteStatus(st) /\ loc' = [loc EXCEPT !.status = st]
    /\ pc' = "delMHC"
    /\ queued' = Enqueue("claim", TRUE)
    /\ UNCHANGED <<apiVars, overdue, cache, fresh, edits, faults>>

DeleteMachineHealthCheck ==
    /\ pc = "delMHC"
    /\ mhc' = None
    /\ pc' = "delMD"
    /\ queued' = (queued \/ mhc # None)
    /\ UNCHANGED <<claim, tmpl, templates, md, machineSets, overdue, cache, loc, fresh,
                   edits, faults>>

\* Mutant: the templates follow without waiting for the MD to disappear.
DeleteMachineDeploymentNoWait ==
    /\ pc = "delMD"
    /\ md' = IF md.state = "absent" THEN md ELSE [md EXCEPT !.state = "deleting"]
    /\ Goto("delTemplates")
    /\ loc' = [loc EXCEPT !.todo = RefsOf(loc.status.current) \cup loc.status.pending]
    /\ UNCHANGED <<claim, tmpl, templates, machineSets, mhc, overdue, cache, edits, faults>>

\* The MD goes first; the templates only when it is not found any more.
DeleteMachineDeployment ==
    /\ pc = "delMD"
    /\ IF SeenMD.state # "absent"
       THEN /\ md' = IF md.state = "absent" THEN md ELSE [md EXCEPT !.state = "deleting"]
            /\ Retry
       ELSE /\ Goto("delTemplates")
            /\ loc' = [loc EXCEPT !.todo = RefsOf(loc.status.current) \cup loc.status.pending]
            /\ UNCHANGED md
    /\ UNCHANGED <<claim, tmpl, templates, machineSets, mhc, overdue, cache, edits, faults>>

\* An error here is only logged: the owner reference is what is left.
DeleteOwnTemplate ==
    /\ pc = "delTemplates"
    /\ \E ref \in loc.todo :
         /\ loc' = [loc EXCEPT !.todo = @ \ {ref}]
         /\ \/ templates' = templates \ {ref} /\ UNCHANGED faults
            \/ faults < MaxFaults /\ faults' = faults + 1 /\ UNCHANGED templates
    /\ Goto("delTemplates")
    /\ UNCHANGED <<claim, tmpl, md, machineSets, mhc, overdue, cache, edits>>

\* Mutant: the finalizer is removed from the copy only.
OwnTemplatesDoneNoUpdate ==
    /\ pc = "delTemplates" /\ loc.todo = {}
    /\ Done /\ queued' = FALSE
    /\ UNCHANGED <<claim, apiVars, overdue, cache, edits, faults>>

OwnTemplatesDone ==
    /\ pc = "delTemplates" /\ loc.todo = {}
    /\ Goto("unfinalize")
    /\ UNCHANGED <<claim, apiVars, overdue, cache, loc, edits, faults>>

RemoveFinalizer ==
    /\ pc = "unfinalize" /\ fresh
    /\ claim' = [claim EXCEPT !.finalizer = FALSE, !.life = "gone"]
    /\ Done
    /\ queued' = Enqueue("claim", TRUE)
    /\ UNCHANGED <<apiVars, overdue, cache, edits, faults>>

-----------------------------------------------------------------------------
(* The user, the clock                                                     *)

\* Any write of the claim by the user changes its resourceVersion.
UserWrite(c) ==
    /\ claim.life # "gone" /\ edits < MaxEdits
    /\ edits' = edits + 1
    /\ claim' = c
    /\ fresh' = FALSE
    /\ queued' = Enqueue("claim", TRUE)
    /\ UNCHANGED <<apiVars, cache, pc, loc, faults>>

\* The new spec may come with a longer rolloutTimeout.
EditSpec(s) ==
    /\ claim.life = "live" /\ s # claim.spec
    /\ UserWrite([claim EXCEPT !.spec = s])
    /\ overdue' \in {overdue, FALSE}

TogglePaused ==
    /\ UserWrite([claim EXCEPT !.paused = ~@])
    /\ UNCHANGED overdue

\* Without a finalizer the API server removes the claim at once.
DeleteClaim ==
    /\ claim.life = "live"
    /\ UserWrite([claim EXCEPT !.life = IF claim.finalizer THEN "deleting" ELSE "gone"])
    /\ UNCHANGED overdue

\* A shared template or the label policy changes: the claims that use it are
\* enqueued, the claim itself is not written.
EditTemplate(t) ==
    /\ t # tmpl /\ edits < MaxEdits
    /\ edits' = edits + 1
    /\ tmpl' = t
    /\ queued' = TRUE
    /\ UNCHANGED <<claim, templates, md, machineSets, mhc, overdue, cache,
                   pc, loc, fresh, faults>>

TimeoutExpires ==
    /\ claim.status.started /\ ~overdue
    /\ overdue' = TRUE
    /\ UNCHANGED <<claim, apiVars, cache, reconVars, edits, faults>>

-----------------------------------------------------------------------------
(* Cluster API and the garbage collector                                   *)

MDWrite(m) ==
    /\ md' = m
    /\ queued' = Enqueue("md", TRUE)
    /\ UNCHANGED <<claim, tmpl, templates, mhc, overdue, cache, pc, loc, fresh,
                   edits, faults>>

MSWrite(ms) ==
    /\ machineSets' = ms
    /\ UNCHANGED <<claim, tmpl, templates, md, mhc, overdue, cache, reconVars,
                   edits, faults>>

\* The MD controller creates (or reuses) the MachineSet of the MD's template.
CapiCreateMachineSet ==
    /\ md.state = "live" /\ md.names \notin machineSets
    /\ MSWrite(machineSets \cup {md.names})

\* It notices the new spec and reports that it is rolling out.  Until then the
\* MD's status describes the previous spec.
CapiStartRollout ==
    /\ md.state = "live" /\ ~md.observed /\ md.names \in machineSets
    /\ MDWrite([md EXCEPT !.observed = TRUE, !.rolledOut = FALSE])
    /\ UNCHANGED machineSets

\* Machines can only be cloned from templates that exist.
CapiFinishRollout ==
    /\ md.state = "live" /\ md.observed /\ ~md.rolledOut
    /\ RefsOf(md.names) \subseteq templates
    /\ MDWrite([md EXCEPT !.rolledOut = TRUE])
    /\ UNCHANGED machineSets

\* Scaled down, before or after the status says so.
CapiDeleteMachineSet ==
    /\ \E ms \in machineSets :
         /\ \/ md.state = "deleting"
            \/ md.state = "live" /\ md.observed /\ ms # md.names
         /\ MSWrite(machineSets \ {ms})

CapiDeleteMD ==
    /\ md.state = "deleting" /\ machineSets = {}
    /\ MDWrite(NoMD)
    /\ UNCHANGED machineSets

\* Objects owned by a claim that is gone.
GarbageCollect ==
    /\ claim.life = "gone"
    /\ \/ \E ref \in templates :
            /\ templates' = templates \ {ref}
            /\ UNCHANGED <<md, mhc>>
       \/ md.state = "live" /\ md' = [md EXCEPT !.state = "deleting"]
          /\ UNCHANGED <<templates, mhc>>
       \/ mhc # None /\ mhc' = None /\ UNCHANGED <<templates, md>>
    /\ UNCHANGED <<claim, tmpl, machineSets, overdue, cache, reconVars, edits, faults>>

-----------------------------------------------------------------------------

ReconcileStep ==
    \/ Begin \/ Conflict \/ ReconcilePaused \/ SetInitialPhase \/ AddFinalizer
    \/ RenderTemplates \/ SetFailed \/ EnsureBMT \/ EnsureKCT
    \/ EnsureMachineDeployment \/ EnsureMachineHealthCheck
    \/ StartRollout \/ SetReady \/ TrackRollout \/ SetDegraded \/ SetUpdating
    \/ CheckOldTemplate \/ DeleteOldTemplate \/ LoopDone \/ CompleteRollout
    \/ SetDeletingPhase \/ DeleteMachineHealthCheck \/ DeleteMachineDeployment
    \/ DeleteOwnTemplate \/ OwnTemplatesDone \/ RemoveFinalizer

Fault == Abort \/ TemplateUnreadable \/ OldTemplateKept

User == \/ \E s \in Specs : EditSpec(s)
        \/ TogglePaused
        \/ DeleteClaim
        \/ \E t \in Tmpls : EditTemplate(t)

Capi == CapiCreateMachineSet \/ CapiStartRollout \/ CapiFinishRollout
        \/ CapiDeleteMachineSet \/ CapiDeleteMD

Next == ReconcileStep \/ Fault \/ User \/ TimeoutExpires \/ Sync \/ Capi \/ GarbageCollect

Spec == Init /\ [][Next]_vars

\* The workqueue hands out what it holds and a reconcile runs to its end;
\* informers, Cluster API and the garbage collector make progress, except that
\* a rollout may stall for good.  Nothing is assumed of the user and of faults,
\* which the bounds keep finite.
Fairness ==
    /\ WF_vars(ReconcileStep)
    /\ WF_vars(SyncClaim) /\ WF_vars(SyncMD) /\ WF_vars(SyncMS) /\ WF_vars(SyncKCT)
    /\ WF_vars(CapiCreateMachineSet) /\ WF_vars(CapiStartRollout)
    /\ WF_vars(CapiDeleteMachineSet) /\ WF_vars(CapiDeleteMD)
    /\ WF_vars(GarbageCollect)

FairSpec == Spec /\ Fairness

RolloutsFinish == WF_vars(CapiFinishRollout)

-----------------------------------------------------------------------------
(* Properties                                                              *)

\* Templates the MachineDeployment or one of its MachineSets is built on.
InUse == (UNION {RefsOf(names) : names \in machineSets}) \cup RefsOf(md.names)

\* completeRollout and reconcileDelete never delete a BMT or KCT that the MD
\* or a MachineSet still refers to, and ensureMachineDeployment never points
\* the MD at a template that does not exist.
InUseExists == InUse \subseteq templates

\* The bookkeeping that the next reconcile starts from: a current template is
\* never scheduled for deletion, and the rollout timer runs exactly while
\* something is (so that a rollout can always time out).
Bookkeeping ==
    LET st == claim.status
    IN  /\ RefsOf(st.current) \cap st.pending = {}
        /\ st.started <=> st.pending # {}

\* What the conditions claim: Ready and RolloutComplete only when nothing waits
\* for deletion, RolloutTimedOut only during a rollout, Degraded only with
\* RolloutTimedOut.
ConditionsHonest ==
    LET st == claim.status
    IN  /\ st.ready => /\ st.pending = {} /\ st.current # None
                       /\ st.phase \in {"Ready", "Deleting"}
        /\ st.complete => st.pending = {}
        /\ st.timedOut => st.pending # {}
        /\ st.phase = "Degraded" => st.timedOut

\* No managed object exists before the finalizer that cleans it up is saved.
FinalizerFirst ==
    (templates # {} \/ md # NoMD \/ mhc # None) =>
        (claim.finalizer \/ claim.life = "gone")

\* The finalizer is released only after the MachineDeployment, its MachineSets
\* and the MachineHealthCheck are gone.
CleanDeletion ==
    claim.life = "gone" => (md = NoMD /\ machineSets = {} /\ mhc = None)

\* What the user asked for is in place and reported (that the templates of the
\* MD exist is InUseExists).
Settled ==
    LET names == Rendered[claim.spec, tmpl]
    IN  /\ claim.finalizer
        /\ claim.status.phase = "Ready" /\ claim.status.ready
        /\ claim.status.current = names /\ claim.status.pending = {}
        /\ md.state = "live" /\ md.names = names /\ md.spec = claim.spec
        /\ mhc = BuildMachineHealthCheck(claim.spec)
        /\ claim.status.healing <=> claim.spec \in WantsMHC

CachesInSync ==
    /\ SeenClaim = claim /\ SeenMD = md
    /\ SeenMS = machineSets /\ SeenKCT = templates \cap Kcts

\* No lost wakeup: the reconciler is idle with nothing queued only when an
\* unpaused claim is settled, a paused one shows phase Paused, and a deleted
\* one is gone.
SleepsOnlyWhenDone ==
    (pc = "idle" /\ ~queued /\ CachesInSync) =>
        CASE claim.life = "live" /\ ~claim.paused -> Settled
          [] claim.life = "live" /\ claim.paused  -> claim.status.phase = "Paused"
          [] claim.life # "live" -> claim.life = "gone"

\* A name leaves pendingDeletion only when its template is gone or is current
\* again: no old template is forgotten by the status.
NothingForgotten ==
    [][\A ref \in claim.status.pending \ claim'.status.pending :
           ref \notin templates \/ ref \in RefsOf(claim'.status.current)]_vars

\* A reconcile that read the claim before it was deleted never takes it back
\* out of phase Deleting.
DeletingIsFinal ==
    [][claim.status.phase = "Deleting" => claim'.status.phase = "Deleting"]_vars

\* Once the user stops, and if Cluster API finishes its rollouts, an unpaused
\* claim whose templates render is settled for good: every rollout ends,
\* whatever was reverted, aborted or overtaken.
Converges ==
    RolloutsFinish =>
    <>[]((claim.life = "live" /\ ~claim.paused /\ Rendered[claim.spec, tmpl] # RenderError)
             => Settled)

\* When Cluster API stalls, the rollout timeout is reported for as long as the
\* stall lasts (trackRollout; spec.rolloutTimeout in the API types).
Stalled ==
    /\ claim.life = "live" /\ ~claim.paused /\ Rendered[claim.spec, tmpl] # RenderError
    /\ claim.status.started /\ overdue /\ md.observed /\ ~md.rolledOut
StallIsReported == <>[]Stalled => <>[](claim.status.phase = "Degraded")

\* A deleted claim disappears with everything it owned.
DeletionCompletes ==
    (claim.life # "live") ~>
        (claim.life = "gone" /\ templates = {} /\ md = NoMD /\ machineSets = {} /\ mhc = None)

-----------------------------------------------------------------------------
(* The abstract specification                                              *)

Lifecycle == INSTANCE TemplateLifecycle
             WITH life <- claim.life, current <- claim.status.current,
                  pending <- claim.status.pending, present <- templates, used <- InUse

\* With caches that are up to date, the reconcile steps, the status writes, the
\* faults and Cluster API together do nothing to a template that
\* TemplateLifecycle does not allow: ensureBMT and ensureKCT create, startRollout
\* supersedes, completeRollout deletes only what is superseded and strikes off
\* only what is deleted, reconcileDelete deletes only what nothing is built on.
ImplementsLifecycle == Lifecycle!LifecycleSpec

-----------------------------------------------------------------------------
(* What the documentation says and the code does not do                    *)

\* docs/OPERATOR-SPEC.md, Pause and Resume: `Paused=True` while the annotation is
\* there, `Paused=False` when it is removed.  reconcilePaused skips a claim whose
\* phase is Paused already, and a resume that ends in the partial path of
\* completeRollout leaves that phase behind; when the claim was created paused,
\* ensureFinalizer's Update overwrites the condition that Reconcile reset.
PauseIsReported ==
    (pc = "idle" /\ ~queued /\ claim.life = "live") => (claim.status.paused <=> claim.paused)

\* Comment on completeRollout: "Before deleting, checks that no MachineSet still
\* references the template."  The check lists MachineSets from the cache.
NoMachineSetLosesTemplate ==
    UNION {RefsOf(names) : names \in machineSets} \subseteq templates
=============================================================================
