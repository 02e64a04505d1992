# TLA+ models of the worker-group-claim-operator

The operator turns a `WorkerGroupClaim` into a Cluster API `MachineDeployment`
(MD) built on two immutable templates, a `BegetMachineTemplate` (BMT) and a
`KubeadmConfigTemplate` (KCT), whose names carry the hash of their rendered
content. A change that alters a name makes Cluster API roll the machines over;
the replaced templates are kept in `status.pendingDeletion` until no MachineSet
is built on them. A second manager takes the node labels of a claim from the MD
to the Nodes of the target cluster. This directory models both, checks them with
TLC on small instances and proves their safety with TLAPS for all instances.

## Inventory

| Part | State | Operations | Interacts with |
|---|---|---|---|
| Claim reconciler (`internal/controller/workergroupclaim_controller.go`, `rollout.go`) | `claim.status` (phase, currentTemplates, pendingDeletion, rolloutStartedAt, conditions), finalizer; in memory a copy of the claim | provision, start/track/complete a rollout, time out, pause, fail, delete | API server (optimistic locking), informer caches, Cluster API through MD and MachineSets, MachineHealthCheck, shared templates, garbage collector |
| Orphan cleaner (`orphan.go`) | none between passes | list BMTs, KCTs, claims; delete unreferenced old templates | deletes the same objects as the reconciler, unsynchronised |
| Builders (`internal/builder`) | none | desired MD, MHC, BMT, KCT; MD diff | called by the reconciler |
| Rendering (`internal/renderer`, `hash`, `kubelet`) | none | variables + template -> YAML -> hash -> name | called by the reconciler |
| Label validation and policy (`internal/validation`, `internal/nodelabels`) | compiled patterns | filter labels | reconciler, label delivery |
| Label delivery (`nodelabeldelivery_controller.go`), second manager | labels and field ownership on Nodes of target clusters | server-side apply, remove denied labels | MD, Machines, Nodes, policy, remote clients |
| Remote client cache (`internal/remote`) | map key -> (client, kubeconfig hash) under a mutex | get or create, forget | label delivery |
| Set-up (`cmd/`) | none | wiring | - |

What is hard here: a reconcile makes up to six separate API writes and can be
interrupted or overtaken between any two; it decides on what its caches show;
its status write can be refused after it has already changed the MD; Cluster API
acts at its own pace, and its status may describe the previous spec; a rollout
can be overtaken by another one, reverted, paused, or cut short by a deletion;
the orphan cleaner deletes templates next to all of this. On a Node three other
writers have their hands on the labels, each with its field ownership, and what
the delivery controller does there rests on a list of Machines, a policy and a
client that may all be old. `PROJECT.json`,
"hazards", lists each point with its line and the property aimed at it.

What makes the parts correct:

* reconciler: no template in use disappears (`InUseExists`), none is forgotten
  (`NothingForgotten`), the status is sound (`Bookkeeping`, `ConditionsHonest`),
  no wakeup is lost (`SleepsOnlyWhenDone`), everything settles (`Converges`), a
  stall is reported (`StallIsReported`), and deletion is ordered and complete
  (`FinalizerFirst`, `CleanDeletion`, `DeletingIsFinal`, `DeletionCompletes`);
* orphan cleaner: leaks are collected (`LeaksCollected`) and nothing else is;
* rendering and building: after a reconcile everything is as the claim asks
  whatever others wrote (`Refreshed`), the two ways a label takes to a Node agree
  (`LabelsAgree`), machines are rolled over only for what is rendered
  (`RolloutsAreAskedFor`), claims do not meet unless their names do
  (`ClaimsApart`);
* label delivery and client cache: no wakeup is lost (`AsleepMeansDelivered`),
  the labels of others are left alone (`HandsOff`), in the end the Nodes are
  right (`Delivered`) and the policy's status is, too (`ReportSettles`).

## Modules

`ClaimController` - one claim, the reconciler and its environment. Each action
is one API write of the code with the reads and the computation before it; `pc`
names the next write, `loc` is the in-memory copy of the claim, `fresh` says
whether that copy still has the stored resourceVersion, `queued` whether the
workqueue holds the claim or a `RequeueAfter` is pending.

| Code | Actions |
|---|---|
| `Reconcile` (dispatch) | `Begin` (`Route`, `Resumed`) |
| `reconcilePaused` | `ReconcilePaused` |
| `ensureFinalizer` | `SetInitialPhase`, `AddFinalizer` |
| `renderTemplates`, `setFailed` | `RenderTemplates`, `TemplateUnreadable`, `SetFailed` |
| `ensureBMT`, `ensureKCT` | `EnsureBMT`, `EnsureKCT` |
| pendingDeletion, `ensureMachineDeployment` | `EnsureMachineDeployment` (`Superseded`, `ComputeMDDiff`) |
| `ensureMachineHealthCheck` | `EnsureMachineHealthCheck` |
| `startRollout`, `setReady` | `StartRollout`, `SetReady` |
| `trackRollout` | `TrackRollout`, `SetDegraded`, `SetUpdating` |
| `completeRollout` | `CheckOldTemplate`, `DeleteOldTemplate`, `OldTemplateKept`, `LoopDone`, `CompleteRollout` |
| `reconcileDelete` | `SetDeletingPhase`, `DeleteMachineHealthCheck`, `DeleteMachineDeployment`, `DeleteOwnTemplate`, `OwnTemplatesDone`, `RemoveFinalizer` |
| any error return, crash, refused write | `Abort`, `Conflict` |
| watches, informers | `Enqueue`, `SyncClaim`, `SyncMD`, `SyncMS`, `SyncKCT` |
| user, clock | `EditSpec`, `TogglePaused`, `DeleteClaim`, `EditTemplate`, `TimeoutExpires` |
| Cluster API, garbage collector (external) | `Capi...`, `GarbageCollect` |

Abstractions: a template is its name; the rest of the spec is carried as one
value, and a changed value is an in-place update of the MD. `Rendered` is any
function from a spec and a version of the shared templates to a pair of names or
an error. MachineSets are the pairs of names they are built on. Conditions are
Booleans; the replica counts mirrored into the status, messages, events and
`lastRendered` are left out. The conditions and counters that `isRolloutComplete`
reads are one bit of the MD, `rolledOut`, which Cluster API resets only when it has
seen the new spec (`observed`). BMTs are read unstructured and so from the API server; the
MachineHealthCheck and the shared templates are read without lag. The kinds in
the constant `Lag` are read from a cache that trails the API server arbitrarily.

`OrphanCleaner` - extends `ClaimController` by the periodic pass and composes
both (`OperatorSpec`). `aged` is the set of templates older than the grace
period, `listed` what a pass has listed and `old` the part of it that is past the
grace period by now: the age is judged at the decision, of the copy that was
listed. Ten minutes do not pass in the middle of a reconcile: `TimePasses`.

`TemplateLifecycle` - the abstract specification of what the reconciler does to
templates: create, become current, be superseded, be deleted when nothing is
built on it, be struck off. `ClaimController` instantiates it as `Lifecycle` with
the obvious mapping: `current` and `pending` are those of the stored status,
`present` the templates that exist, `used` those the MD or a MachineSet is built
on. Everything else - the reconciler's copy, locations, caches, phases - is
stuttering.

`ClaimObjects` - what a reconcile writes. Several claims on shared templates; a
reconcile is one step (with its two early ends: a failed render, and a text that
is no resource, which is found after the BMT was created), and between reconciles
users edit specs, templates and the policy, the operator restarts with another
timeout, and others overwrite fields of the objects. `touched` is a history
variable: what was written since the claim's last complete reconcile.

| Code | Operators |
|---|---|
| `internal/validation`, `labelPolicy` | `SanitizeNodeLabels`, `labelPolicy` |
| `internal/renderer`, `internal/kubelet`, `renderTemplates` | `PrepareVars`, `Render`, `InjectNodeLabels`, `InjectMachineDeploymentName`, `BootstrapVars`, `MergeKubeletConfig`, `renderTemplates` |
| `internal/hash` | `ComputeHash`, `ResourceName` |
| `internal/builder` | `BuildMachineDeployment` (`templateLabels`, `buildMachineDeletion`, `convertStrategy`), `ComputeMDDiff` (`RefFields`, `InPlaceFields`), `BuildBMT`, `BuildKCT`, `BuildMachineHealthCheck` |
| `ensure...` | `EnsureBMT`, `EnsureKCT`, `EnsureMachineDeployment` (`CopiedFields`, `Updated`), `EnsureMachineHealthCheck` |

A rendered text is the template's text and the values of the variables it uses;
two texts are equal exactly when these are. The hash is free of collisions. A
name is the list of its words, so that joining cluster and claim with a dash is
concatenation. Two claims of a namespace may have different names that read the
same when joined (`Namesakes`): nothing in the code refuses them, and they work on
the same objects. The ensure functions ask for a name, never for an owner, so an
object that exists is used or updated in place and keeps its owner; `ClaimsApart`
says what is left of the separation of two namesakes, `OwnResources` what is lost.
A variable whose value is null has no raw text and fails the render, whether the
template uses it or not (`PrepareVars`). The cut at 253 characters cannot be reached,
because cluster and claim names are label values too (63 characters). The
embedded kubelet configuration has none of the nested sections a user can
override, so `deepMerge` is a merge of leaves. Defaulting by Cluster API's
webhooks is not modelled.

`NodeLabelPolicy` - deny patterns and their floor as sets of keys; shared by the
claim side (`ClaimObjects`) and the Node side (`NodeLabelDelivery`).

`RemoteClientCache` - `GetOrCreate`; a client is the kubeconfig it was built from.

`NodeLabelDelivery` - the delivery controller for one MD, composed with the
policy, the client cache, Cluster API, kubelet and kubectl.

| Code | Actions |
|---|---|
| `Reconcile`, `loadPolicy` | `Begin` |
| `reportPolicyStatus` | `ReportPolicyStatus` (`PolicyStatus`, `StatusIsReported`) |
| `targetClient`, list of Machines | `Connect` (`targetClient`) |
| `deliver`, `findNode` | `FindNode` (`excludeCAPIOwned`, `foreignDenied`, `Reachable`) |
| `applyLabels`, `verifyOwnership` | `ApplyLabels`, `VerifyFails` |
| `removeForeign` | `RemoveForeign` |
| end of a pass, requeues | `PassComplete`, `TimerFires` |
| errors and crashes | `Fault` |
| watches | `EnqueueMD`, `WriteMachine`, `WritePolicy`, `DeletePolicy` |
| the claim side (`ensureMachineDeployment`), any labels | `WriteMD` |
| others (external) | `WriteSecret`, `MachineJoins`, `ReplaceMachine`, `CapiLabelMachine`, `CapiLabelNode`, `OtherLabels`, `NodeReregisters` |

A label on a Node has a value and the set of its field owners. Server-side apply
without force is refused as a whole on a conflict, co-owns what it sets, and
gives up what it no longer names; a patch of anybody else takes over what it
changes. `mode` stands for the two flags. The target cluster accepts the
kubeconfig that is in the Secret and no other. `calm` is a history variable: no
call has failed, and nobody wrote a Node or the Secret (which are not watched),
since the last pass began. The informers of this manager do not lag in the model:
a change that a pass misses enqueues the MD again, as a late event would.

`MCClaimController`, `MCOrphanCleaner`, `MCClaimObjects`, `MCNodeLabelDelivery` -
instances for TLC.

Theorems and proofs, each module on top of the one it extends:

| Module | Extends | Proves |
|---|---|---|
| `ClaimController_proofs` | `ClaimController` | types, the status |
| `ClaimTemplates_proofs` | `ClaimController_proofs` | finalizer and deletion, templates |
| `ClaimRefinement_proofs` | `ClaimTemplates_proofs` | the refinement of `TemplateLifecycle` |
| `ClaimWakeup_proofs` | `ClaimTemplates_proofs` | no lost wakeup |
| `OrphanCleaner_proofs` | `OrphanCleaner`, `ClaimWakeup_proofs` | the reconciler beside the cleaner |
| `ClaimObjects_proofs` | `ClaimObjects` | what a reconcile writes |
| `NodeLabelDelivery_proofs` | `NodeLabelDelivery` | the delivery controller |

Operators whose comment starts with "Mutant" are deliberately wrong variants of
the operator after them. No specification uses them; they show that each
property fails when the code is broken in that way.

## Runs

| Run | Instance | Shows |
|---|---|---|
| `claim_safety` | 2 specs x 2 template versions (BMT replaced, KCT replaced, reverted, failing render), 3 user writes, 1 fault, the claim cache lags | type invariant, six state invariants, two action properties |
| `claim_liveness` | the same with 2 writes, no lag, `FairSpec` | the refinement `ImplementsLifecycle`; `Converges`, `DeletionCompletes`, `StallIsReported` |
| `claim_stale` | 2 specs that share no template, all four caches lag, 2 writes | `SleepsOnlyWhenDone`, `NothingForgotten` |
| `orphan_pass` | cleaner and reconciler, 2 specs that differ in the KCT, 1 write, 1 fault, fair | `LeaksCollected` and the cleaner's type invariant |
| `build_pass` | 2 claims of one cluster, 9 specs (a minimal and a maximal one, ones that differ in one part, one without a variable, one with a null, one with an invalid label), templates that do not parse or are no resource, a policy, 2 writes of anybody | `Refreshed`, `LabelsAgree`, `RolloutsAreAskedFor`, `ClaimsApart`, type invariant |
| `delivery_pass` | 1 Machine, 4 keys (plain, of Cluster API's domains, safety floor, selector), all three modes, 3 kubeconfigs (one malformed), 2 writes of anybody, 1 fault, fair | `AsleepMeansDelivered`, `HandsOff`, `Delivered`, `ReportSettles`, type invariant |

Runs that are expected to fail, each against a sentence of the documentation or
a comment (details under "findings"):

| Run | Property | What happens |
|---|---|---|
| `claim_pause` | `PauseIsReported` | created paused, then resumed: the Update of `ensureFinalizer` overwrites `Paused=False`; also paused, resumed into the partial path of `completeRollout` and paused again: the phase is still `Paused`, so nothing is written |
| `claim_mslag` | `NoMachineSetLosesTemplate` | the MachineSet cache trails |
| `orphan_inuse` | `RolloutKeepsTemplates` | the MD is updated, the status write is refused, the next spec asks for other templates: the intermediate ones are recorded nowhere, and during the rollout that follows the cleaner deletes one under its MachineSet |
| `build_inplace` | `InPlaceUpdates` | node labels and the kubelet configuration are part of the text that is hashed: the KCT gets another name, and the machines are rolled over. `RolloutsAreAskedFor` shows that of the parts documented as in-place only these two do that |
| `build_names` | `OwnResources` | the second of two namesakes works on the objects of the first |
| `delivery_denied` | `DeniedRemoved` | kubectl holds one wanted label at another value: `applyLabels` is refused on every pass, and the removal of denied labels comes after it |

Bounds. `MaxEdits` bounds the writes of the user, `MaxFaults` failed calls and
crashes. Two writes overtake a running rollout or revert it, and a third pauses,
resumes or deletes in the middle of that; two BMT and two KCT names are enough
for "the same", "replaced", "half replaced" and "wanted again". One fault hits
every write in every such situation. With "md", "ms" or "kct" in `Lag`,
`InUseExists` does not hold: an MD, a MachineSet or a KCT that the cache does not
show right leads to a template deleted under its user, or not created again
(`claim_mslag` is the case a comment denies; the others can be reproduced with
`MDLag` or `KCTLag` for `Lag` in `Claim_safety.cfg`). The KCT is the one that can
last: KCTs are not watched, so that a claim whose spec is reverted right after its
KCT was deleted goes to Ready on a KCT that is gone and stays there until something
else wakes it. `claim_safety` therefore lets
only the claim cache lag, and `claim_stale` lets all lag and checks what still
holds. In `build_pass` two writes are one edit overtaken by another, or an edit and
a foreign write, of the same or of two claims; the variants of the spec make each
part change alone. The two claims of `build_pass` have different joined names; with
`Claims <- MCNamesakes` and `MaxEdits = 1` it passes as well, and the theorems below
cover all sets of claims.
In `delivery_pass` two writes and a fault are, for example, a
label handed to Cluster API while the kubeconfig rotates and a call fails; with
one write (`MaxEdits = 1`) two Machines (`Machines <- Two`), and with one Machine
three writes, were checked as well and take longer. The bounds are part of the guards, so the
user and the faults stop; the rest of the system does not. Deadlock is not
checked for the claim's runs because the system really rests when a claim is
settled, paused or gone (`SleepsOnlyWhenDone` states exactly when it may), nor for
the delivery runs, which rest when there is no MD; with the cleaner's ticker, and
in `ClaimObjects`, where a reconcile is always possible, it is checked.
Timeouts are interchangeable in `build_pass` (symmetry; it checks no liveness).

Fairness. A workqueue hands out what it holds and a reconcile is a terminating
function, so `ReconcileStep` is weakly fair; informers deliver, and Cluster API
and the garbage collector make progress, so each of their actions is weakly
fair. That rollouts finish (`RolloutsFinish`) is not assumed by `FairSpec`: it is
the hypothesis of `Converges`, and `StallIsReported` is about its failure.
Nothing is assumed of the user or of faults. In `NodeLabelDelivery` the steps of
a pass are weakly fair for the same reason, `TimerFires` because `RequeueAfter`
elapses, and for each Machine the three actions of Cluster API, which reconciles
periodically; nothing is assumed of kubelet, kubectl, administrators or faults.
`Delivered` excepts a Node on which somebody else holds a wanted label at another
value (`Contested`), because apply without force is meant to yield there.

## Proofs

Every invariant and every action property that a passing run checks is also a
theorem, for all constants that satisfy the named assumptions of the modules and
without fairness. The argument is always the same: an inductive invariant, shown
to hold initially, to be kept by every action, and to imply the property.

The reconciler. The assumptions say that names of BMTs and KCTs are disjoint, that
`None` and `RenderError` are not names, that `Rendered` is a function into names or
`RenderError`, and that the bounds are naturals.

* `TypeCorrect`: `TypeOK` is inductive. Its part `Assigned` says which local
  variables are set at which location.
* `StatusIsSound`, `ConditionsAreHonest`, for every `Lag`. `Bookkeeping` and
  `ConditionsHonest` speak of the stored status, while a write starts from the
  reconciler's copy, which comes from a cache that may be old. `StatusInv`
  therefore requires the same (`Sound`) of the stored status, of the cached one
  and of the copy (`LocalSound`). Between the update of the MD and the write
  that starts the rollout the copy is not sound, because `pendingDeletion` is
  ahead of `currentTemplates` and the conditions; what holds there is that the
  new names are not pending and, when a name changed, something is. That the
  filter of `Reconcile` achieves this is `SupersededSound`, which rests on
  `NamesDiffer`: two different pairs leave at least one name behind.
* `FinalizerComesFirst`, `DeletionIsFinal`, for every `Lag`, from `LifeInv`: a
  reconcile that provisions works for a claim that still has its finalizer, even
  when it read the claim from an old cache, and a copy with which a write can
  still succeed is of the claim's present life.
* `DeletionIsClean`, if "md" is not in `Lag`, from `CleanInv`: what
  `reconcileDelete` has achieved at each of its locations. With an MD that the
  cache does not show yet, the finalizer is released while the MD exists.
* `NoTemplateForgotten`, for every `Lag`, from `TrackInv`: location by location,
  how a copy that can still be saved relates to the stored `pendingDeletion`
  (`Tracks`), and that what `completeRollout` has taken off its list is gone
  (`SweptGone`).
* `TemplatesInUseExist`, if `Lag` is at most {"claim"}, from `UseInv`: after
  `ensureMachineDeployment` the MD is on the names just rendered, which are
  current and hence, by `StatusInv`, not pending; so neither the MD nor, after
  `CheckOldTemplate`, a MachineSet is on the template about to be deleted. An old
  claim does no harm because a deletion is decided after the MD was read. With
  "md", "ms" or "kct" in `Lag` the invariant is false (see "Bounds").
* `TemplateLifecycleImplemented`, if `Lag` is empty: the initial states map to
  initial states, and under `UseInv /\ TrackInv` each action maps to the step of
  `TemplateLifecycle` named in `StepIsAbstract` or to a stutter. With a lagging
  claim the reconciler may delete a template that the status it has read lists and
  the stored one does not, which is no step of the abstract specification.
* `NoWakeupLost`, for every `Lag`, from `WakeInv`: as long as nothing has enqueued
  the claim, what the reconciler sees of the claim and the MD is what its last
  reconcile worked from (`AtRest`) or its running one works from (`UpToDate`);
  what is stored may be ahead of that, but only in a way that a watch event, which
  enqueues the claim, will end. `MDClosing` excludes the one other way for the two
  to meet again, an MD that is deleted and created anew.

The orphan cleaner changes nothing of the reconciler's state but the set of
templates, and only takes from it (`CleanerEffect`). `WakeInv`, `CleanInv` and
`TrackInv` survive that, so `NoWakeupLostBesideCleaner`,
`StatusIsSoundBesideCleaner`, `DeletionIsCleanBesideCleaner` and
`NoTemplateForgottenBesideCleaner` hold of `OperatorSpec`. `UseInv` does not:
`orphan_inuse` shows why. `CleanerTypeCorrect` needs, in addition to its own
statement, that nothing is to be deleted before the claims have been listed.

What a reconcile writes. The assumptions of `ClaimObjects`: a spec has all its
parts and declares the variables that a bootstrap template uses and `nodeLabels`,
possibly unset; the keys that Cluster API or a selector puts on Machines are among
the reserved ones (which is what `claimReservedPatterns` of
`internal/nodelabels/policy.go` is for). Nothing is assumed of the names of claims:
the theorems are about namesakes, too.

* `ObjectsTypeCorrect` and `ClaimsKeptApart`, from `OwnInv`: every object bears the
  name of its owner, a BMT the hash of its content, and an MD refers to templates
  of its owner or of a namesake of its owner or, after a foreign write, to none.
  `NothingTakenOver` is the part about objects that exist: `ensureBMT` and
  `ensureKCT` leave the owner of what they find, and so do the updates of the MD
  and the MachineHealthCheck. The second theorem has the hypothesis `NoneIsNoName`
  (the empty reference is not a template's name), which ranges over all contents
  and so cannot be an assumption that TLC evaluates.
* `ObjectsAreRefreshed`, `LabelWaysAgree`, `RolloutsOnlyWhenAsked`, from
  `CurrentInv`: `Complete` (a claim whose history is empty has exactly the wanted
  objects; a reconcile of a namesake counts as a write of somebody else) and
  `RefsCurrent` (an MD nobody else wrote refers to the names that would be rendered
  now, unless its history names an input of that template). `RefsCurrent` needs to
  know what each name depends on: `SameBMT` and `SameKCT`, the latter with
  `BootstrapCauses`, that labels count only where the text uses them and the user
  does not set them, kubelet settings only where the text uses them.

Label delivery. The assumptions: the templates are label sets, lists of patterns
are finite, the kubelet has a value to register and some kubeconfig works.

* `DeliveryTypeCorrect`: needs that the generation of the policy is bounded by the
  edits. That every label on a Node has an owner is part of it (`AppliedFields`,
  `PatchedOwned`).
* `DeliveryHandsOff`, from `StripInv`: what `removeForeign` takes off was decided
  against the Node as it was a step earlier, with a policy that has the floor.
* `NoDeliveryForgotten`, from `DeliveredInv`: while nothing is queued and nothing
  failed, the pass works from the present MD, policy and Machines, and each Node
  it has visited is as wanted (`Undisturbed`).

Only model-checked remains what is beyond the prover: all liveness
(`Converges`, `DeletionCompletes`, `StallIsReported`, `LeaksCollected`, `Delivered`,
`ReportSettles`), and the six properties that are expected to fail.

## Not modelled, and the plan

Not modelled: flags without influence on behaviour, TLS, metrics, leader election
(one active leader is assumed), generated code; CRD validation rules; the text
functions of templates; Cluster API's webhooks; a claim's references to other
templates than the shared ones (a change of reference is a change of template);
replica counts (`isRolloutComplete` reads the bit `rolledOut`). A read of the
policy that fails, where the claim side falls back to the compiled-in rules, is
not modelled: reads come from a cache that is synchronised before the first
reconcile. A MachineHealthCheck that can never be created (a lasting fault) is
outside the runs, whose faults are bounded.

Order of the work:

1. done - `ClaimController`, `OrphanCleaner`, their runs; type correctness and
   the soundness of the status proved;
2. done - `TemplateLifecycle` and the refinement, `ClaimObjects`,
   `NodeLabelPolicy`, `RemoteClientCache`, `NodeLabelDelivery`, their runs;
3. done - proofs of every invariant and action property of the passing runs, of
   the refinement, and of what survives beside the cleaner;
4. then - the exact hypotheses on `Lag`: `DeletionIsClean` and `TemplatesInUseExist`
   for a cache that lags but shows every write of the running reconcile; which
   templates the cleaner can take from a claim (only ones the status it saw did not
   name), as an invariant of `OperatorSpec`; lemmas on policies (what is removable
   is denied, the floor never is removable).
