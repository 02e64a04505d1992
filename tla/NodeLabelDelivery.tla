-------------------------- MODULE NodeLabelDelivery --------------------------
(***************************************************************************)
(* The second manager (cmd/nodelabel-controller): its reconciler           *)
(* (internal/controller/nodelabeldelivery_controller.go) takes the user    *)
(* labels of a MachineDeployment to the Nodes of the target cluster, where *)
(* kubelet, kubectl and Cluster API write labels too.                      *)
(*                                                                         *)
(* One step is one call that writes, or the reads before the next call.    *)
(* A Machine stands for its Node as well.  A label on a Node has the set   *)
(* of its field owners; server-side apply and patches treat them as the    *)
(* API server does.                                                        *)
(***************************************************************************)
EXTENDS NodeLabelPolicy, RemoteClientCache

CONSTANTS
    Machines,
    Templates,      \* label sets the MachineDeployment's template can have
    CapiKeys,       \* keys of the domains Cluster API syncs to Nodes
    DenySpecs,      \* sets of patterns the policy object can hold
    Modes,          \* flag settings to consider, see below
    MaxEdits,       \* bound: writes of users, administrators and Nodes
    MaxFaults       \* bound: failed calls and crashes

\* observe: --observe-only; apply: neither flag; strip: --remove-foreign-denied.
ASSUME ModesAssumption == Modes \subseteq {"observe", "apply", "strip"}
ASSUME TemplatesAssumption ==
    Templates \subseteq LabelSets /\ DenySpecs \subseteq SUBSET Patterns /\ CapiKeys \subseteq Keys
\* The kubelet has a value to register, the list of a policy is finite, and some
\* kubeconfig works.
ASSUME DeliveryAssumption ==
    /\ Values # {} /\ Kubeconfigs \ Malformed # {}
    /\ \A patterns \in DenySpecs : IsFiniteSet(patterns)
ASSUME DeliveryBounds == MaxEdits \in Nat /\ MaxFaults \in Nat

VARIABLES
    mode,           \* the flags of the process
    md,             \* labels of the MD's template, or None when there is no MD
    policy,         \* the NodeLabelPolicy object with its status
    secret,         \* the kubeconfig in the Secret, or None; the target cluster
                    \* accepts no other
    machine,        \* the Machine objects: labels, and whether nodeRef is set
    node,           \* the Nodes of the target cluster
    entries,        \* the client cache
    pc, loc,        \* the reconciler
    queued,         \* the MD is in the workqueue
    timer,          \* a RequeueAfter is pending
    calm,           \* since the last pass began no call has failed and nobody
                    \* else has touched a Node or the Secret (history)
    edits, faults

envVars   == <<mode, md, secret, machine>>
queueVars == <<queued, timer, calm>>
vars == <<mode, md, policy, secret, machine, node, entries, pc, loc, queueVars,
          edits, faults>>

-----------------------------------------------------------------------------
(* State                                                                   *)

SecretName == "cluster-kubeconfig"
Writers == {"delivery", "capi", "other"}

\* gen is the object's generation, status what was last reported and for which.
PolicyObjects ==
    [exists : BOOLEAN, patterns : SUBSET Patterns, gen : 0..MaxEdits + 1,
     status : [gen : 0..MaxEdits + 1, compiled : Nat, skipped : SUBSET Patterns,
               condition : {"none", "True", "False"}]]
NoStatus == [gen |-> 0, compiled |-> 0, skipped |-> {}, condition |-> "none"]
NoPolicy == [exists |-> FALSE, patterns |-> {}, gen |-> 0, status |-> NoStatus]
NewPolicyObject(patterns) ==
    [exists |-> TRUE, patterns |-> patterns, gen |-> 1, status |-> NoStatus]

MachineObjects == [labels : LabelSets, joined : BOOLEAN]

\* fromMachine and fromClaim are the annotations labels-from-machine, kept by
\* Cluster API, and labels-from-claim, kept by this controller.
Nodes == [labels : LabelSets, owners : [Keys -> SUBSET Writers],
          fromMachine : SUBSET Keys, fromClaim : SUBSET Keys]

\* A Node as the kubelet registers it: system labels only.
SystemValue == CHOOSE value \in Values : TRUE
RegisteredNode ==
    LET system == SafetyKeys \ SelectorKeys
    IN  [labels |-> [key \in Keys |-> IF key \in system THEN SystemValue ELSE None],
         owners |-> [key \in Keys |-> IF key \in system THEN {"other"} ELSE {}],
         fromMachine |-> {}, fromClaim |-> {}]

Locals == [policy : Policies, object : PolicyObjects, desired : LabelSets,
           client : Kubeconfigs \cup {NoClient},
           machines : [Machines -> MachineObjects], todo : SUBSET Machines,
           at : Machines \cup {None}, managed : LabelSets, foreign : SUBSET Keys]
NoLocal == [policy |-> NewNodePolicy({}), object |-> NoPolicy, desired |-> NoLabels,
            client |-> NoClient,
            machines |-> [m \in Machines |-> [labels |-> NoLabels, joined |-> FALSE]],
            todo |-> {}, at |-> None, managed |-> NoLabels, foreign |-> {}]

\* Shapes; a pass holds a client from the moment it has machines to visit, and
\* the Node it is writing is one it has still to visit.
DeliveryTypeOK ==
    /\ mode \in Modes
    /\ md \in Templates \cup {None}
    /\ policy \in PolicyObjects
    /\ secret \in Kubeconfigs \cup {None}
    /\ machine \in [Machines -> MachineObjects]
    /\ node \in [Machines -> Nodes]
    /\ \A m \in Machines, key \in Keys :
           (node[m].labels[key] = None) <=> (node[m].owners[key] = {})
    /\ entries \in [{SecretName} -> (Kubeconfigs \ Malformed) \cup {NoClient}]
    /\ pc \in {"idle", "report", "connect", "visit", "apply", "remove"}
    /\ loc \in Locals
    /\ pc \in {"visit", "apply", "remove"} => loc.client # NoClient
    /\ pc \in {"apply", "remove"} => loc.at \in loc.todo
    /\ queued \in BOOLEAN /\ timer \in BOOLEAN /\ calm \in BOOLEAN
    /\ edits \in 0..MaxEdits /\ faults \in 0..MaxFaults

Init ==
    /\ mode \in Modes
    /\ md \in Templates
    /\ policy \in {NoPolicy} \cup {NewPolicyObject(patterns) : patterns \in DenySpecs}
    /\ secret \in {None, CHOOSE kubeconfig \in Kubeconfigs : kubeconfig \notin Malformed}
    /\ machine = [m \in Machines |-> [labels |-> md, joined |-> FALSE]]
    /\ node = [m \in Machines |-> RegisteredNode]
    /\ entries = NewCache({SecretName})
    /\ pc = "idle" /\ loc = NoLocal
    /\ queued = TRUE /\ timer = FALSE /\ calm = FALSE
    /\ edits = 0 /\ faults = 0

-----------------------------------------------------------------------------
(* Field ownership on a Node (API server)                                  *)

\* Server-side apply without force is refused as a whole when a label it sets
\* has another value and another owner.
ApplyConflicts(n, labels) ==
    \E key \in Present(labels) :
        /\ n.labels[key] \notin {labels[key], None}
        /\ n.owners[key] \ {"delivery"} # {}

\* It sets and co-owns what it names, and gives up what it does not name any
\* more: a label nobody else owns disappears.
Applied(n, labels) ==
    LET owners(key) == IF key \in Present(labels) THEN n.owners[key] \cup {"delivery"}
                                                  ELSE n.owners[key] \ {"delivery"}
    IN  [n EXCEPT !.labels = [key \in Keys |->
                                 IF key \in Present(labels) THEN labels[key]
                                 ELSE IF owners(key) = {} THEN None ELSE n.labels[key]],
                  !.owners = [key \in Keys |-> owners(key)],
                  !.fromClaim = Present(labels)]

\* Any other write sends the labels that differ and takes them over; one that
\* was removed has no owner.
Patched(n, labels, writer) ==
    [n EXCEPT !.labels = labels,
              !.owners = [key \in Keys |-> IF labels[key] = n.labels[key] THEN n.owners[key]
                                           ELSE IF labels[key] = None THEN {} ELSE {writer}]]

-----------------------------------------------------------------------------
(* The decisions of a pass                                                 *)

ManagedLabels(labels) == Present(labels) \cap CapiKeys

\* Without the keys Cluster API owns on this Node: those of the Machine, and
\* those the Node's annotation lists.
excludeCAPIOwned(desired, m, n) ==
    Only(Keys \ (ManagedLabels(m.labels) \cup n.fromMachine), desired)

\* Denied keys on the Node that belong neither to this controller nor, going by
\* the Machine, to Cluster API.
foreignDenied(p, m, n, managed) ==
    {key \in Present(n.labels) \ (Present(managed) \cup ManagedLabels(m.labels)) :
         Removable(p, key)}

\* What reportPolicyStatus writes for generation gen.
PolicyStatus(p, gen) ==
    [gen |-> gen, compiled |-> CompiledPatterns(p), skipped |-> SkippedPatterns(p),
     condition |-> IF SkippedPatterns(p) = {} THEN "True" ELSE "False"]

\* Mutant: the generation is not compared.
StatusLooksReported(object, p) ==
    PolicyStatus(p, object.status.gen) = object.status

StatusIsReported(object, p) == PolicyStatus(p, object.gen) = object.status

-----------------------------------------------------------------------------
(* Reconcile                                                               *)

Disturb == calm' = FALSE

\* Read the MD and the policy; without an MD there is nothing to do.
Begin ==
    /\ pc = "idle" /\ queued
    /\ queued' = FALSE
    /\ IF md = None
       THEN UNCHANGED <<pc, loc, timer, calm>>
       ELSE LET p == NewNodePolicy(policy.patterns)
            IN  /\ loc' = [NoLocal EXCEPT !.policy = p, !.object = policy,
                                          !.desired = Filter(p, userLabels(md))]
                /\ pc' = IF policy.exists /\ ~StatusIsReported(policy, p) THEN "report"
                                                                         ELSE "connect"
                /\ calm' = TRUE
                /\ timer' = FALSE
    /\ UNCHANGED <<envVars, policy, node, entries, edits, faults>>

\* Status().Update; the policy's watch sees it and enqueues every MD.  Refused
\* when the object has changed since it was read, which is only logged.
ReportPolicyStatus ==
    /\ pc = "report" /\ pc' = "connect"
    /\ IF loc.object = policy
       THEN /\ policy' = [policy EXCEPT !.status = PolicyStatus(loc.policy, policy.gen)]
            /\ queued' = TRUE
       ELSE UNCHANGED <<policy, queued>>
    /\ UNCHANGED <<envVars, node, entries, loc, timer, calm, edits, faults>>

EndPass(again) ==
    /\ pc' = "idle" /\ loc' = NoLocal
    /\ timer' = TRUE
    /\ queued' = (queued \/ again)

\* The client for the Secret's kubeconfig, and the cache after the call.
targetClient ==
    IF secret = None THEN [client |-> NoClient, entries |-> entries]
                     ELSE GetOrCreate(entries, SecretName, secret)

\* Mutant: the error of GetOrCreate is not looked at.
ConnectUnchecked ==
    /\ pc = "connect" /\ pc' = "visit"
    /\ loc' = [loc EXCEPT !.machines = machine, !.todo = {m \in Machines : machine[m].joined}]
    /\ UNCHANGED <<envVars, policy, node, entries, queueVars, edits, faults>>

\* No Secret: wait 15 minutes.  A kubeconfig that yields no client: an error,
\* retried with backoff.  Otherwise list the Machines, once for the whole pass.
Connect ==
    /\ pc = "connect"
    /\ entries' = targetClient.entries
    /\ IF targetClient.client = NoClient
       THEN EndPass(secret # None) /\ Disturb
       ELSE /\ pc' = "visit"
            /\ loc' = [loc EXCEPT !.client = targetClient.client, !.machines = machine,
                                  !.todo = {m \in Machines : machine[m].joined}]
            /\ UNCHANGED queueVars
    /\ UNCHANGED <<envVars, policy, node, edits, faults>>

\* The target cluster accepts the client, and the Node exists.
Reachable(m) == loc.client = secret /\ machine[m].joined

\* The Machine is done, or its delivery failed, which is only logged.
NextMachine(m) ==
    /\ pc' = "visit"
    /\ loc' = [loc EXCEPT !.todo = @ \ {m}, !.at = None, !.managed = NoLabels, !.foreign = {}]

\* findNode, and what is to be written there; nothing in observe-only mode.
FindNode(m) ==
    /\ pc = "visit" /\ m \in loc.todo
    /\ LET managed == excludeCAPIOwned(loc.desired, loc.machines[m], node[m])
       IN  IF Reachable(m) /\ mode # "observe"
           THEN /\ pc' = "apply"
                /\ loc' = [loc EXCEPT !.at = m, !.managed = managed,
                              !.foreign = foreignDenied(loc.policy, loc.machines[m],
                                                        node[m], managed)]
           ELSE NextMachine(m)
    /\ calm' = (calm /\ Reachable(m))
    /\ UNCHANGED <<envVars, policy, node, entries, queued, timer, edits, faults>>

\* applyLabels: refused as a whole on a conflict.
ApplyLabels ==
    /\ pc = "apply"
    /\ LET m  == loc.at
           ok == Reachable(m) /\ ~ApplyConflicts(node[m], loc.managed)
       IN  /\ node' = IF ok THEN [node EXCEPT ![m] = Applied(@, loc.managed)] ELSE node
           /\ IF ok /\ mode = "strip" /\ loc.foreign # {}
              THEN pc' = "remove" /\ UNCHANGED loc
              ELSE NextMachine(m)
           /\ calm' = (calm /\ ok)
    /\ UNCHANGED <<envVars, policy, entries, queued, timer, edits, faults>>

\* verifyOwnership's read fails after the labels were applied.
VerifyFails ==
    /\ pc = "apply" /\ faults < MaxFaults /\ faults' = faults + 1
    /\ Reachable(loc.at) /\ ~ApplyConflicts(node[loc.at], loc.managed)
    /\ Present(loc.managed) # {}
    /\ node' = [node EXCEPT ![loc.at] = Applied(@, loc.managed)]
    /\ NextMachine(loc.at) /\ Disturb
    /\ UNCHANGED <<envVars, policy, entries, queued, timer, edits>>

\* removeForeign: a merge patch, whoever owns the keys by now.
RemoveForeign ==
    /\ pc = "remove"
    /\ LET m == loc.at
       IN  /\ node' = IF Reachable(m)
                      THEN [node EXCEPT ![m] =
                               Patched(@, Only(Keys \ loc.foreign, @.labels), "delivery")]
                      ELSE node
           /\ NextMachine(m)
           /\ calm' = (calm /\ Reachable(m))
    /\ UNCHANGED <<envVars, policy, entries, queued, timer, edits, faults>>

PassComplete ==
    /\ pc = "visit" /\ loc.todo = {}
    /\ EndPass(FALSE)
    /\ UNCHANGED <<envVars, policy, node, entries, calm, edits, faults>>

\* The RequeueAfter of the last pass is due.
TimerFires ==
    /\ timer /\ timer' = FALSE
    /\ queued' = TRUE
    /\ UNCHANGED <<envVars, policy, node, entries, pc, loc, calm, edits, faults>>

\* A call about one Machine fails, and the next Machine is tried; the status
\* write fails, and is only logged; any other call fails, and the pass is
\* retried; or the process crashes and loses its clients.
Fault ==
    /\ pc # "idle" /\ faults < MaxFaults /\ faults' = faults + 1
    /\ Disturb
    /\ \/ /\ pc = "visit" /\ \E m \in loc.todo : NextMachine(m)
          /\ UNCHANGED <<entries, queued, timer>>
       \/ pc \in {"apply", "remove"} /\ NextMachine(loc.at) /\ UNCHANGED <<entries, queued, timer>>
       \/ pc = "report" /\ pc' = "connect" /\ UNCHANGED <<loc, entries, queued, timer>>
       \/ pc = "connect" /\ EndPass(TRUE) /\ UNCHANGED entries
       \/ /\ pc' = "idle" /\ loc' = NoLocal /\ queued' = TRUE /\ timer' = FALSE
          /\ entries' = NewCache({SecretName})
    /\ UNCHANGED <<envVars, policy, node, edits>>

-----------------------------------------------------------------------------
(* The management cluster                                                  *)

Edit == edits < MaxEdits /\ edits' = edits + 1

\* Mutant: the predicate lets no update of an MD through.
EnqueueCreatedMD(old, new) == queued \/ old = None

\* The watch on MDs: created, deleted, or updated with other template labels.
EnqueueMD(old, new) == queued \/ old # new

\* The claim reconciler changes the labels, or the MD comes or goes.
WriteMD(labels) ==
    /\ Edit /\ labels # md
    /\ md' = labels
    /\ queued' = EnqueueMD(md, labels)
    /\ UNCHANGED <<mode, policy, secret, machine, node, entries, pc, loc, timer, calm, faults>>

\* An administrator creates, changes or deletes the policy: every MD is enqueued.
\* A new object starts without a status; its generation counts its edits.
WritePolicy(patterns) ==
    /\ Edit /\ (policy.exists => patterns # policy.patterns)
    /\ policy' = IF policy.exists THEN [policy EXCEPT !.patterns = patterns, !.gen = @ + 1]
                                  ELSE NewPolicyObject(patterns)
    /\ queued' = TRUE
    /\ UNCHANGED <<envVars, node, entries, pc, loc, timer, calm, faults>>

DeletePolicy ==
    /\ Edit /\ policy.exists
    /\ policy' = NoPolicy
    /\ queued' = TRUE
    /\ UNCHANGED <<envVars, node, entries, pc, loc, timer, calm, faults>>

\* The kubeconfig is created or rotated, or the Secret deleted: not watched.
WriteSecret(kubeconfig) ==
    /\ Edit /\ kubeconfig # secret
    /\ secret' = kubeconfig
    /\ Disturb
    /\ UNCHANGED <<mode, md, policy, machine, node, entries, pc, loc, queued, timer, faults>>

\* Any change of a Machine enqueues its MD.
WriteMachine(m, object) ==
    /\ machine' = [machine EXCEPT ![m] = object]
    /\ queued' = TRUE
    /\ UNCHANGED <<mode, md, policy, secret, entries, pc, loc, timer, faults>>

\* Cluster API sets nodeRef once the Node is there.
MachineJoins(m) ==
    /\ ~machine[m].joined
    /\ WriteMachine(m, [machine[m] EXCEPT !.joined = TRUE])
    /\ UNCHANGED <<node, calm, edits>>

\* A Machine is replaced by a new one of the same MD, with a new Node.
ReplaceMachine(m) ==
    /\ Edit /\ md # None /\ machine[m].joined
    /\ WriteMachine(m, [labels |-> md, joined |-> FALSE])
    /\ node' = [node EXCEPT ![m] = RegisteredNode]
    /\ Disturb

\* Cluster API copies the template's labels to the Machines in place.
CapiLabelMachine(m) ==
    /\ md # None /\ machine[m].labels # md
    /\ WriteMachine(m, [machine[m] EXCEPT !.labels = md])
    /\ UNCHANGED <<node, calm, edits>>

-----------------------------------------------------------------------------
(* The target cluster                                                      *)

WriteNode(m, n) ==
    /\ n # node[m]
    /\ node' = [node EXCEPT ![m] = n]
    /\ Disturb
    /\ UNCHANGED <<envVars, policy, entries, pc, loc, queued, timer, faults>>

\* Cluster API syncs the labels of its domains from a Machine to its Node, and
\* removes those the annotation lists and the Machine has no more.
CapiLabels(m) ==
    LET managed == ManagedLabels(machine[m].labels)
    IN  [key \in Keys |-> CASE key \in managed -> machine[m].labels[key]
                            [] key \in node[m].fromMachine \ managed -> None
                            [] key \notin node[m].fromMachine \cup managed -> node[m].labels[key]]

CapiLabelNode(m) ==
    /\ machine[m].joined
    /\ WriteNode(m, [Patched(node[m], CapiLabels(m), "capi")
                        EXCEPT !.fromMachine = ManagedLabels(machine[m].labels)])
    /\ UNCHANGED edits

\* kubectl or kubelet sets, changes or removes a label.
OtherLabels(m, key, value) ==
    /\ Edit /\ machine[m].joined
    /\ WriteNode(m, Patched(node[m], [node[m].labels EXCEPT ![key] = value], "other"))

\* The kubelet registers the Node anew: labels and annotations are lost.
NodeReregisters(m) ==
    /\ Edit /\ machine[m].joined
    /\ WriteNode(m, RegisteredNode)

-----------------------------------------------------------------------------

DeliveryStep ==
    \/ Begin \/ ReportPolicyStatus \/ Connect \/ ApplyLabels \/ RemoveForeign \/ PassComplete
    \/ \E m \in Machines : FindNode(m)

ClusterAPI == \E m \in Machines : MachineJoins(m) \/ CapiLabelMachine(m) \/ CapiLabelNode(m)

Others ==
    \/ \E labels \in Templates \cup {None} : WriteMD(labels)
    \/ \E patterns \in DenySpecs : WritePolicy(patterns)
    \/ DeletePolicy
    \/ \E kubeconfig \in Kubeconfigs \cup {None} : WriteSecret(kubeconfig)
    \/ \E m \in Machines : \/ ReplaceMachine(m)
                           \/ NodeReregisters(m)
                           \/ \E key \in Keys \ SelectorKeys, value \in Values \cup {None} :
                                  OtherLabels(m, key, value)

Next == DeliveryStep \/ VerifyFails \/ TimerFires \/ Fault \/ ClusterAPI \/ Others

Spec == Init /\ [][Next]_vars

\* A pass runs to its end, timers fire, and Cluster API does its work on every
\* Machine.  Nothing is assumed of anybody else.
FairSpec ==
    /\ Spec
    /\ WF_vars(DeliveryStep) /\ WF_vars(TimerFires)
    /\ \A m \in Machines : /\ WF_vars(MachineJoins(m)) /\ WF_vars(CapiLabelMachine(m))
                           /\ WF_vars(CapiLabelNode(m))

-----------------------------------------------------------------------------
(* Properties                                                              *)

InForce == NewNodePolicy(policy.patterns)

\* The labels this controller has to put on the Node of m ...
Wanted(m) == excludeCAPIOwned(Filter(InForce, userLabels(md)), machine[m], node[m])

\* ... and that it has put there: they have their values, it owns nothing else,
\* the annotation lists them, and what has to be stripped is gone.
NodeAsWanted(m) ==
    /\ \A key \in Present(Wanted(m)) : node[m].labels[key] = Wanted(m)[key]
    /\ {key \in Keys : "delivery" \in node[m].owners[key]} = Present(Wanted(m))
    /\ node[m].fromClaim = Present(Wanted(m))
    /\ mode = "strip" => foreignDenied(InForce, machine[m], node[m], Wanted(m)) = {}

Working == md # None /\ secret # None /\ secret \notin Malformed

\* No lost wakeup: with an empty workqueue every Node is as the MD, the policy
\* and the Machine objects ask, unless a call failed or somebody wrote a Node
\* or the Secret, which nobody watches.
AsleepMeansDelivered ==
    (pc = "idle" /\ ~queued /\ calm /\ Working /\ mode # "observe") =>
        \A m \in Machines : machine[m].joined => NodeAsWanted(m)

\* A pass of this controller changes a label that it does not own alone in one
\* way only: it takes it off, when asked to strip, and when the policy it has
\* read denies the key and the key is not a system one.
HandsOff ==
    [][(ApplyLabels \/ VerifyFails \/ RemoveForeign) =>
         \A m \in Machines, key \in Keys :
             ( /\ node'[m].labels[key] # node[m].labels[key]
               /\ node[m].owners[key] \ {"delivery"} # {} ) =>
                   /\ mode = "strip" /\ node'[m].labels[key] = None
                   /\ key \notin SafetyKeys /\ Denies(loc.policy, key)]_vars

\* Nothing of this controller keeps the Node of m from being as wanted: a label
\* it wants that somebody else holds at another value blocks the whole Node.
Contested(m) == ApplyConflicts(node[m], Wanted(m))

\* Whatever was rotated, replaced, overwritten or handed over between the two
\* controllers, in the end every Node that is not contested carries the user's
\* labels and those of Cluster API.
Delivered ==
    <>[](Working => \A m \in Machines :
             ~Contested(m) =>
                 /\ mode # "observe" => NodeAsWanted(m)
                 /\ \A key \in ManagedLabels(machine[m].labels) :
                        node[m].labels[key] = machine[m].labels[key])

\* The policy's status describes the policy in the end, and is then left alone:
\* the write that triggers the next pass is not repeated by it.
ReportSettles ==
    <>[](md # None =>
           /\ pc # "report"
           /\ policy.exists => policy.status = PolicyStatus(InForce, policy.gen))

-----------------------------------------------------------------------------
(* What the documentation says and the code does not do                    *)

\* cmd/nodelabel-controller, --remove-foreign-denied: "Also delete policy-denied
\* labels owned by another writer (kubectl, kubelet)."  applyLabels comes first
\* and is refused while one label is contested: nothing is removed then.
DeniedRemoved ==
    <>[]((Working /\ mode = "strip") =>
            \A m \in Machines, key \in Keys :
                (node[m].labels[key] # None /\ Removable(InForce, key)) =>
                    key \in ManagedLabels(machine[m].labels))
=============================================================================
