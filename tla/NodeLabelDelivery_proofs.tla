----------------------- MODULE NodeLabelDelivery_proofs -----------------------
(***************************************************************************)
(* Proofs about NodeLabelDelivery, for every set of machines, labels,      *)
(* patterns and kubeconfigs, every mode and every bound.                   *)
(***************************************************************************)
EXTENDS NodeLabelDelivery, FiniteSetTheorems, TLAPS

-----------------------------------------------------------------------------
(* The operators of the policy and of field ownership                      *)

\* A restricted label set is a label set.
LEMMA OnlyType ==
    ASSUME NEW S, NEW labels \in LabelSets
    PROVE  Only(S, labels) \in LabelSets
BY DEF Only, LabelSets

\* A policy for nodes has the safety floor, and is a policy; what compiles of a
\* finite list is finite.
LEMMA NodePolicyType ==
    ASSUME NEW patterns \in SUBSET Patterns, IsFiniteSet(patterns)
    PROVE  /\ NewNodePolicy(patterns) \in Policies
           /\ NewNodePolicy(patterns).safety = SafetyKeys
           /\ IsFiniteSet(NewNodePolicy(patterns).deny)
<1>1. IsFiniteSet(patterns \ Broken)
  BY FS_Difference
<1> QED
  BY <1>1, PolicyAssumption DEF NewNodePolicy, newPolicy, Policies

\* What the policy may take off a Node it denies, and never a system key.
LEMMA RemovableDenied ==
    ASSUME NEW p, NEW key, Removable(p, key)
    PROVE  Denies(p, key) /\ key \notin p.safety
BY DEF Removable, Denies

\* Every label on a Node has an owner, and only those.
Owned(n) == \A key \in Keys : (n.labels[key] = None) <=> (n.owners[key] = {})

\* What server-side apply makes of a Node, label by label.
LEMMA AppliedFields ==
    ASSUME NEW n \in Nodes, NEW labels \in LabelSets
    PROVE  /\ Applied(n, labels) \in Nodes
           /\ Applied(n, labels).fromMachine = n.fromMachine
           /\ Applied(n, labels).fromClaim = Present(labels)
           /\ \A key \in Keys :
                 /\ key \in Present(labels) =>
                      /\ Applied(n, labels).labels[key] = labels[key]
                      /\ Applied(n, labels).owners[key] = n.owners[key] \cup {"delivery"}
                 /\ key \notin Present(labels) =>
                      /\ Applied(n, labels).owners[key] = n.owners[key] \ {"delivery"}
                      /\ Applied(n, labels).labels[key] =
                           IF n.owners[key] \ {"delivery"} = {} THEN None ELSE n.labels[key]
<1> DEFINE owners(key) == IF key \in Present(labels) THEN n.owners[key] \cup {"delivery"}
                                                     ELSE n.owners[key] \ {"delivery"}
           lab == [key \in Keys |-> IF key \in Present(labels) THEN labels[key]
                                    ELSE IF owners(key) = {} THEN None ELSE n.labels[key]]
           own == [key \in Keys |-> owners(key)]
<1>1. Applied(n, labels) =
        [n EXCEPT !.labels = lab, !.owners = own, !.fromClaim = Present(labels)]
  BY DEF Applied
<1>2. lab \in LabelSets /\ own \in [Keys -> SUBSET Writers] /\ Present(labels) \in SUBSET Keys
  BY DEF LabelSets, Nodes, Writers, Present
<1>3. Applied(n, labels) = [labels |-> lab, owners |-> own, fromMachine |-> n.fromMachine,
                            fromClaim |-> Present(labels)]
  <2> HIDE DEF lab, own
  <2> QED
    BY <1>1 DEF Nodes
<1>4. Applied(n, labels) \in Nodes
  <2> HIDE DEF lab, own
  <2> QED
    BY <1>2, <1>3 DEF Nodes
<1> QED
  BY <1>3, <1>4

\* What a patch of another writer makes of a Node, label by label.
LEMMA PatchedFields ==
    ASSUME NEW n \in Nodes, NEW labels \in LabelSets, NEW writer \in Writers
    PROVE  /\ Patched(n, labels, writer) \in Nodes
           /\ Patched(n, labels, writer).labels = labels
           /\ Patched(n, labels, writer).fromMachine = n.fromMachine
           /\ Patched(n, labels, writer).fromClaim = n.fromClaim
           /\ \A key \in Keys :
                 /\ labels[key] = n.labels[key] =>
                      Patched(n, labels, writer).owners[key] = n.owners[key]
                 /\ labels[key] # n.labels[key] =>
                      (Patched(n, labels, writer).owners[key] = {} <=> labels[key] = None)
<1> DEFINE own == [key \in Keys |-> IF labels[key] = n.labels[key] THEN n.owners[key]
                                    ELSE IF labels[key] = None THEN {} ELSE {writer}]
<1>1. Patched(n, labels, writer) = [n EXCEPT !.labels = labels, !.owners = own]
  BY DEF Patched
<1>2. own \in [Keys -> SUBSET Writers]
  BY DEF Nodes
<1>3. Patched(n, labels, writer) =
        [labels |-> labels, owners |-> own, fromMachine |-> n.fromMachine,
         fromClaim |-> n.fromClaim]
  <2> HIDE DEF own
  <2> QED
    BY <1>1 DEF Nodes
<1>4. Patched(n, labels, writer) \in Nodes
  <2> HIDE DEF own
  <2> QED
    BY <1>2, <1>3 DEF Nodes
<1> QED
  BY <1>3, <1>4

\* Neither kind of write leaves a label without an owner, or the other way round.
LEMMA AppliedOwned ==
    ASSUME NEW n \in Nodes, NEW labels \in LabelSets, Owned(n)
    PROVE  Owned(Applied(n, labels))
<1> SUFFICES ASSUME NEW key \in Keys
             PROVE  (Applied(n, labels).labels[key] = None) <=> (Applied(n, labels).owners[key] = {})
  BY DEF Owned
<1>1. (n.labels[key] = None) <=> (n.owners[key] = {})
  BY DEF Owned
<1>2. CASE key \in Present(labels)
  BY <1>2, AppliedFields DEF Present
<1>3. CASE key \notin Present(labels)
  BY <1>1, <1>3, AppliedFields
<1> QED
  BY <1>2, <1>3

\* A patch leaves no label without an owner.
LEMMA PatchedOwned ==
    ASSUME NEW n \in Nodes, NEW labels \in LabelSets, NEW writer \in Writers, Owned(n)
    PROVE  Owned(Patched(n, labels, writer))
<1> SUFFICES ASSUME NEW key \in Keys
             PROVE  (Patched(n, labels, writer).labels[key] = None)
                       <=> (Patched(n, labels, writer).owners[key] = {})
  BY DEF Owned
<1>1. (n.labels[key] = None) <=> (n.owners[key] = {})
  BY DEF Owned
<1> DEFINE q == Patched(n, labels, writer)
<1>2. q.labels[key] = labels[key]
  BY PatchedFields DEF Writers
<1>3. /\ labels[key] = n.labels[key] => q.owners[key] = n.owners[key]
      /\ labels[key] # n.labels[key] => (q.owners[key] = {} <=> labels[key] = None)
  BY PatchedFields DEF Writers
<1> QED
  BY <1>1, <1>2, <1>3

\* A Node as the kubelet registers it.
LEMMA RegisteredType == RegisteredNode \in Nodes /\ Owned(RegisteredNode)
<1>1. SystemValue \in Values /\ SystemValue # None
  BY DeliveryAssumption, PolicyAssumption DEF SystemValue
<1> QED
  BY <1>1 DEF RegisteredNode, Nodes, Owned, LabelSets, Writers

-----------------------------------------------------------------------------
(* Type correctness                                                        *)
(*                                                                         *)
(* The generation of the policy object stays within its bound because only *)
(* edits raise it, and the number of compiled patterns is a number because *)
(* the lists are finite.                                                   *)

PolicyBounded ==
    /\ policy.gen <= edits + 1
    /\ IsFiniteSet(policy.patterns)
    /\ IsFiniteSet(loc.policy.deny)

TypeInv == DeliveryTypeOK /\ PolicyBounded

\* A pass that has been given up, or not begun, holds nothing.
LEMMA NoLocalType == NoLocal \in Locals /\ IsFiniteSet(NoLocal.policy.deny)
<1>1. IsFiniteSet({}) /\ {} \in SUBSET Patterns
  BY FS_EmptySet
<1>2. NewNodePolicy({}) \in Policies /\ IsFiniteSet(NewNodePolicy({}).deny)
  BY <1>1, NodePolicyType
<1>3. NoPolicy \in PolicyObjects
  BY DeliveryBounds DEF NoPolicy, NoStatus, PolicyObjects
<1>4. NoLabels \in LabelSets
  BY DEF NoLabels, LabelSets
<1> QED
  BY <1>2, <1>3, <1>4 DEF NoLocal, Locals, MachineObjects

\* What an administrator creates.
LEMMA NewPolicyType ==
    ASSUME NEW patterns \in DenySpecs
    PROVE  NewPolicyObject(patterns) \in PolicyObjects /\ IsFiniteSet(patterns)
BY DeliveryBounds, TemplatesAssumption, DeliveryAssumption
   DEF NewPolicyObject, NoStatus, PolicyObjects

\* Initial states are well typed.
LEMMA TypeInit == Init => TypeInv
<1> SUFFICES ASSUME Init PROVE TypeInv
  OBVIOUS
<1> USE DEF Init
<1>1. policy \in PolicyObjects /\ policy.gen <= edits + 1 /\ IsFiniteSet(policy.patterns)
  <2>1. CASE policy = NoPolicy
    BY <2>1, DeliveryBounds, FS_EmptySet DEF NoPolicy, NoStatus, PolicyObjects
  <2>2. CASE policy \in {NewPolicyObject(patterns) : patterns \in DenySpecs}
    <3>1. PICK patterns \in DenySpecs : policy = NewPolicyObject(patterns)
      BY <2>2
    <3>2. policy.gen = 1 /\ policy.patterns = patterns
      BY <3>1 DEF NewPolicyObject
    <3> QED
      BY <3>1, <3>2, NewPolicyType
  <2> QED
    BY <2>1, <2>2
<1>2. secret \in Kubeconfigs \cup {None}
  BY DeliveryAssumption
<1>3. machine \in [Machines -> MachineObjects]
  BY TemplatesAssumption DEF MachineObjects
<1>4. node \in [Machines -> Nodes] /\ \A m \in Machines : Owned(node[m])
  BY RegisteredType
<1>5. entries \in [{SecretName} -> (Kubeconfigs \ Malformed) \cup {NoClient}]
  BY DEF NewCache
<1>6. loc \in Locals /\ IsFiniteSet(loc.policy.deny)
  BY NoLocalType
<1>7. /\ mode \in Modes /\ md \in Templates \cup {None} /\ pc = "idle"
      /\ queued \in BOOLEAN /\ timer \in BOOLEAN /\ calm \in BOOLEAN
  OBVIOUS
<1>8. edits \in 0..MaxEdits /\ faults \in 0..MaxFaults
  BY DeliveryBounds
<1> HIDE DEF Init
<1> QED
  BY <1>1, <1>2, <1>3, <1>4, <1>5, <1>6, <1>7, <1>8
     DEF TypeInv, DeliveryTypeOK, PolicyBounded, Owned

\* The type invariant in the parts that the steps change.
EnvOK  == /\ mode \in Modes /\ md \in Templates \cup {None}
          /\ secret \in Kubeconfigs \cup {None} /\ machine \in [Machines -> MachineObjects]
PolOK  == /\ policy \in PolicyObjects /\ policy.gen <= edits + 1
          /\ IsFiniteSet(policy.patterns) /\ edits \in 0..MaxEdits
NodeOK == node \in [Machines -> Nodes] /\ \A m \in Machines : Owned(node[m])
CacheOK == entries \in [{SecretName} -> (Kubeconfigs \ Malformed) \cup {NoClient}]
PassOK == /\ pc \in {"idle", "report", "connect", "visit", "apply", "remove"}
          /\ loc \in Locals /\ IsFiniteSet(loc.policy.deny)
          /\ pc \in {"visit", "apply", "remove"} => loc.client # NoClient
          /\ pc \in {"apply", "remove"} => loc.at \in loc.todo
FlagsOK == /\ queued \in BOOLEAN /\ timer \in BOOLEAN /\ calm \in BOOLEAN
           /\ faults \in 0..MaxFaults

\* The type invariant, by the variables that one action changes together.
LEMMA TypeParts ==
    TypeInv <=> (EnvOK /\ PolOK /\ NodeOK /\ CacheOK /\ PassOK /\ FlagsOK)
BY DEF TypeInv, DeliveryTypeOK, PolicyBounded, EnvOK, PolOK, NodeOK, CacheOK, PassOK, FlagsOK,
       Owned

\* The counters stay within their bounds.
LEMMA EditCounted ==
    ASSUME PolOK, Edit
    PROVE  /\ edits' = edits + 1 /\ edits' \in 0..MaxEdits /\ edits' + 1 \in 1..MaxEdits + 1
           /\ policy.gen + 1 \in 0..MaxEdits + 1 /\ policy.gen + 1 <= edits' + 1
           /\ policy' = policy => PolOK'
<1>1. edits \in 0..MaxEdits /\ edits < MaxEdits /\ edits' = edits + 1 /\ policy.gen <= edits + 1
  BY DEF PolOK, Edit
<1>2. policy.gen \in Nat /\ MaxEdits \in Nat /\ edits \in Nat
  BY <1>1, DeliveryBounds DEF PolOK, PolicyObjects
<1>3. /\ edits' = edits + 1 /\ edits' \in 0..MaxEdits /\ edits' + 1 \in 1..MaxEdits + 1
      /\ policy.gen + 1 \in 0..MaxEdits + 1 /\ policy.gen + 1 <= edits' + 1
      /\ policy.gen <= edits' + 1
  BY <1>1, <1>2
<1> QED
  BY <1>3 DEF PolOK

\* A fault is counted within the bound.
LEMMA FaultCounted ==
    ASSUME FlagsOK, faults < MaxFaults, faults' = faults + 1
    PROVE  faults' \in 0..MaxFaults
BY DeliveryBounds DEF FlagsOK

\* A write of one Node.
LEMMA NodeWritten ==
    ASSUME NodeOK, NEW m \in Machines, NEW n \in Nodes, Owned(n),
           node' = [node EXCEPT ![m] = n]
    PROVE  NodeOK'
BY DEF NodeOK

\* A write of one Machine.
LEMMA MachineWritten ==
    ASSUME EnvOK, NEW m \in Machines, NEW object \in MachineObjects,
           machine' = [machine EXCEPT ![m] = object], UNCHANGED <<mode, md, secret>>
    PROVE  EnvOK'
BY DEF EnvOK

\* The pass ends or goes on to the next Machine.
LEMMA PassEnds ==
    ASSUME pc' = "idle", loc' = NoLocal
    PROVE  PassOK'
BY NoLocalType DEF PassOK

\* Going on to the next Machine keeps the state of a pass well typed.
LEMMA PassGoesOn ==
    ASSUME PassOK, pc \in {"visit", "apply", "remove"}, NEW m, NextMachine(m)
    PROVE  PassOK'
<1>1. pc' = "visit" /\ loc.client # NoClient /\ loc \in Locals
  BY DEF NextMachine, PassOK
<1>2. loc' = [loc EXCEPT !.todo = @ \ {m}, !.at = None, !.managed = NoLabels, !.foreign = {}]
  BY DEF NextMachine
<1>3. loc'.client = loc.client /\ loc'.policy = loc.policy
  BY <1>1, <1>2 DEF Locals
<1>4. NoLabels \in LabelSets
  BY DEF NoLabels, LabelSets
<1>5. loc' \in Locals
  BY <1>1, <1>2, <1>4 DEF Locals
<1> QED
  BY <1>1, <1>3, <1>5 DEF PassOK

\* Every action keeps the types.
LEMMA TypeStep ==
    ASSUME TypeInv, Next
    PROVE  TypeInv'
<1> EnvOK /\ PolOK /\ NodeOK /\ CacheOK /\ PassOK /\ FlagsOK
  BY TypeParts
<1> SUFFICES EnvOK' /\ PolOK' /\ NodeOK' /\ CacheOK' /\ PassOK' /\ FlagsOK'
  BY DEF TypeInv, DeliveryTypeOK, PolicyBounded, EnvOK, PolOK, NodeOK, CacheOK, PassOK, FlagsOK,
         Owned
<1> USE DEF envVars, queueVars
<1>1. CASE Begin
  <2>1. EnvOK' /\ PolOK' /\ NodeOK' /\ CacheOK' /\ FlagsOK'
    BY <1>1 DEF Begin, EnvOK, PolOK, NodeOK, CacheOK, FlagsOK
  <2>2. CASE md = None
    BY <1>1, <2>1, <2>2 DEF Begin, PassOK
  <2>3. CASE md # None
    <3> DEFINE p == NewNodePolicy(policy.patterns)
    <3>1. p \in Policies /\ IsFiniteSet(p.deny)
      BY NodePolicyType DEF PolOK, PolicyObjects
    <3>2. Filter(p, userLabels(md)) \in LabelSets
      BY <2>3, OnlyType, TemplatesAssumption DEF Filter, userLabels, EnvOK
    <3>3. /\ loc' = [NoLocal EXCEPT !.policy = p, !.object = policy,
                                    !.desired = Filter(p, userLabels(md))]
          /\ pc' \in {"report", "connect"}
      BY <1>1, <2>3 DEF Begin
    <3> HIDE DEF p
    <3>4. NoLocal \in Locals /\ policy \in PolicyObjects
      BY NoLocalType DEF PolOK
    <3>5. loc' \in Locals /\ loc'.policy = p
      BY <3>1, <3>2, <3>3, <3>4 DEF Locals
    <3> QED
      BY <2>1, <3>1, <3>3, <3>5 DEF PassOK
  <2> QED
    BY <2>2, <2>3
<1>2. CASE ReportPolicyStatus
  <2>1. EnvOK' /\ NodeOK' /\ CacheOK' /\ PassOK' /\ FlagsOK'
    BY <1>2 DEF ReportPolicyStatus, EnvOK, NodeOK, CacheOK, PassOK, FlagsOK
  <2>2. PolOK'
    <3>1. CASE policy' = policy
      BY <1>2, <3>1 DEF ReportPolicyStatus, PolOK
    <3>2. CASE policy' = [policy EXCEPT !.status = PolicyStatus(loc.policy, policy.gen)]
      <4>1. Cardinality(loc.policy.deny) \in Nat /\ loc.policy \in Policies
        BY FS_CardinalityType DEF PassOK, Locals
      <4>2. PolicyStatus(loc.policy, policy.gen) \in
              [gen : 0..MaxEdits + 1, compiled : Nat, skipped : SUBSET Patterns,
               condition : {"none", "True", "False"}]
        BY <4>1 DEF PolicyStatus, CompiledPatterns, SkippedPatterns, Policies, PolOK, PolicyObjects
      <4>3. /\ policy' \in PolicyObjects /\ policy'.gen = policy.gen
            /\ policy'.patterns = policy.patterns
        BY <3>2, <4>2 DEF PolOK, PolicyObjects
      <4> QED
        BY <1>2, <4>3 DEF ReportPolicyStatus, PolOK
    <3> QED
      BY <1>2, <3>1, <3>2 DEF ReportPolicyStatus
  <2> QED
    BY <2>1, <2>2
<1>3. CASE Connect
  <2>1. EnvOK' /\ PolOK' /\ NodeOK' /\ FlagsOK'
    BY <1>3 DEF Connect, EndPass, Disturb, EnvOK, PolOK, NodeOK, FlagsOK
  <2>2. /\ targetClient.entries \in [{SecretName} -> (Kubeconfigs \ Malformed) \cup {NoClient}]
        /\ targetClient.client \in Kubeconfigs \cup {NoClient}
    <3>1. CASE secret = None
      BY <3>1 DEF targetClient, CacheOK
    <3>2. CASE secret # None
      <4> DEFINE c == IF entries[SecretName] = secret THEN entries[SecretName] ELSE build(secret)
      <4>1. c \in (Kubeconfigs \ Malformed) \cup {NoClient}
        BY <3>2 DEF CacheOK, EnvOK, build
      <4>2. targetClient = [client |-> c, entries |-> IF c = NoClient THEN entries
                                           ELSE [entries EXCEPT ![SecretName] = c]]
        BY <3>2 DEF targetClient, GetOrCreate
      <4> HIDE DEF c
      <4> QED
        BY <4>1, <4>2 DEF CacheOK
    <3> QED
      BY <3>1, <3>2
  <2>3. CacheOK'
    BY <1>3, <2>2 DEF Connect, CacheOK
  <2>4. CASE targetClient.client = NoClient
    BY <1>3, <2>1, <2>3, <2>4, PassEnds DEF Connect, EndPass
  <2>5. CASE targetClient.client # NoClient
    <3>1. /\ pc' = "visit"
          /\ loc' = [loc EXCEPT !.client = targetClient.client, !.machines = machine,
                                !.todo = {m \in Machines : machine[m].joined}]
      BY <1>3, <2>5 DEF Connect
    <3>2. loc' \in Locals /\ loc'.policy = loc.policy /\ loc'.client = targetClient.client
      BY <2>2, <3>1 DEF PassOK, Locals, EnvOK
    <3> QED
      BY <2>1, <2>3, <2>5, <3>1, <3>2 DEF PassOK
  <2> QED
    BY <2>4, <2>5
<1>4. CASE \E m \in Machines : FindNode(m)
  <2>1. PICK m \in Machines : FindNode(m)
    BY <1>4
  <2>2. EnvOK' /\ PolOK' /\ NodeOK' /\ CacheOK' /\ FlagsOK'
    BY <2>1 DEF FindNode, EnvOK, PolOK, NodeOK, CacheOK, FlagsOK
  <2>3. CASE NextMachine(m)
    BY <2>1, <2>2, <2>3, PassGoesOn DEF FindNode
  <2>4. CASE ~NextMachine(m)
    <3> DEFINE managed == excludeCAPIOwned(loc.desired, loc.machines[m], node[m])
               foreign == foreignDenied(loc.policy, loc.machines[m], node[m], managed)
    <3>1. /\ pc = "visit" /\ m \in loc.todo /\ pc' = "apply"
          /\ loc' = [loc EXCEPT !.at = m, !.managed = managed, !.foreign = foreign]
      BY <2>1, <2>4 DEF FindNode
    <3>2. managed \in LabelSets
      BY OnlyType DEF excludeCAPIOwned, PassOK, Locals
    <3>3. foreign \in SUBSET Keys
      BY DEF foreignDenied, Present
    <3> HIDE DEF managed, foreign
    <3>4. /\ loc' \in Locals /\ loc'.policy = loc.policy /\ loc'.client = loc.client
          /\ loc'.at = m /\ loc'.todo = loc.todo
      BY <3>1, <3>2, <3>3 DEF PassOK, Locals
    <3> QED
      BY <2>2, <3>1, <3>4 DEF PassOK
  <2> QED
    BY <2>3, <2>4
<1>5. CASE ApplyLabels \/ VerifyFails
  <2>1. pc = "apply" /\ loc.at \in Machines /\ loc.managed \in LabelSets
    BY <1>5 DEF ApplyLabels, VerifyFails, PassOK, Locals
  <2>2. EnvOK' /\ PolOK' /\ CacheOK' /\ FlagsOK'
    <3>1. EnvOK' /\ PolOK' /\ CacheOK'
      BY <1>5 DEF ApplyLabels, VerifyFails, EnvOK, PolOK, CacheOK
    <3>2. faults' \in 0..MaxFaults
      BY <1>5, FaultCounted DEF ApplyLabels, VerifyFails, FlagsOK
    <3>3. UNCHANGED <<queued, timer>> /\ calm' \in BOOLEAN
      BY <1>5 DEF ApplyLabels, VerifyFails, Disturb, FlagsOK
    <3> QED
      BY <3>1, <3>2, <3>3 DEF FlagsOK
  <2>3. NodeOK'
    <3>1. \/ node' = node
          \/ node' = [node EXCEPT ![loc.at] = Applied(node[loc.at], loc.managed)]
      BY <1>5 DEF ApplyLabels, VerifyFails
    <3>2. node[loc.at] \in Nodes /\ Owned(node[loc.at])
      BY <2>1 DEF NodeOK
    <3>3. /\ Applied(node[loc.at], loc.managed) \in Nodes
          /\ Owned(Applied(node[loc.at], loc.managed))
      BY <2>1, <3>2, AppliedFields, AppliedOwned
    <3> QED
      BY <2>1, <3>1, <3>3, NodeWritten DEF NodeOK
  <2>4. \/ NextMachine(loc.at)
        \/ pc' = "remove" /\ loc' = loc
    BY <1>5 DEF ApplyLabels, VerifyFails
  <2>5. PassOK'
    <3>1. CASE NextMachine(loc.at)
      BY <2>1, <3>1, PassGoesOn
    <3>2. CASE pc' = "remove" /\ loc' = loc
      BY <2>1, <3>2 DEF PassOK
    <3> QED
      BY <2>4, <3>1, <3>2
  <2> QED
    BY <2>2, <2>3, <2>5
<1>6. CASE RemoveForeign
  <2>1. pc = "remove" /\ loc.at \in Machines /\ NextMachine(loc.at)
    BY <1>6 DEF RemoveForeign, PassOK, Locals
  <2>2. EnvOK' /\ PolOK' /\ CacheOK' /\ FlagsOK'
    BY <1>6 DEF RemoveForeign, EnvOK, PolOK, CacheOK, FlagsOK
  <2>3. NodeOK'
    <3> DEFINE n == node[loc.at]
               labels == Only(Keys \ loc.foreign, n.labels)
    <3>1. \/ node' = node
          \/ node' = [node EXCEPT ![loc.at] = Patched(n, labels, "delivery")]
      BY <1>6 DEF RemoveForeign
    <3>2. n \in Nodes /\ Owned(n)
      BY <2>1 DEF NodeOK
    <3>3. labels \in LabelSets
      BY <3>2, OnlyType DEF Nodes
    <3> HIDE DEF n, labels
    <3>4. Patched(n, labels, "delivery") \in Nodes /\ Owned(Patched(n, labels, "delivery"))
      BY <3>2, <3>3, PatchedFields, PatchedOwned DEF Writers
    <3> QED
      BY <2>1, <3>1, <3>4, NodeWritten DEF NodeOK
  <2> QED
    BY <2>1, <2>2, <2>3, PassGoesOn
<1>7. CASE PassComplete \/ TimerFires
  <2>1. EnvOK' /\ PolOK' /\ NodeOK' /\ CacheOK' /\ FlagsOK'
    BY <1>7 DEF PassComplete, TimerFires, EndPass, EnvOK, PolOK, NodeOK, CacheOK, FlagsOK
  <2>2. PassOK'
    BY <1>7, PassEnds DEF PassComplete, TimerFires, EndPass, PassOK
  <2> QED
    BY <2>1, <2>2
<1>8. CASE Fault
  <2>1. EnvOK' /\ PolOK' /\ NodeOK'
    BY <1>8 DEF Fault, EnvOK, PolOK, NodeOK
  <2>2. FlagsOK'
    <3>1. faults' \in 0..MaxFaults
      BY <1>8, FaultCounted DEF Fault
    <3>2. queued' \in BOOLEAN /\ timer' \in BOOLEAN /\ calm' \in BOOLEAN
      BY <1>8 DEF Fault, Disturb, EndPass, FlagsOK
    <3> QED
      BY <3>1, <3>2 DEF FlagsOK
  <2>3. CacheOK'
    BY <1>8 DEF Fault, NewCache, CacheOK
  <2>4. PassOK'
    <3>1. CASE pc \in {"visit", "apply", "remove"} /\ \E m : NextMachine(m)
      BY <3>1, PassGoesOn
    <3>2. CASE pc = "report" /\ pc' = "connect" /\ loc' = loc
      BY <3>2 DEF PassOK
    <3>3. CASE pc' = "idle" /\ loc' = NoLocal
      BY <3>3, PassEnds
    <3> QED
      BY <1>8, <3>1, <3>2, <3>3 DEF Fault, EndPass
  <2> QED
    BY <2>1, <2>2, <2>3, <2>4
<1>9. CASE \/ \E labels \in Templates \cup {None} : WriteMD(labels)
           \/ \E kubeconfig \in Kubeconfigs \cup {None} : WriteSecret(kubeconfig)
  <2>1. PolOK'
    BY <1>9, EditCounted DEF WriteMD, WriteSecret
  <2>2. EnvOK' /\ NodeOK' /\ CacheOK' /\ PassOK'
    BY <1>9 DEF WriteMD, WriteSecret, EnvOK, NodeOK, CacheOK, PassOK
  <2>3. FlagsOK'
    BY <1>9 DEF WriteMD, WriteSecret, EnqueueMD, Disturb, FlagsOK
  <2> QED
    BY <2>1, <2>2, <2>3
<1>10. CASE (\E patterns \in DenySpecs : WritePolicy(patterns)) \/ DeletePolicy
  <2>1. EnvOK' /\ NodeOK' /\ CacheOK' /\ PassOK' /\ FlagsOK'
    BY <1>10 DEF WritePolicy, DeletePolicy, EnvOK, NodeOK, CacheOK, PassOK, FlagsOK
  <2>2. /\ edits' = edits + 1 /\ edits' \in 0..MaxEdits /\ edits' + 1 \in 1..MaxEdits + 1
        /\ policy.gen + 1 \in 0..MaxEdits + 1 /\ policy.gen + 1 <= edits' + 1
    BY <1>10, EditCounted DEF WritePolicy, DeletePolicy
  <2>3. policy' \in PolicyObjects /\ policy'.gen <= edits' + 1 /\ IsFiniteSet(policy'.patterns)
    <3>1. CASE DeletePolicy
      <4>1. policy' = NoPolicy /\ NoPolicy \in PolicyObjects
        BY <3>1, NoLocalType DEF DeletePolicy, NoLocal, Locals
      <4>2. NoPolicy.gen = 0 /\ NoPolicy.patterns = {}
        BY DEF NoPolicy
      <4>3. 0 <= edits' + 1
        BY <2>2
      <4> QED
        BY <4>1, <4>2, <4>3, FS_EmptySet
    <3>2. CASE \E patterns \in DenySpecs : WritePolicy(patterns)
      <4>1. PICK patterns \in DenySpecs : WritePolicy(patterns)
        BY <3>2
      <4>2. patterns \in SUBSET Patterns /\ IsFiniteSet(patterns)
        BY TemplatesAssumption, DeliveryAssumption
      <4>3. CASE policy.exists
        <5>1. policy' = [policy EXCEPT !.patterns = patterns, !.gen = @ + 1]
          BY <4>1, <4>3 DEF WritePolicy
        <5>2. policy'.gen = policy.gen + 1 /\ policy'.patterns = patterns
          BY <5>1 DEF PolOK, PolicyObjects
        <5>3. policy' \in PolicyObjects
          BY <2>2, <4>2, <5>1 DEF PolOK, PolicyObjects
        <5> QED
          BY <2>2, <4>2, <5>2, <5>3
      <4>4. CASE ~policy.exists
        <5>1. policy' = NewPolicyObject(patterns)
          BY <4>1, <4>4 DEF WritePolicy
        <5>2. policy'.gen = 1 /\ policy'.patterns = patterns
          BY <5>1 DEF NewPolicyObject
        <5> QED
          BY <2>2, <5>1, <5>2, NewPolicyType
      <4> QED
        BY <4>3, <4>4
    <3> QED
      BY <1>10, <3>1, <3>2
  <2> QED
    BY <2>1, <2>2, <2>3 DEF PolOK
<1>11. CASE \E m \in Machines : MachineJoins(m) \/ CapiLabelMachine(m) \/ ReplaceMachine(m)
  <2>1. PICK m \in Machines : MachineJoins(m) \/ CapiLabelMachine(m) \/ ReplaceMachine(m)
    BY <1>11
  <2>2. PolOK' /\ CacheOK' /\ PassOK' /\ FlagsOK'
    <3>1. PolOK'
      BY <2>1, EditCounted DEF MachineJoins, CapiLabelMachine, ReplaceMachine, WriteMachine, PolOK
    <3>2. CacheOK' /\ PassOK' /\ FlagsOK'
      BY <2>1 DEF MachineJoins, CapiLabelMachine, ReplaceMachine, WriteMachine, Disturb, CacheOK,
                  PassOK, FlagsOK
    <3> QED
      BY <3>1, <3>2
  <2>3. machine[m] \in MachineObjects
    BY DEF EnvOK
  <2>4. \E object \in MachineObjects : WriteMachine(m, object)
    BY <2>1, <2>3, TemplatesAssumption DEF MachineJoins, CapiLabelMachine, ReplaceMachine,
       MachineObjects, EnvOK
  <2>5. EnvOK'
    BY <2>4, MachineWritten DEF WriteMachine
  <2>6. NodeOK'
    <3>1. node' = node \/ node' = [node EXCEPT ![m] = RegisteredNode]
      BY <2>1 DEF MachineJoins, CapiLabelMachine, ReplaceMachine
    <3> QED
      BY <3>1, RegisteredType, NodeWritten DEF NodeOK
  <2> QED
    BY <2>2, <2>5, <2>6
<1>12. CASE \E m \in Machines :
              \/ CapiLabelNode(m) \/ NodeReregisters(m)
              \/ \E key \in Keys \ SelectorKeys, value \in Values \cup {None} :
                     OtherLabels(m, key, value)
  <2>1. PICK m \in Machines :
              \/ CapiLabelNode(m) \/ NodeReregisters(m)
              \/ \E key \in Keys \ SelectorKeys, value \in Values \cup {None} :
                     OtherLabels(m, key, value)
    BY <1>12
  <2>2. EnvOK' /\ PolOK' /\ CacheOK' /\ PassOK' /\ FlagsOK'
    <3>1. PolOK'
      BY <2>1, EditCounted DEF CapiLabelNode, NodeReregisters, OtherLabels, WriteNode, PolOK
    <3>2. EnvOK' /\ CacheOK' /\ PassOK' /\ FlagsOK'
      BY <2>1 DEF CapiLabelNode, NodeReregisters, OtherLabels, WriteNode, Disturb, EnvOK, CacheOK,
                  PassOK, FlagsOK
    <3> QED
      BY <3>1, <3>2
  <2>3. node[m] \in Nodes /\ Owned(node[m]) /\ machine[m] \in MachineObjects
    BY DEF NodeOK, EnvOK
  <2>4. CASE CapiLabelNode(m)
    <3> DEFINE q == Patched(node[m], CapiLabels(m), "capi")
               n == [q EXCEPT !.fromMachine = ManagedLabels(machine[m].labels)]
    <3>1. CapiLabels(m) \in LabelSets
      BY <2>3 DEF CapiLabels, LabelSets, MachineObjects, Nodes, ManagedLabels
    <3>2. q \in Nodes /\ Owned(q)
      BY <2>3, <3>1, PatchedFields, PatchedOwned DEF Writers
    <3> HIDE DEF q
    <3>3. ManagedLabels(machine[m].labels) \in SUBSET Keys
      BY DEF ManagedLabels, Present
    <3>4. n \in Nodes /\ n.labels = q.labels /\ n.owners = q.owners
      BY <3>2, <3>3 DEF Nodes
    <3>5. Owned(n)
      BY <3>2, <3>4 DEF Owned
    <3>6. node' = [node EXCEPT ![m] = n]
      BY <2>4 DEF CapiLabelNode, WriteNode, q
    <3> HIDE DEF n
    <3> QED
      BY <2>2, <3>4, <3>5, <3>6, NodeWritten
  <2>5. CASE NodeReregisters(m)
    BY <2>2, <2>5, RegisteredType, NodeWritten DEF NodeReregisters, WriteNode
  <2>6. CASE \E key \in Keys \ SelectorKeys, value \in Values \cup {None} :
                 OtherLabels(m, key, value)
    <3>1. PICK key \in Keys \ SelectorKeys, value \in Values \cup {None} :
                 OtherLabels(m, key, value)
      BY <2>6
    <3> DEFINE labels == [node[m].labels EXCEPT ![key] = value]
               n == Patched(node[m], labels, "other")
    <3>2. labels \in LabelSets
      BY <2>3 DEF LabelSets, Nodes
    <3> HIDE DEF labels
    <3>3. n \in Nodes /\ Owned(n)
      BY <2>3, <3>2, PatchedFields, PatchedOwned DEF Writers
    <3>4. node' = [node EXCEPT ![m] = n]
      BY <3>1 DEF OtherLabels, WriteNode, labels
    <3> HIDE DEF n
    <3> QED
      BY <2>2, <3>3, <3>4, NodeWritten
  <2> QED
    BY <2>1, <2>4, <2>5, <2>6
<1> QED
  BY <1>1, <1>2, <1>3, <1>4, <1>5, <1>6, <1>7, <1>8, <1>9, <1>10, <1>11, <1>12
     DEF Next, DeliveryStep, ClusterAPI, Others

\* No step leaves TypeInv.
LEMMA TypeInductive == TypeInv /\ [Next]_vars => TypeInv'
<1>1. TypeInv /\ UNCHANGED vars => TypeInv'
  BY DEF TypeInv, DeliveryTypeOK, PolicyBounded, vars, queueVars
<1> QED
  BY <1>1, TypeStep

\* Whatever is written, rotated, replaced or fails, every object and every copy
\* of a pass keeps its shape; in particular no label on a Node is without owner,
\* and a pass that visits Nodes has a client and writes only a Node it has still
\* to visit.
THEOREM DeliveryTypeCorrect == Spec => []DeliveryTypeOK
<1>1. TypeInv => DeliveryTypeOK
  BY DEF TypeInv
<1> QED
  BY <1>1, TypeInit, TypeInductive, PTL DEF Spec

-----------------------------------------------------------------------------
(* Labels of others                                                        *)
(*                                                                         *)
(* What removeForeign takes off was decided a step earlier, and from a     *)
(* Node that others may have written since: the decision is kept in loc.   *)

StripInv ==
    /\ TypeInv
    /\ loc.policy.safety = SafetyKeys
    /\ pc = "remove" => mode = "strip"
    /\ pc \in {"apply", "remove"} => \A key \in loc.foreign : Removable(loc.policy, key)

\* At first no pass has anything to strip.
LEMMA StripInit == Init => StripInv
<1> SUFFICES ASSUME Init PROVE StripInv
  OBVIOUS
<1>1. pc = "idle" /\ loc.policy.safety = SafetyKeys
  BY DEF Init, NoLocal, NewNodePolicy, newPolicy
<1> QED
  BY <1>1, TypeInit DEF StripInv

\* No step leaves StripInv.
LEMMA StripInductive == StripInv /\ [Next]_vars => StripInv'
<1> SUFFICES ASSUME StripInv, [Next]_vars PROVE StripInv'
  OBVIOUS
<1> USE DEF StripInv
<1>1. TypeInv' /\ loc \in Locals
  BY TypeInductive DEF TypeInv, DeliveryTypeOK
<1>2. NoLocal.policy.safety = SafetyKeys
  BY DEF NoLocal, NewNodePolicy, newPolicy
<1>3. CASE pc' = "idle" /\ loc' = NoLocal
  BY <1>1, <1>2, <1>3
<1>4. CASE mode' = mode /\ \E m : NextMachine(m)
  <2>1. pc' = "visit" /\ loc'.policy = loc.policy
    BY <1>1, <1>4 DEF NextMachine, Locals
  <2> QED
    BY <1>1, <2>1
<1>5. CASE UNCHANGED <<pc, loc, mode>>
  BY <1>1, <1>5
<1>6. CASE pc' = "connect" /\ loc' = loc
  BY <1>1, <1>6
<1>7. CASE Begin
  <2>1. pc' \in {"report", "connect"} \/ UNCHANGED <<pc, loc, mode>>
    BY <1>7 DEF Begin, envVars
  <2>2. pc' \in {"report", "connect"} => loc'.policy = NewNodePolicy(policy.patterns)
    BY <1>7, NoLocalType DEF Begin, Locals
  <2>3. NewNodePolicy(policy.patterns).safety = SafetyKeys
    BY DEF NewNodePolicy, newPolicy
  <2> QED
    BY <1>1, <1>5, <2>1, <2>2, <2>3
<1>8. CASE Connect
  <2>1. \/ pc' = "idle" /\ loc' = NoLocal
        \/ pc' = "visit" /\ loc'.policy = loc.policy
    BY <1>1, <1>8 DEF Connect, EndPass, Locals
  <2> QED
    BY <1>1, <1>3, <2>1
<1>9. CASE \E m \in Machines : FindNode(m)
  <2>1. PICK m \in Machines : FindNode(m)
    BY <1>9
  <2>2. CASE NextMachine(m)
    BY <1>4, <2>1, <2>2 DEF FindNode, envVars
  <2>3. CASE ~NextMachine(m)
    <3> DEFINE managed == excludeCAPIOwned(loc.desired, loc.machines[m], node[m])
               foreign == foreignDenied(loc.policy, loc.machines[m], node[m], managed)
    <3>1. pc' = "apply" /\ loc' = [loc EXCEPT !.at = m, !.managed = managed, !.foreign = foreign]
      BY <2>1, <2>3 DEF FindNode
    <3>2. \A key \in foreign : Removable(loc.policy, key)
      BY DEF foreignDenied
    <3> HIDE DEF managed, foreign
    <3>3. loc'.policy = loc.policy /\ loc'.foreign = foreign
      BY <1>1, <3>1 DEF Locals
    <3> QED
      BY <1>1, <3>1, <3>2, <3>3
  <2> QED
    BY <2>2, <2>3
<1>10. CASE ApplyLabels
  <2>1. \/ NextMachine(loc.at)
        \/ pc = "apply" /\ pc' = "remove" /\ loc' = loc /\ mode = "strip"
    BY <1>10 DEF ApplyLabels
  <2>2. mode' = mode
    BY <1>10 DEF ApplyLabels, envVars
  <2> QED
    BY <1>1, <1>4, <2>1, <2>2
<1>11. CASE VerifyFails \/ RemoveForeign
  BY <1>4, <1>11 DEF VerifyFails, RemoveForeign, envVars
<1>12. CASE PassComplete \/ Fault
  BY <1>3, <1>4, <1>6, <1>12 DEF PassComplete, Fault, EndPass, envVars
<1>13. CASE ReportPolicyStatus
  BY <1>6, <1>13 DEF ReportPolicyStatus
<1>14. CASE TimerFires \/ ClusterAPI \/ Others \/ UNCHANGED vars
  <2>1. UNCHANGED <<pc, loc, mode>>
    BY <1>14 DEF TimerFires, ClusterAPI, Others, MachineJoins, CapiLabelMachine, CapiLabelNode,
       WriteMD, WritePolicy, DeletePolicy, WriteSecret, ReplaceMachine, NodeReregisters,
       OtherLabels, WriteMachine, WriteNode, envVars, vars
  <2> QED
    BY <1>5, <2>1
<1> QED
  BY <1>7, <1>8, <1>9, <1>10, <1>11, <1>12, <1>13, <1>14 DEF Next, DeliveryStep

\* Server-side apply that does not conflict leaves every label alone that
\* somebody else owns.
LEMMA ApplyHandsOff ==
    ASSUME NEW n \in Nodes, Owned(n), NEW labels \in LabelSets, ~ApplyConflicts(n, labels),
           NEW key \in Keys, n.owners[key] \ {"delivery"} # {}
    PROVE  Applied(n, labels).labels[key] = n.labels[key]
<1>1. n.labels[key] # None
  BY DEF Owned
<1>2. CASE key \in Present(labels)
  <2>1. n.labels[key] \in {labels[key], None}
    BY <1>2 DEF ApplyConflicts
  <2>2. Applied(n, labels).labels[key] = labels[key]
    BY <1>2, AppliedFields
  <2> QED
    BY <1>1, <2>1, <2>2
<1>3. CASE key \notin Present(labels)
  BY <1>3, AppliedFields
<1> QED
  BY <1>2, <1>3

\* A pass changes a label that somebody else owns, too, only by taking it off,
\* only in strip mode, and only when the policy that it has read denies the key
\* and the key is no system key: also when policy, Machine and Node have changed
\* between its reads and its writes.
THEOREM DeliveryHandsOff == Spec => HandsOff
<1> DEFINE Allowed ==
      (ApplyLabels \/ VerifyFails \/ RemoveForeign) =>
         \A m \in Machines, key \in Keys :
             ( /\ node'[m].labels[key] # node[m].labels[key]
               /\ node[m].owners[key] \ {"delivery"} # {} ) =>
                   /\ mode = "strip" /\ node'[m].labels[key] = None
                   /\ key \notin SafetyKeys /\ Denies(loc.policy, key)
<1>1. StripInv => Allowed
  <2> SUFFICES ASSUME StripInv, ApplyLabels \/ VerifyFails \/ RemoveForeign,
                      NEW m \in Machines, NEW key \in Keys,
                      node'[m].labels[key] # node[m].labels[key],
                      node[m].owners[key] \ {"delivery"} # {}
               PROVE  /\ mode = "strip" /\ node'[m].labels[key] = None
                      /\ key \notin SafetyKeys /\ Denies(loc.policy, key)
    BY DEF Allowed
  <2> NodeOK /\ PassOK /\ loc \in Locals
    BY TypeParts DEF StripInv, PassOK
  <2>1. node[m] \in Nodes /\ Owned(node[m]) /\ node \in [Machines -> Nodes]
    BY DEF NodeOK
  <2>2. CASE ApplyLabels \/ VerifyFails
    <3>1. /\ ~ApplyConflicts(node[loc.at], loc.managed)
          /\ node' = [node EXCEPT ![loc.at] = Applied(node[loc.at], loc.managed)]
      BY <2>2 DEF ApplyLabels, VerifyFails
    <3>2. m = loc.at
      BY <2>1, <3>1
    <3>3. node'[m] = Applied(node[m], loc.managed)
      BY <2>1, <3>1, <3>2
    <3> QED
      BY <2>1, <3>1, <3>2, <3>3, ApplyHandsOff DEF Locals
  <2>3. CASE RemoveForeign
    <3> DEFINE labels == Only(Keys \ loc.foreign, node[m].labels)
    <3>1. pc = "remove"
      BY <2>3 DEF RemoveForeign
    <3>2. node' = [node EXCEPT ![loc.at] = Patched(node[loc.at],
                       Only(Keys \ loc.foreign, node[loc.at].labels), "delivery")]
      BY <2>3 DEF RemoveForeign
    <3>3. m = loc.at
      BY <2>1, <3>2
    <3>4. node'[m] = Patched(node[m], labels, "delivery")
      BY <2>1, <3>2, <3>3
    <3>5. labels \in LabelSets
      BY <2>1, OnlyType DEF Nodes
    <3>6. node'[m].labels = labels
      BY <2>1, <3>4, <3>5, PatchedFields DEF Writers
    <3>7. key \in loc.foreign /\ labels[key] = None
      BY <3>6 DEF Only
    <3> QED
      BY <3>1, <3>6, <3>7, RemovableDenied DEF StripInv
  <2> QED
    BY <2>2, <2>3
<1> QED
  BY <1>1, StripInit, StripInductive, PTL DEF Spec, HandsOff

-----------------------------------------------------------------------------
(* Nothing is forgotten                                                    *)
(*                                                                         *)
(* While nothing has been queued and nothing has disturbed the pass, its   *)
(* copies are the objects, and the Machines that are done are as wanted.   *)

\* The Node of m as NodeAsWanted asks, but for what has still to be stripped.
LabelsAsWanted(m) ==
    /\ \A key \in Present(Wanted(m)) : node[m].labels[key] = Wanted(m)[key]
    /\ {key \in Keys : "delivery" \in node[m].owners[key]} = Present(Wanted(m))
    /\ node[m].fromClaim = Present(Wanted(m))

\* What is to be stripped from it.
Leftovers(m) == foreignDenied(InForce, machine[m], node[m], Wanted(m))

VisitPcs == {"visit", "apply", "remove"}

Undisturbed ==
    /\ pc # "idle" =>
         md # None /\ loc.policy = InForce /\ loc.desired = Filter(InForce, userLabels(md))
    /\ pc \in VisitPcs => loc.machines = machine
    /\ pc \in VisitPcs =>
         \A m \in Machines : machine[m].joined /\ m \notin loc.todo => NodeAsWanted(m)
    /\ pc \in {"apply", "remove"} =>
         /\ loc.foreign \cap Present(loc.managed) = {}
         /\ \A m \in Machines :
               m = loc.at => loc.managed = Wanted(m) /\ Leftovers(m) \subseteq loc.foreign
    /\ pc = "remove" => \A m \in Machines : m = loc.at => LabelsAsWanted(m)
    /\ pc = "idle" /\ md # None => \A m \in Machines : machine[m].joined => NodeAsWanted(m)

DeliveredInv ==
    /\ TypeInv
    /\ (~queued /\ calm /\ mode # "observe") => Undisturbed

\* What is wanted on a Node depends on the MD, the policy, the Machine and the
\* annotation of Cluster API only.
LEMMA WantedFrame ==
    ASSUME NEW m \in Machines, UNCHANGED <<md, policy, machine>>,
           node'[m].fromMachine = node[m].fromMachine
    PROVE  InForce' = InForce /\ Wanted(m)' = Wanted(m)
BY DEF InForce, Wanted, excludeCAPIOwned

\* A Node stays as wanted while it and all that decides on it stay.
LEMMA AsWantedFrame ==
    ASSUME NEW m \in Machines, UNCHANGED <<md, policy, machine, mode>>, node'[m] = node[m],
           NodeAsWanted(m)
    PROVE  NodeAsWanted(m)'
<1>1. InForce' = InForce /\ Wanted(m)' = Wanted(m)
  BY WantedFrame
<1> QED
  BY <1>1 DEF NodeAsWanted

\* Server-side apply makes the Node carry and lets this controller own exactly
\* the labels it names, and adds no other label.
LEMMA AppliedAsWanted ==
    ASSUME NEW n \in Nodes, NEW labels \in LabelSets
    PROVE  /\ \A key \in Present(labels) : Applied(n, labels).labels[key] = labels[key]
           /\ {key \in Keys : "delivery" \in Applied(n, labels).owners[key]} = Present(labels)
           /\ Present(Applied(n, labels).labels) \subseteq Present(n.labels) \cup Present(labels)
<1>1. Present(labels) \subseteq Keys
  BY DEF Present
<1>2. \A key \in Present(labels) : Applied(n, labels).labels[key] = labels[key]
  BY <1>1, AppliedFields
<1>3. ASSUME NEW key \in Keys
      PROVE  "delivery" \in Applied(n, labels).owners[key] <=> key \in Present(labels)
  <2>1. CASE key \in Present(labels)
    BY <2>1, AppliedFields
  <2>2. CASE key \notin Present(labels)
    BY <2>2, AppliedFields
  <2> QED
    BY <2>1, <2>2
<1>4. ASSUME NEW key \in Keys, Applied(n, labels).labels[key] # None, key \notin Present(labels)
      PROVE  n.labels[key] # None
  BY <1>4, AppliedFields
<1>5. Present(Applied(n, labels).labels) \subseteq Present(n.labels) \cup Present(labels)
  BY <1>4 DEF Present
<1> QED
  BY <1>1, <1>2, <1>3, <1>5

\* Every action wakes the controller or keeps what the last pass has achieved.
LEMMA DeliveredStep ==
    ASSUME DeliveredInv, Next, TypeInv'
    PROVE  DeliveredInv'
<1> SUFFICES ASSUME ~queued', calm', mode' # "observe" PROVE Undisturbed'
  BY DEF DeliveredInv
<1> NodeOK /\ PassOK /\ loc \in Locals /\ EnvOK
  BY TypeParts DEF DeliveredInv, PassOK
<1> USE DEF VisitPcs
<1>1. CASE Begin
  <2>1. UNCHANGED <<md, policy, mode>> /\ InForce' = InForce
    BY <1>1 DEF Begin, envVars, InForce
  <2>2. CASE md = None
    BY <1>1, <2>1, <2>2 DEF Begin, Undisturbed
  <2>3. CASE md # None
    <3>1. /\ loc' = [NoLocal EXCEPT !.policy = InForce, !.object = policy,
                                    !.desired = Filter(InForce, userLabels(md))]
          /\ pc' \in {"report", "connect"}
      BY <1>1, <2>3 DEF Begin, InForce
    <3>2. loc'.policy = InForce /\ loc'.desired = Filter(InForce, userLabels(md))
      BY <3>1, NoLocalType DEF Locals
    <3> QED
      BY <2>1, <2>3, <3>1, <3>2 DEF Undisturbed
  <2> QED
    BY <2>2, <2>3
<1>2. CASE ReportPolicyStatus
  <2>1. /\ pc = "report" /\ pc' = "connect" /\ UNCHANGED <<md, policy, mode, loc, calm, queued>>
        /\ InForce' = InForce
    BY <1>2 DEF ReportPolicyStatus, envVars, InForce
  <2>2. Undisturbed
    BY <2>1 DEF DeliveredInv
  <2> QED
    BY <2>1, <2>2 DEF Undisturbed
<1>3. CASE Connect
  <2>1. /\ pc = "connect" /\ pc' = "visit"
        /\ UNCHANGED <<md, policy, mode, machine, node, calm, queued>> /\ InForce' = InForce
        /\ loc' = [loc EXCEPT !.client = targetClient.client, !.machines = machine,
                              !.todo = {m \in Machines : machine[m].joined}]
    BY <1>3 DEF Connect, Disturb, envVars, queueVars, InForce
  <2>2. Undisturbed
    BY <2>1 DEF DeliveredInv
  <2>3. /\ loc'.machines = machine /\ loc'.todo = {m \in Machines : machine[m].joined}
        /\ loc'.policy = loc.policy /\ loc'.desired = loc.desired
    BY <2>1 DEF Locals
  <2> QED
    BY <2>1, <2>2, <2>3 DEF Undisturbed
<1>4. CASE \E m \in Machines : FindNode(m)
  <2>1. PICK m \in Machines : FindNode(m)
    BY <1>4
  <2> DEFINE managed == excludeCAPIOwned(loc.desired, loc.machines[m], node[m])
             foreign == foreignDenied(loc.policy, loc.machines[m], node[m], managed)
  <2>2. /\ pc = "visit" /\ m \in loc.todo /\ calm /\ ~queued
        /\ UNCHANGED <<md, policy, mode, machine, node>>
    BY <2>1 DEF FindNode, envVars
  <2>3. /\ pc' = "apply"
        /\ loc' = [loc EXCEPT !.at = m, !.managed = managed, !.foreign = foreign]
    BY <2>1, <2>2 DEF FindNode
  <2>4. Undisturbed
    BY <2>2 DEF DeliveredInv
  <2>5. managed = Wanted(m) /\ foreign = Leftovers(m)
    BY <2>2, <2>4 DEF Undisturbed, Wanted, Leftovers
  <2>6. foreign \cap Present(managed) = {}
    BY DEF foreignDenied
  <2> HIDE DEF managed, foreign
  <2>7. /\ loc'.at = m /\ loc'.managed = managed /\ loc'.foreign = foreign
        /\ loc'.policy = loc.policy /\ loc'.desired = loc.desired
        /\ loc'.machines = loc.machines /\ loc'.todo = loc.todo
    BY <2>3 DEF Locals
  <2>8. InForce' = InForce /\ Wanted(m)' = Wanted(m)
    BY <2>2, WantedFrame
  <2>9. Leftovers(m)' = Leftovers(m)
    BY <2>2, <2>8 DEF Leftovers
  <2>10. \A x \in Machines : machine'[x].joined /\ x \notin loc'.todo => NodeAsWanted(x)'
    BY <2>2, <2>4, <2>7, AsWantedFrame DEF Undisturbed
  <2> QED
    BY <2>2, <2>3, <2>4, <2>5, <2>6, <2>7, <2>8, <2>9, <2>10 DEF Undisturbed
<1>7. CASE PassComplete
  <2>1. /\ pc = "visit" /\ loc.todo = {} /\ pc' = "idle" /\ calm /\ ~queued
        /\ UNCHANGED <<md, policy, mode, machine, node>>
    BY <1>7 DEF PassComplete, EndPass, envVars
  <2>2. Undisturbed
    BY <2>1 DEF DeliveredInv
  <2>3. \A m \in Machines : machine'[m].joined => NodeAsWanted(m)'
    BY <2>1, <2>2, AsWantedFrame DEF Undisturbed
  <2> QED
    BY <2>1, <2>3 DEF Undisturbed
<1>8. CASE VerifyFails \/ TimerFires \/ Fault \/ ClusterAPI \/ Others
  <2>1. queued' \/ ~calm'
    BY <1>8 DEF VerifyFails, TimerFires, Fault, ClusterAPI, Others, MachineJoins,
       CapiLabelMachine, CapiLabelNode, WriteMD, WritePolicy, DeletePolicy, WriteSecret,
       ReplaceMachine, NodeReregisters, OtherLabels, WriteMachine, WriteNode, Disturb, EnqueueMD
  <2> QED
    BY <2>1
<1>5. CASE ApplyLabels
  <2> DEFINE m == loc.at
             q == Applied(node[m], loc.managed)
  <2>1. /\ pc = "apply" /\ calm /\ ~queued /\ m \in Machines /\ m \in loc.todo
        /\ UNCHANGED <<md, policy, mode, machine>>
        /\ node' = [node EXCEPT ![m] = q]
    BY <1>5 DEF ApplyLabels, envVars, PassOK, Locals
  <2>2. Undisturbed
    BY <2>1 DEF DeliveredInv
  <2>3. /\ node[m] \in Nodes /\ loc.managed \in LabelSets /\ node'[m] = q
        /\ \A x \in Machines : x # m => node'[x] = node[x]
    BY <2>1 DEF NodeOK, Locals
  <2>4. InForce' = InForce /\ \A x \in Machines : x = m => Wanted(x)' = loc.managed
    <3>1. node'[m].fromMachine = node[m].fromMachine
      BY <2>3, AppliedFields
    <3> QED
      BY <2>1, <2>2, <3>1, WantedFrame DEF Undisturbed
  <2>5. ASSUME NEW x \in Machines, x = m PROVE LabelsAsWanted(x)'
    BY <2>3, <2>4, <2>5, AppliedAsWanted, AppliedFields DEF LabelsAsWanted
  <2>6. ASSUME NEW x \in Machines, x = m PROVE Leftovers(x)' \subseteq loc.foreign
    <3>1. Leftovers(x) \subseteq loc.foreign /\ loc.managed = Wanted(x)
      BY <2>1, <2>2, <2>6 DEF Undisturbed
    <3>2. Present(q.labels) \subseteq Present(node[m].labels) \cup Present(loc.managed)
      BY <2>3, AppliedAsWanted
    <3>3. Leftovers(x)' = foreignDenied(InForce, machine[x], q, loc.managed)
      BY <2>1, <2>3, <2>4, <2>6 DEF Leftovers
    <3>4. Leftovers(x) = foreignDenied(InForce, machine[x], node[m], loc.managed)
      BY <2>6, <3>1 DEF Leftovers
    <3> QED
      BY <3>1, <3>2, <3>3, <3>4 DEF foreignDenied
  <2> HIDE DEF q, m
  <2>7. ASSUME NEW x \in Machines, machine[x].joined, x \notin loc.todo PROVE NodeAsWanted(x)'
    <3>1. x # m /\ NodeAsWanted(x)
      BY <2>1, <2>2, <2>7 DEF Undisturbed
    <3> QED
      BY <2>1, <2>3, <3>1, AsWantedFrame
  <2>8. CASE NextMachine(loc.at)
    <3>1. mode # "strip" \/ loc.foreign = {}
      BY <1>5, <2>1, <2>8 DEF ApplyLabels, NextMachine
    <3>2. ASSUME NEW x \in Machines, x = m PROVE NodeAsWanted(x)'
      <4>1. LabelsAsWanted(x)' /\ Leftovers(x)' \subseteq loc.foreign
        BY <2>5, <2>6, <3>2
      <4> QED
        BY <2>1, <3>1, <4>1 DEF NodeAsWanted, LabelsAsWanted, Leftovers
    <3>3. /\ pc' = "visit" /\ loc'.todo = loc.todo \ {m} /\ loc'.policy = loc.policy
          /\ loc'.desired = loc.desired /\ loc'.machines = loc.machines
      BY <2>8 DEF NextMachine, Locals, m
    <3>4. \A x \in Machines : machine'[x].joined /\ x \notin loc'.todo => NodeAsWanted(x)'
      BY <2>1, <2>7, <3>2, <3>3
    <3> QED
      BY <2>1, <2>2, <2>4, <3>3, <3>4 DEF Undisturbed
  <2>9. CASE pc' = "remove" /\ loc' = loc
    <3>1. \A x \in Machines : machine'[x].joined /\ x \notin loc'.todo => NodeAsWanted(x)'
      BY <2>1, <2>7, <2>9
    <3>2. \A x \in Machines : x = loc'.at =>
             loc'.managed = Wanted(x)' /\ Leftovers(x)' \subseteq loc'.foreign /\ LabelsAsWanted(x)'
      BY <2>4, <2>5, <2>6, <2>9 DEF m
    <3> QED
      BY <2>1, <2>2, <2>4, <2>9, <3>1, <3>2 DEF Undisturbed
  <2> QED
    BY <1>5, <2>8, <2>9 DEF ApplyLabels
<1>6. CASE RemoveForeign
  <2> DEFINE m == loc.at
             n == node[m]
             labels == Only(Keys \ loc.foreign, n.labels)
             q == Patched(n, labels, "delivery")
  <2>1. /\ pc = "remove" /\ calm /\ ~queued /\ m \in Machines /\ m \in loc.todo
        /\ UNCHANGED <<md, policy, mode, machine>>
        /\ node' = [node EXCEPT ![m] = q] /\ NextMachine(m)
    BY <1>6 DEF RemoveForeign, envVars, PassOK, Locals
  <2>2. Undisturbed
    BY <2>1 DEF DeliveredInv
  <2>3. /\ n \in Nodes /\ node'[m] = q /\ \A x \in Machines : x # m => node'[x] = node[x]
    BY <2>1 DEF NodeOK
  <2>4. labels \in LabelSets
    BY <2>3, OnlyType DEF Nodes
  <2>5. \A key \in Keys : labels[key] = IF key \in loc.foreign THEN None ELSE n.labels[key]
    BY DEF Only
  <2> HIDE DEF n, labels
  <2>6. /\ q.labels = labels /\ q.fromMachine = n.fromMachine /\ q.fromClaim = n.fromClaim
        /\ \A key \in Keys : labels[key] = n.labels[key] => q.owners[key] = n.owners[key]
        /\ \A key \in Keys : labels[key] # n.labels[key] /\ labels[key] = None => q.owners[key] = {}
    BY <2>3, <2>4, PatchedFields DEF Writers
  <2> USE DEF n
  <2> HIDE DEF q
  <2>7. InForce' = InForce /\ \A x \in Machines : x = m => Wanted(x)' = loc.managed
    BY <2>1, <2>2, <2>3, <2>6, WantedFrame DEF Undisturbed
  <2>8. ASSUME NEW x \in Machines, x = m PROVE NodeAsWanted(x)'
    <3> DEFINE W == Present(loc.managed)
    <3>1. /\ W \subseteq Keys /\ loc.foreign \cap W = {}
          /\ LabelsAsWanted(x) /\ loc.managed = Wanted(x) /\ Leftovers(x) \subseteq loc.foreign
      BY <2>1, <2>2, <2>8 DEF Undisturbed, Present
    <3>2. /\ \A key \in W : n.labels[key] = loc.managed[key]
          /\ {key \in Keys : "delivery" \in n.owners[key]} = W
          /\ n.fromClaim = W
      BY <2>8, <3>1 DEF LabelsAsWanted
    <3>3. \A key \in W : q.labels[key] = loc.managed[key]
      BY <2>6, <2>5, <3>1, <3>2
    <3>4. ASSUME NEW key \in Keys PROVE "delivery" \in q.owners[key] <=> key \in W
      <4>1. "delivery" \in n.owners[key] <=> key \in W
        BY <3>2
      <4>2. CASE labels[key] = n.labels[key]
        BY <2>6, <4>1, <4>2
      <4>3. CASE labels[key] # n.labels[key]
        BY <2>6, <2>5, <3>1, <4>3
      <4> QED
        BY <4>2, <4>3
    <3>5. {key \in Keys : "delivery" \in q.owners[key]} = W
      BY <3>1, <3>4
    <3>6. foreignDenied(InForce, machine[x], q, loc.managed) = {}
      <4>1. foreignDenied(InForce, machine[x], n, loc.managed) \subseteq loc.foreign
        BY <2>8, <3>1 DEF Leftovers
      <4>2. Present(q.labels) = Present(n.labels) \ loc.foreign
        BY <2>6, <2>5 DEF Present
      <4> QED
        BY <4>1, <4>2 DEF foreignDenied
    <3>7. node'[x] = q /\ Wanted(x)' = loc.managed /\ machine' = machine
      BY <2>1, <2>3, <2>7, <2>8
    <3>8. q.fromClaim = W
      BY <2>6, <3>2
    <3> HIDE DEF W
    <3> QED
      BY <2>7, <3>3, <3>5, <3>6, <3>7, <3>8 DEF NodeAsWanted, W
  <2>9. ASSUME NEW x \in Machines, machine[x].joined, x \notin loc.todo PROVE NodeAsWanted(x)'
    <3>1. x # m /\ NodeAsWanted(x)
      BY <2>1, <2>2, <2>9 DEF Undisturbed
    <3> QED
      BY <2>1, <2>3, <3>1, AsWantedFrame
  <2>10. /\ pc' = "visit" /\ loc'.todo = loc.todo \ {m} /\ loc'.policy = loc.policy
         /\ loc'.desired = loc.desired /\ loc'.machines = loc.machines
    BY <2>1 DEF NextMachine, Locals
  <2>11. \A x \in Machines : machine'[x].joined /\ x \notin loc'.todo => NodeAsWanted(x)'
    BY <2>1, <2>8, <2>9, <2>10
  <2> QED
    BY <2>1, <2>2, <2>7, <2>10, <2>11 DEF Undisturbed
<1> QED
  BY <1>1, <1>2, <1>3, <1>4, <1>5, <1>6, <1>7, <1>8 DEF Next, DeliveryStep

\* At first the MD is in the queue.
LEMMA DeliveredInit == Init => DeliveredInv
BY TypeInit DEF Init, DeliveredInv

\* No step leaves DeliveredInv.
LEMMA DeliveredInductive == DeliveredInv /\ [Next]_vars => DeliveredInv'
<1>1. DeliveredInv /\ UNCHANGED vars => DeliveredInv'
  <2> SUFFICES ASSUME DeliveredInv, UNCHANGED vars PROVE DeliveredInv'
    OBVIOUS
  <2>1. TypeInv'
    BY TypeInductive DEF DeliveredInv
  <2>2. Undisturbed => Undisturbed'
    BY DEF vars, Undisturbed, NodeAsWanted, LabelsAsWanted, Leftovers, Wanted, InForce
  <2> QED
    BY <2>1, <2>2 DEF DeliveredInv, vars, queueVars
<1>2. DeliveredInv /\ Next => DeliveredInv'
  BY DeliveredStep, TypeInductive DEF DeliveredInv
<1> QED
  BY <1>1, <1>2

\* No lost wakeup in the delivery controller: an empty workqueue means that every
\* Node is as the MD, the policy and its Machine ask, whatever was written between
\* the reads and the writes of the passes, unless a call failed or somebody wrote
\* a Node or the Secret.
THEOREM NoDeliveryForgotten == Spec => []AsleepMeansDelivered
<1>1. DeliveredInv => AsleepMeansDelivered
  BY DEF DeliveredInv, Undisturbed, AsleepMeansDelivered, Working
<1> QED
  BY <1>1, DeliveredInit, DeliveredInductive, PTL DEF Spec
=============================================================================
