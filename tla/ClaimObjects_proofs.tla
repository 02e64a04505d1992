------------------------- MODULE ClaimObjects_proofs -------------------------
(***************************************************************************)
(* Proofs about ClaimObjects, for any number of claims, any specs, shared  *)
(* templates, label policies and kubelet settings.                         *)
(***************************************************************************)
EXTENDS ClaimObjects, TLAPS

-----------------------------------------------------------------------------
(* What a complete reconcile makes of the inputs                           *)

Accepted(c)   == Filter(labelPolicy, spec[c].labels)
BmtContent(c) == Render(machineTemplate, spec[c].infrastructure)
KctContent(c) == Render(bootstrapTemplate, BootstrapVars(c, Accepted(c)))
BmtName(c)    == ResourceName(c, "bmt", ComputeHash(BmtContent(c)))
KctName(c)    == ResourceName(c, "kct", ComputeHash(KctContent(c)))
Desired(c)    == BuildMachineDeployment(c, Accepted(c), BmtName(c), KctName(c))

\* An object has the owner it was created for, possibly a namesake of c.
WantedBMT(c, w) == [name |-> BmtName(c), owner |-> w, content |-> BmtContent(c)]
WantedMD(c, w)  == [name |-> MachineDeploymentName(c), owner |-> w, fields |-> Desired(c)]
WantedKCT(c, w) == [name |-> KctName(c), owner |-> w, content |-> KctContent(c)]

Renders(c) ==
    /\ PrepareVars(spec[c].infrastructure) /\ PrepareVars(spec[c].bootstrap)
    /\ BmtContent(c) # RenderError /\ KctContent(c) # RenderError

-----------------------------------------------------------------------------
(* Invariants                                                              *)

MDFields == RefFields \cup InPlaceFields

\* Objects have these fields and no others.
ObjectShapes ==
    /\ \A o \in bmts \cup kcts :
          o = [name |-> o.name, owner |-> o.owner, content |-> o.content]
    /\ \A o \in mds :
          /\ o = [name |-> o.name, owner |-> o.owner, fields |-> o.fields]
          /\ o.fields = [f \in MDFields |-> o.fields[f]]
    /\ \A o \in mhcs : o = [name |-> o.name, owner |-> o.owner, timeout |-> o.timeout]

\* Every object bears the name of the claim that owns it, and a BMT's name is
\* that of its content.
Owned ==
    /\ \A o \in bmts \cup kcts :
          /\ o.owner \in Claims
          /\ o.name = ResourceName(o.owner, o.name.type, o.name.hash)
    /\ \A o \in mds \cup mhcs :
          o.owner \in Claims /\ o.name = MachineDeploymentName(o.owner)
    /\ \A o \in bmts : o.name.hash = ComputeHash(o.content)

Unique(objects) == \A o, p \in objects : o.name = p.name => o = p

\* An MD refers to templates of its own claim, if it has a reference at all.
RefsOwned ==
    \A o \in mds : \A f \in RefFields :
        \/ o.fields[f] = None
        \/ \E type, hash : o.fields[f] = ResourceName(o.owner, type, hash)

InputTypes ==
    /\ spec \in [Claims -> Specs]
    /\ machineTemplate \in MachineTemplates /\ bootstrapTemplate \in BootstrapTemplates
    /\ policy \in DenySpecs \cup {{}} /\ unhealthyTimeout \in Timeouts
    /\ failed \subseteq Claims /\ touched \in [Claims -> SUBSET Inputs]
    /\ edits \in 0..MaxEdits

OwnInv ==
    /\ InputTypes /\ ObjectShapes /\ Owned /\ RefsOwned
    /\ Unique(bmts) /\ Unique(kcts) /\ Unique(mds) /\ Unique(mhcs)

-----------------------------------------------------------------------------
(* A reconcile                                                             *)

\* The history after a complete reconcile of c.
Noted(c) ==
    touched' = [d \in Claims |-> IF d = c THEN {}
                                 ELSE touched[d] \cup {x \in {"drift"} : d \in Namesakes(c)}]

\* A name of a template tells its parts.
LEMMA ResourceNameParts ==
    ASSUME NEW c, NEW d, NEW type, NEW hash, NEW type2, NEW hash2,
           ResourceName(c, type, hash) = ResourceName(d, type2, hash2)
    PROVE  /\ MachineDeploymentName(c) = MachineDeploymentName(d)
           /\ type = type2 /\ hash = hash2
BY DEF ResourceName, MachineDeploymentName

\* Where a reconcile can end.
LEMMA ReconcileCases ==
    ASSUME NEW c \in Claims, Reconcile(c)
    PROVE  /\ UNCHANGED <<inputVars, edits>>
           /\ \/ /\ failed' \in {failed, failed \cup {c}}
                 /\ UNCHANGED <<objectVars, touched>>
              \/ /\ EnsureBMT(c, BmtName(c), BmtContent(c))
                 /\ UNCHANGED <<kcts, mds, mhcs, failed, touched>>
              \/ /\ Renders(c)
                 /\ EnsureBMT(c, BmtName(c), BmtContent(c))
                 /\ EnsureKCT(c, KctName(c), KctContent(c))
                 /\ EnsureMachineDeployment(c, Desired(c))
                 /\ EnsureMachineHealthCheck(c)
                 /\ failed' = failed \ {c}
                 /\ Noted(c)
<1> DEFINE labels   == SanitizeNodeLabels(spec[c].labels, labelPolicy)
           rendered == renderTemplates(c, labels)
           ok       == labels # RenderError /\ rendered # RenderError
<1>1. CASE ~ok
  BY <1>1 DEF Reconcile
<1>2. CASE ok
  <2>1. labels = Accepted(c)
    BY <1>2 DEF SanitizeNodeLabels, Accepted
  <2>2. rendered = [bmt |-> BmtContent(c), kct |-> KctContent(c)] /\ Renders(c)
    BY <1>2, <2>1 DEF renderTemplates, BmtContent, KctContent, Renders
  <2>3. rendered.bmt = BmtContent(c) /\ rendered.kct = KctContent(c)
    BY <2>2
  <2> HIDE DEF labels, rendered
  <2>4. /\ ResourceName(c, "bmt", ComputeHash(rendered.bmt)) = BmtName(c)
        /\ ResourceName(c, "kct", ComputeHash(rendered.kct)) = KctName(c)
        /\ BuildMachineDeployment(c, labels, BmtName(c), KctName(c)) = Desired(c)
    BY <2>1, <2>3 DEF BmtName, KctName, Desired
  <2> QED
    BY <1>2, <2>2, <2>3, <2>4 DEF Reconcile, labels, rendered, Noted
<1> QED
  BY <1>1, <1>2

\* Who owns an object that c takes for its own: a namesake, and if there is one
\* already, the claim that it was created for.
OwnerOf(objects, name, c, w) ==
    w \in Namesakes(c) /\ \A o \in objects : o.name = name => o.owner = w

\* EnsureBMT adds at most the BMT rendered, and then it is there.
LEMMA EffectBMT ==
    ASSUME OwnInv, NEW c \in Claims, EnsureBMT(c, BmtName(c), BmtContent(c))
    PROVE  \E w \in Namesakes(c) : bmts' = bmts \cup {WantedBMT(c, w)}
<1> USE DEF WantedBMT
<1>1. CASE Named(bmts, BmtName(c)) = {}
  BY <1>1 DEF EnsureBMT, BuildBMT, Namesakes
<1>2. CASE Named(bmts, BmtName(c)) # {}
  <2>1. PICK o \in bmts : o.name = BmtName(c)
    BY <1>2 DEF Named
  <2>2. /\ o = [name |-> o.name, owner |-> o.owner, content |-> o.content]
        /\ o.name.hash = ComputeHash(o.content)
        /\ o.owner \in Claims /\ o.name = ResourceName(o.owner, o.name.type, o.name.hash)
    BY DEF OwnInv, ObjectShapes, Owned
  <2>3. o.owner \in Namesakes(c)
    BY <2>1, <2>2, ResourceNameParts DEF BmtName, Namesakes
  <2>4. ComputeHash(o.content) = ComputeHash(BmtContent(c))
    BY <2>1, <2>2 DEF BmtName, ResourceName
  <2>5. o.content = BmtContent(c)
    BY <2>4 DEF ComputeHash
  <2>6. bmts' = bmts
    BY <1>2 DEF EnsureBMT
  <2>7. WantedBMT(c, o.owner) = o
    BY <2>1, <2>2, <2>5
  <2> QED
    BY <2>3, <2>6, <2>7
<1> QED
  BY <1>1, <1>2

\* EnsureKCT leaves one KCT of that name, with the content rendered.
LEMMA EffectKCT ==
    ASSUME OwnInv, NEW c \in Claims, EnsureKCT(c, KctName(c), KctContent(c))
    PROVE  \E w : /\ OwnerOf(kcts, KctName(c), c, w)
                  /\ kcts' = {o \in kcts : o.name # KctName(c)} \cup {WantedKCT(c, w)}
<1>1. CASE Named(kcts, KctName(c)) = {}
  <2>1. OwnerOf(kcts, KctName(c), c, c)
    BY <1>1 DEF OwnerOf, Namesakes, Named
  <2>2. kcts' = {o \in kcts : o.name # KctName(c)} \cup {WantedKCT(c, c)}
    BY <1>1 DEF EnsureKCT, BuildKCT, WantedKCT, Named
  <2> QED
    BY <2>1, <2>2
<1>2. CASE Named(kcts, KctName(c)) # {}
  <2>1. PICK o \in kcts : o.name = KctName(c)
    BY <1>2 DEF Named
  <2>2. /\ o = [name |-> o.name, owner |-> o.owner, content |-> o.content]
        /\ o.owner \in Claims /\ o.name = ResourceName(o.owner, o.name.type, o.name.hash)
    BY DEF OwnInv, ObjectShapes, Owned
  <2>3. o.owner \in Namesakes(c)
    BY <2>1, <2>2, ResourceNameParts DEF KctName, Namesakes
  <2>4. Named(kcts, KctName(c)) = {o}
    BY <2>1 DEF OwnInv, Unique, Named
  <2>5. [o EXCEPT !.content = KctContent(c)] = WantedKCT(c, o.owner)
    <3>1. [o EXCEPT !.content = KctContent(c)]
              = [name |-> o.name, owner |-> o.owner, content |-> KctContent(c)]
      BY <2>2
    <3> QED
      BY <2>1, <3>1 DEF WantedKCT
  <2>6. kcts' = (kcts \ {o}) \cup {WantedKCT(c, o.owner)}
    BY <1>2, <2>4, <2>5 DEF EnsureKCT
  <2>7. kcts \ {o} = {p \in kcts : p.name # KctName(c)}
    BY <2>1, <2>4 DEF Named
  <2>8. OwnerOf(kcts, KctName(c), c, o.owner)
    BY <2>1, <2>3 DEF OwnInv, Unique, OwnerOf
  <2> QED
    BY <2>6, <2>7, <2>8
<1> QED
  BY <1>1, <1>2

\* EnsureMachineDeployment leaves one MD of that name, with every field wanted:
\* what ComputeMDDiff does not compare it would have to copy, and conversely.
LEMMA EffectMD ==
    ASSUME OwnInv, NEW c \in Claims, EnsureMachineDeployment(c, Desired(c))
    PROVE  \E w : /\ OwnerOf(mds, MachineDeploymentName(c), c, w)
                  /\ mds' = {o \in mds : o.name # MachineDeploymentName(c)}
                                \cup {WantedMD(c, w)}
<1> DEFINE name == MachineDeploymentName(c)
           Ensured(o) == IF o.name = name /\ ComputeMDDiff(Desired(c), o.fields)
                         THEN [o EXCEPT !.fields = Updated(@, Desired(c))] ELSE o
<1>1. CASE Named(mds, name) = {}
  <2>1. OwnerOf(mds, name, c, c)
    BY <1>1 DEF OwnerOf, Namesakes, Named
  <2>2. mds' = {o \in mds : o.name # name} \cup {WantedMD(c, c)}
    BY <1>1 DEF EnsureMachineDeployment, WantedMD, Named
  <2> QED
    BY <2>1, <2>2
<1>2. CASE Named(mds, name) # {}
  <2>1. mds' = {Ensured(o) : o \in mds}
    BY <1>2 DEF EnsureMachineDeployment
  <2>2. ASSUME NEW o \in mds, o.name = name
        PROVE  Ensured(o) = WantedMD(c, o.owner)
    <3>1. /\ o = [name |-> o.name, owner |-> o.owner, fields |-> o.fields]
          /\ o.fields = [f \in MDFields |-> o.fields[f]]
      BY DEF OwnInv, ObjectShapes
    <3>2. Desired(c) = [f \in MDFields |-> Desired(c)[f]]
      BY DEF Desired, BuildMachineDeployment, MDFields, RefFields, InPlaceFields
    <3>3. CASE ComputeMDDiff(Desired(c), o.fields)
      <4>1. Updated(o.fields, Desired(c)) = [f \in MDFields |-> Desired(c)[f]]
        <5>1. DOMAIN o.fields = MDFields
          BY <3>1
        <5>2. MDFields = CopiedFields
          BY DEF MDFields, CopiedFields, RefFields, InPlaceFields
        <5> QED
          BY <5>1, <5>2 DEF Updated
      <4>2. [o EXCEPT !.fields = Updated(@, Desired(c))]
                = [name |-> o.name, owner |-> o.owner, fields |-> Updated(o.fields, Desired(c))]
        BY <3>1
      <4> QED
        BY <2>2, <3>2, <3>3, <4>1, <4>2 DEF WantedMD
    <3>4. CASE ~ComputeMDDiff(Desired(c), o.fields)
      <4>1. \A f \in MDFields : Desired(c)[f] = o.fields[f]
        BY <3>4 DEF ComputeMDDiff, MDFields
      <4>2. o.fields = Desired(c)
        BY <3>1, <3>2, <4>1
      <4> QED
        BY <2>2, <3>1, <3>4, <4>2 DEF WantedMD
    <3> QED
      BY <3>3, <3>4
  <2>3. ASSUME NEW o \in mds, o.name # name
        PROVE  Ensured(o) = o
    BY <2>3
  <2>4. PICK p \in mds : p.name = name
    BY <1>2 DEF Named
  <2>5. \A o \in mds : o.name = name => o = p
    BY <2>4 DEF OwnInv, Unique
  <2>6. OwnerOf(mds, name, c, p.owner)
    BY <2>4, <2>5 DEF OwnInv, Owned, OwnerOf, Namesakes
  <2> HIDE DEF Ensured, name
  <2>7. {Ensured(o) : o \in mds} = {o \in mds : o.name # name} \cup {WantedMD(c, p.owner)}
    BY <2>2, <2>3, <2>4, <2>5
  <2> QED
    BY <2>1, <2>6, <2>7 DEF name
<1> QED
  BY <1>1, <1>2

\* The MachineHealthChecks a reconcile of c may leave under its name.
HealthChecks(c, objects) ==
    /\ \A o \in objects :
          /\ o = [name |-> o.name, owner |-> o.owner, timeout |-> o.timeout]
          /\ o.name = MachineDeploymentName(c) /\ o.owner \in Namesakes(c)
          /\ o.timeout = unhealthyTimeout
    /\ spec[c].healing => \E o : objects = {o}
    /\ ~spec[c].healing => objects = {}

\* EnsureMachineHealthCheck leaves the one wanted, or none.
LEMMA EffectMHC ==
    ASSUME OwnInv, NEW c \in Claims, EnsureMachineHealthCheck(c)
    PROVE  \E objects : /\ HealthChecks(c, objects)
                        /\ mhcs' = {o \in mhcs : o.name # MachineDeploymentName(c)} \cup objects
<1> DEFINE existing == Named(mhcs, MachineDeploymentName(c))
           desired  == BuildMachineHealthCheck(c)
           written  == IF existing = {} THEN desired
                       ELSE {[o EXCEPT !.timeout = d.timeout] : o \in existing, d \in desired}
<1>1. mhcs' = {o \in mhcs : o.name # MachineDeploymentName(c)} \cup written
  BY DEF EnsureMachineHealthCheck, Named
<1>2. CASE ~spec[c].healing
  <2>1. written = {}
    BY <1>2 DEF BuildMachineHealthCheck
  <2> HIDE DEF written
  <2> QED
    BY <1>1, <1>2, <2>1 DEF HealthChecks
<1>3. CASE spec[c].healing
  <2> DEFINE m == [name |-> MachineDeploymentName(c), owner |-> c, timeout |-> unhealthyTimeout]
  <2>1. desired = {m}
    BY <1>3 DEF BuildMachineHealthCheck
  <2>2. CASE existing = {}
    <3>1. written = {m}
      BY <2>1, <2>2
    <3>2. /\ m = [name |-> m.name, owner |-> m.owner, timeout |-> m.timeout]
          /\ m.name = MachineDeploymentName(c) /\ m.owner = c /\ m.timeout = unhealthyTimeout
      OBVIOUS
    <3> HIDE DEF written, m
    <3>3. HealthChecks(c, {m})
      BY <1>3, <3>2 DEF HealthChecks, Namesakes
    <3> QED
      BY <1>1, <3>1, <3>3
  <2>3. CASE existing # {}
    <3>1. PICK o \in mhcs : o.name = MachineDeploymentName(c)
      BY <2>3 DEF Named
    <3>2. /\ o = [name |-> o.name, owner |-> o.owner, timeout |-> o.timeout]
          /\ o.owner \in Claims /\ o.name = MachineDeploymentName(o.owner)
      BY DEF OwnInv, ObjectShapes, Owned
    <3>3. existing = {o}
      BY <3>1 DEF OwnInv, Unique, Named
    <3>4. PICK n : n = [o EXCEPT !.timeout = unhealthyTimeout]
      OBVIOUS
    <3>5. n = [name |-> o.name, owner |-> o.owner, timeout |-> unhealthyTimeout]
      BY <3>2, <3>4
    <3>6. m.timeout = unhealthyTimeout
      OBVIOUS
    <3>7. written = {n}
      <4> HIDE DEF existing, desired, m
      <4> QED
        BY <2>1, <2>3, <3>3, <3>4, <3>6
    <3>8. HealthChecks(c, {n})
      BY <1>3, <3>1, <3>2, <3>5 DEF HealthChecks, Namesakes
    <3> HIDE DEF written
    <3> QED
      BY <1>1, <3>7, <3>8
  <2> QED
    BY <2>2, <2>3
<1> QED
  BY <1>2, <1>3

\* What a complete reconcile writes after the BMT.
CompleteWrites(c) ==
    /\ Renders(c) /\ \E w \in Namesakes(c) : WantedBMT(c, w) \in bmts'
    /\ \E w : /\ OwnerOf(kcts, KctName(c), c, w)
              /\ kcts' = {o \in kcts : o.name # KctName(c)} \cup {WantedKCT(c, w)}
    /\ \E w : /\ OwnerOf(mds, MachineDeploymentName(c), c, w)
              /\ mds' = {o \in mds : o.name # MachineDeploymentName(c)} \cup {WantedMD(c, w)}
    /\ \E objects : /\ HealthChecks(c, objects)
                    /\ mhcs' = {o \in mhcs : o.name # MachineDeploymentName(c)} \cup objects
    /\ Noted(c)

\* What a reconcile writes, object by object.
WritesOf(c) ==
    /\ UNCHANGED <<inputVars, edits>> /\ failed' \subseteq failed \cup {c}
    /\ bmts' = bmts \/ \E w \in Namesakes(c) : bmts' = bmts \cup {WantedBMT(c, w)}
    /\ UNCHANGED <<kcts, mds, mhcs, touched>> \/ CompleteWrites(c)

\* With unique names, what a reconcile does to the objects is one of the cases of
\* WritesOf.
LEMMA ReconcileWrites ==
    ASSUME OwnInv, NEW c \in Claims, Reconcile(c)
    PROVE  WritesOf(c)
<1>1. UNCHANGED <<inputVars, edits>>
  BY ReconcileCases
<1>2. CASE failed' \in {failed, failed \cup {c}} /\ UNCHANGED <<objectVars, touched>>
  BY <1>1, <1>2 DEF WritesOf, objectVars
<1>3. CASE /\ EnsureBMT(c, BmtName(c), BmtContent(c))
           /\ UNCHANGED <<kcts, mds, mhcs, failed, touched>>
  BY <1>1, <1>3, EffectBMT DEF WritesOf
<1>4. CASE /\ Renders(c)
           /\ EnsureBMT(c, BmtName(c), BmtContent(c)) /\ EnsureKCT(c, KctName(c), KctContent(c))
           /\ EnsureMachineDeployment(c, Desired(c)) /\ EnsureMachineHealthCheck(c)
           /\ failed' = failed \ {c} /\ Noted(c)
  <2>1. PICK w \in Namesakes(c) : bmts' = bmts \cup {WantedBMT(c, w)}
    BY <1>4, EffectBMT
  <2>2. WantedBMT(c, w) \in bmts'
    BY <2>1
  <2>3. CompleteWrites(c)
    BY <1>4, <2>2, EffectKCT, EffectMD, EffectMHC DEF CompleteWrites
  <2> QED
    BY <1>1, <1>4, <2>1, <2>3 DEF WritesOf
<1> QED
  BY <1>2, <1>3, <1>4, ReconcileCases

-----------------------------------------------------------------------------
(* Ownership                                                               *)

\* Counters and histories of the steps that are not reconciles.
LEMMA EditTypes ==
    ASSUME InputTypes, Edit
    PROVE  edits' \in 0..MaxEdits
BY ObjectsAssumption DEF InputTypes, Edit

\* The history variable stays a set of inputs per claim.
LEMMA TouchTypes ==
    ASSUME InputTypes, NEW claims, NEW what \in SUBSET Inputs, Touch(claims, what)
    PROVE  touched' \in [Claims -> SUBSET Inputs]
BY DEF InputTypes, Touch

\* A step that changes an input and no object.
InputStep ==
    \/ \E c \in Claims, s \in Specs : EditSpec(c, s)
    \/ \E t \in MachineTemplates : EditMachineTemplate(t)
    \/ \E t \in BootstrapTemplates : EditBootstrapTemplate(t)
    \/ \E patterns \in DenySpecs : EditPolicy(patterns)
    \/ \E t \in Timeouts : Restart(t)

\* Users and administrators write inputs, not objects.
LEMMA InputStepTypes ==
    ASSUME InputTypes, InputStep
    PROVE  InputTypes' /\ UNCHANGED objectVars
<1>1. ASSUME NEW c \in Claims, NEW s \in Specs, EditSpec(c, s)
      PROVE  InputTypes' /\ UNCHANGED objectVars
  <2>1. {x \in SpecParts : s[x] # spec[c][x]} \in SUBSET Inputs
    BY DEF Inputs
  <2>2. touched' \in [Claims -> SUBSET Inputs]
    BY <1>1, <2>1, TouchTypes DEF EditSpec
  <2> QED
    BY <1>1, <2>2, EditTypes DEF EditSpec, InputTypes
<1>2. ASSUME NEW t \in MachineTemplates, EditMachineTemplate(t)
      PROVE  InputTypes' /\ UNCHANGED objectVars
  <2>1. {"machineTemplate"} \in SUBSET Inputs
    BY DEF Inputs
  <2>2. touched' \in [Claims -> SUBSET Inputs]
    BY <1>2, <2>1, TouchTypes DEF EditMachineTemplate
  <2> QED
    BY <1>2, <2>2, EditTypes DEF EditMachineTemplate, InputTypes
<1>3. ASSUME NEW t \in BootstrapTemplates, EditBootstrapTemplate(t)
      PROVE  InputTypes' /\ UNCHANGED objectVars
  <2>1. {"bootstrapTemplate"} \in SUBSET Inputs
    BY DEF Inputs
  <2>2. touched' \in [Claims -> SUBSET Inputs]
    BY <1>3, <2>1, TouchTypes DEF EditBootstrapTemplate
  <2> QED
    BY <1>3, <2>2, EditTypes DEF EditBootstrapTemplate, InputTypes
<1>4. ASSUME NEW patterns \in DenySpecs, EditPolicy(patterns)
      PROVE  InputTypes' /\ UNCHANGED objectVars
  <2>1. {"policy"} \in SUBSET Inputs
    BY DEF Inputs
  <2>2. touched' \in [Claims -> SUBSET Inputs]
    BY <1>4, <2>1, TouchTypes DEF EditPolicy
  <2> QED
    BY <1>4, <2>2, EditTypes DEF EditPolicy, InputTypes
<1>5. ASSUME NEW t \in Timeouts, Restart(t)
      PROVE  InputTypes' /\ UNCHANGED objectVars
  <2>1. {"flag"} \in SUBSET Inputs
    BY DEF Inputs
  <2>2. touched' \in [Claims -> SUBSET Inputs]
    BY <1>5, <2>1, TouchTypes DEF Restart
  <2> QED
    BY <1>5, <2>2, EditTypes DEF Restart, InputTypes
<1> QED
  BY <1>1, <1>2, <1>3, <1>4, <1>5 DEF InputStep

\* The MD somebody else has written a field of.
LEMMA DriftedMD ==
    ASSUME OwnInv, NEW o \in mds, NEW f \in MDFields
    PROVE  LET p == [o EXCEPT !.fields[f] = None]
           IN  /\ p.name = o.name /\ p.owner = o.owner
               /\ p = [name |-> p.name, owner |-> p.owner, fields |-> p.fields]
               /\ p.fields = [g \in MDFields |-> IF g = f THEN None ELSE o.fields[g]]
<1>1. /\ o = [name |-> o.name, owner |-> o.owner, fields |-> o.fields]
      /\ o.fields = [g \in MDFields |-> o.fields[g]]
  BY DEF OwnInv, ObjectShapes
<1>2. PICK n, w, x : n = o.name /\ w = o.owner /\ x = o.fields
  OBVIOUS
<1>3. o = [name |-> n, owner |-> w, fields |-> x]
  BY <1>1, <1>2
<1>4. [o EXCEPT !.fields[f] = None] = [name |-> n, owner |-> w, fields |-> [x EXCEPT ![f] = None]]
  BY <1>3
<1>5. [x EXCEPT ![f] = None] = [g \in MDFields |-> IF g = f THEN None ELSE x[g]]
  BY <1>1, <1>2
<1> QED
  BY <1>2, <1>4, <1>5

\* Names of a claim and of its namesakes are the same ones.
LEMMA SameBase ==
    ASSUME NEW c \in Claims, NEW w \in Namesakes(c), NEW type, NEW hash
    PROVE  /\ w \in Claims /\ MachineDeploymentName(w) = MachineDeploymentName(c)
           /\ ResourceName(w, type, hash) = ResourceName(c, type, hash)
BY DEF Namesakes, ResourceName, MachineDeploymentName

\* The shape, the name and the references of what is wanted.
LEMMA WantedShapes ==
    ASSUME NEW c \in Claims, NEW w \in Namesakes(c)
    PROVE  /\ LET o == WantedBMT(c, w)
              IN  /\ o = [name |-> o.name, owner |-> o.owner, content |-> o.content]
                  /\ o.owner = w /\ o.name = BmtName(c) /\ o.content = BmtContent(c)
                  /\ o.name = ResourceName(w, o.name.type, o.name.hash)
                  /\ o.name.hash = ComputeHash(o.content)
           /\ LET o == WantedKCT(c, w)
              IN  /\ o = [name |-> o.name, owner |-> o.owner, content |-> o.content]
                  /\ o.owner = w /\ o.name = KctName(c) /\ o.content = KctContent(c)
                  /\ o.name = ResourceName(w, o.name.type, o.name.hash)
           /\ LET o == WantedMD(c, w)
              IN  /\ o = [name |-> o.name, owner |-> o.owner, fields |-> o.fields]
                  /\ o.owner = w /\ o.name = MachineDeploymentName(w) /\ o.fields = Desired(c)
                  /\ o.name = MachineDeploymentName(c)
                  /\ o.fields = [f \in MDFields |-> o.fields[f]]
<1>1. /\ WantedBMT(c, w).owner = w /\ WantedBMT(c, w).name = BmtName(c)
      /\ WantedBMT(c, w).content = BmtContent(c)
      /\ WantedKCT(c, w).owner = w /\ WantedKCT(c, w).name = KctName(c)
      /\ WantedKCT(c, w).content = KctContent(c)
      /\ WantedMD(c, w).owner = w /\ WantedMD(c, w).name = MachineDeploymentName(c)
      /\ WantedMD(c, w).fields = Desired(c)
  BY DEF WantedBMT, WantedKCT, WantedMD
<1>2. /\ BmtName(c) = ResourceName(w, "bmt", ComputeHash(BmtContent(c)))
      /\ KctName(c) = ResourceName(w, "kct", ComputeHash(KctContent(c)))
  BY SameBase DEF BmtName, KctName
<1>3. /\ BmtName(c).type = "bmt" /\ BmtName(c).hash = ComputeHash(BmtContent(c))
      /\ KctName(c).type = "kct" /\ KctName(c).hash = ComputeHash(KctContent(c))
  BY DEF BmtName, KctName, ResourceName
<1>4. Desired(c) = [f \in MDFields |-> Desired(c)[f]]
  BY DEF Desired, BuildMachineDeployment, MDFields, RefFields, InPlaceFields
<1>5. MachineDeploymentName(w) = MachineDeploymentName(c)
  BY SameBase
<1>6. /\ WantedBMT(c, w) = [name |-> BmtName(c), owner |-> w, content |-> BmtContent(c)]
      /\ WantedKCT(c, w) = [name |-> KctName(c), owner |-> w, content |-> KctContent(c)]
      /\ WantedMD(c, w) = [name |-> MachineDeploymentName(c), owner |-> w, fields |-> Desired(c)]
  BY DEF WantedBMT, WantedKCT, WantedMD
<1> QED
  BY <1>1, <1>2, <1>3, <1>4, <1>5, <1>6

\* The references wanted are names of templates of the claim.
LEMMA WantedRefs ==
    ASSUME NEW c \in Claims, NEW w \in Namesakes(c), NEW f \in RefFields
    PROVE  \E type, hash : Desired(c)[f] = ResourceName(w, type, hash)
<1>1. /\ BmtName(c) = ResourceName(w, "bmt", ComputeHash(BmtContent(c)))
      /\ KctName(c) = ResourceName(w, "kct", ComputeHash(KctContent(c)))
  BY SameBase DEF BmtName, KctName
<1>2. /\ Desired(c)["infrastructureRef"] = BmtName(c)
      /\ Desired(c)["configRef"] = KctName(c)
  BY DEF Desired, BuildMachineDeployment
<1> QED
  BY <1>1, <1>2 DEF RefFields

\* A reconcile keeps names, owners and references in order.
LEMMA OwnReconcile ==
    ASSUME OwnInv, NEW c \in Claims, Reconcile(c)
    PROVE  OwnInv'
<1> WritesOf(c)
  BY ReconcileWrites
<1>1. touched' \in [Claims -> SUBSET Inputs]
  <2>1. CASE touched' = touched
    BY <2>1 DEF OwnInv, InputTypes
  <2>2. CASE Noted(c)
    BY <2>2 DEF OwnInv, InputTypes, Noted, Inputs
  <2> QED
    BY <2>1, <2>2 DEF WritesOf, CompleteWrites
<1>2. InputTypes'
  BY <1>1 DEF OwnInv, InputTypes, WritesOf, inputVars
<1>3. PICK wb, wk, wm, mhc :
        /\ {wb, wk, wm} \subseteq Namesakes(c)
        /\ bmts' \in {bmts, bmts \cup {WantedBMT(c, wb)}}
        /\ kcts' \in {kcts, {o \in kcts : o.name # KctName(c)} \cup {WantedKCT(c, wk)}}
        /\ mds' \in {mds, {o \in mds : o.name # MachineDeploymentName(c)} \cup {WantedMD(c, wm)}}
        /\ mhcs' = mhcs \/ /\ HealthChecks(c, mhc)
                           /\ mhcs' = {o \in mhcs : o.name # MachineDeploymentName(c)} \cup mhc
  <2>1. c \in Namesakes(c)
    BY DEF Namesakes
  <2> QED
    BY <2>1 DEF WritesOf, CompleteWrites, OwnerOf
<1> wb \in Namesakes(c) /\ wk \in Namesakes(c) /\ wm \in Namesakes(c)
  BY <1>3
<1>4. PICK b, k, m : b = WantedBMT(c, wb) /\ k = WantedKCT(c, wk) /\ m = WantedMD(c, wm)
  OBVIOUS
<1>5. /\ b = [name |-> b.name, owner |-> b.owner, content |-> b.content]
      /\ b.owner \in Claims /\ b.name = ResourceName(b.owner, b.name.type, b.name.hash)
      /\ b.name.hash = ComputeHash(b.content)
  <2>1. /\ b = [name |-> b.name, owner |-> b.owner, content |-> b.content]
        /\ b.owner = wb /\ b.name.hash = ComputeHash(b.content)
    BY <1>4, WantedShapes
  <2>2. b.name = ResourceName(wb, b.name.type, b.name.hash)
    BY <1>4, WantedShapes
  <2> QED
    BY <2>1, <2>2 DEF Namesakes
<1>6. /\ k = [name |-> k.name, owner |-> k.owner, content |-> k.content]
      /\ k.owner \in Claims /\ k.name = ResourceName(k.owner, k.name.type, k.name.hash)
      /\ k.name = KctName(c)
  <2>1. /\ k = [name |-> k.name, owner |-> k.owner, content |-> k.content]
        /\ k.owner = wk /\ k.name = KctName(c)
    BY <1>4, WantedShapes
  <2>2. k.name = ResourceName(wk, k.name.type, k.name.hash)
    BY <1>4, WantedShapes
  <2> QED
    BY <2>1, <2>2 DEF Namesakes
<1>7. /\ m = [name |-> m.name, owner |-> m.owner, fields |-> m.fields]
      /\ m.owner \in Claims /\ m.name = MachineDeploymentName(m.owner)
      /\ m.name = MachineDeploymentName(c)
      /\ m.fields = [f \in MDFields |-> m.fields[f]]
      /\ \A f \in RefFields : \E type, hash : m.fields[f] = ResourceName(m.owner, type, hash)
  <2>1. /\ m = [name |-> m.name, owner |-> m.owner, fields |-> m.fields]
        /\ m.owner = wm /\ m.name = MachineDeploymentName(wm)
        /\ m.name = MachineDeploymentName(c) /\ m.fields = Desired(c)
    BY <1>4, WantedShapes
  <2>2. m.fields = [f \in MDFields |-> m.fields[f]]
    BY <1>4, WantedShapes
  <2>3. \A f \in RefFields : \E type, hash : m.fields[f] = ResourceName(wm, type, hash)
    BY <2>1, WantedRefs
  <2> QED
    BY <2>1, <2>2, <2>3 DEF Namesakes
<1>8. HealthChecks(c, mhc) =>
        /\ \A o \in mhc :
              /\ o = [name |-> o.name, owner |-> o.owner, timeout |-> o.timeout]
              /\ o.owner \in Claims /\ o.name = MachineDeploymentName(o.owner)
              /\ o.name = MachineDeploymentName(c)
        /\ Unique(mhc)
  BY DEF HealthChecks, Namesakes, Unique
<1>9. /\ bmts' \in {bmts, bmts \cup {b}}
      /\ kcts' \in {kcts, {o \in kcts : o.name # k.name} \cup {k}}
      /\ mds' \in {mds, {o \in mds : o.name # m.name} \cup {m}}
  BY <1>3, <1>4, <1>6, <1>7
<1>10. ObjectShapes'
  BY <1>3, <1>5, <1>6, <1>7, <1>8, <1>9 DEF OwnInv, ObjectShapes
<1>11. Owned'
  BY <1>3, <1>5, <1>6, <1>7, <1>8, <1>9 DEF OwnInv, Owned
<1>12. RefsOwned'
  BY <1>7, <1>9 DEF OwnInv, RefsOwned
<1>13. Unique(bmts)'
  <2>1. CASE bmts' = bmts
    BY <2>1 DEF OwnInv
  <2>2. CASE Named(bmts, BmtName(c)) = {} /\ bmts' = bmts \cup {b}
    <3>1. b.name = BmtName(c)
      BY <1>4, WantedShapes
    <3> QED
      BY <2>2, <3>1 DEF OwnInv, Unique, Named
  <2>3. bmts' = bmts \/ Named(bmts, BmtName(c)) = {}
    BY ReconcileCases DEF EnsureBMT, objectVars
  <2> QED
    BY <1>9, <2>1, <2>2, <2>3
<1>14. Unique(kcts)' /\ Unique(mds)'
  BY <1>9 DEF OwnInv, Unique
<1>15. Unique(mhcs)'
  BY <1>3, <1>8 DEF OwnInv, Unique
<1> QED
  BY <1>2, <1>10, <1>11, <1>12, <1>13, <1>14, <1>15 DEF OwnInv

\* Every step does: edits touch no object, drift none of the names.
LEMMA OwnStep ==
    ASSUME OwnInv, Next
    PROVE  OwnInv'
<1> InputTypes
  BY DEF OwnInv
<1>1. CASE \E c \in Claims : Reconcile(c)
  BY <1>1, OwnReconcile
<1>2. CASE InputStep
  BY <1>2, InputStepTypes
     DEF objectVars, OwnInv, ObjectShapes, Owned, RefsOwned, Unique
<1>3. ASSUME NEW o \in mds, NEW f \in MDFields, DriftMD(o, f)
      PROVE  OwnInv'
  <2>1. PICK p : p = [o EXCEPT !.fields[f] = None]
    OBVIOUS
  <2>2. /\ p.name = o.name /\ p.owner = o.owner
        /\ p = [name |-> p.name, owner |-> p.owner, fields |-> p.fields]
        /\ p.fields = [g \in MDFields |-> IF g = f THEN None ELSE o.fields[g]]
    BY <2>1, DriftedMD
  <2>3. mds' = (mds \ {o}) \cup {p} /\ UNCHANGED <<inputVars, bmts, kcts, mhcs, failed>>
    BY <1>3, <2>1 DEF DriftMD
  <2>4. touched' \in [Claims -> SUBSET Inputs] /\ edits' \in 0..MaxEdits
    <3>1. {"drift"} \in SUBSET Inputs
      BY DEF Inputs
    <3> QED
      BY <1>3, <3>1, TouchTypes, EditTypes DEF DriftMD
  <2>5. InputTypes'
    BY <2>3, <2>4 DEF InputTypes, inputVars
  <2>6. ObjectShapes'
    BY <2>2, <2>3 DEF OwnInv, ObjectShapes
  <2>7. Owned'
    BY <2>2, <2>3 DEF OwnInv, Owned
  <2>8. RefsOwned'
    <3>1. \A g \in RefFields : p.fields[g] = None \/ p.fields[g] = o.fields[g]
      BY <2>2 DEF MDFields
    <3> QED
      BY <2>2, <2>3, <3>1 DEF OwnInv, RefsOwned
  <2>9. Unique(bmts)' /\ Unique(kcts)' /\ Unique(mds)' /\ Unique(mhcs)'
    BY <2>2, <2>3 DEF OwnInv, Unique
  <2> QED
    BY <2>5, <2>6, <2>7, <2>8, <2>9 DEF OwnInv
<1>4. ASSUME NEW o \in kcts, DriftKCT(o)
      PROVE  OwnInv'
  <2>1. PICK p : p = [o EXCEPT !.content = None]
    OBVIOUS
  <2>2. /\ p.name = o.name /\ p.owner = o.owner
        /\ p = [name |-> p.name, owner |-> p.owner, content |-> p.content]
    BY <2>1 DEF OwnInv, ObjectShapes
  <2>3. kcts' = (kcts \ {o}) \cup {p} /\ UNCHANGED <<inputVars, bmts, mds, mhcs, failed>>
    BY <1>4, <2>1 DEF DriftKCT
  <2>4. touched' \in [Claims -> SUBSET Inputs] /\ edits' \in 0..MaxEdits
    <3>1. {"drift"} \in SUBSET Inputs
      BY DEF Inputs
    <3> QED
      BY <1>4, <3>1, TouchTypes, EditTypes DEF DriftKCT
  <2>5. InputTypes'
    BY <2>3, <2>4 DEF InputTypes, inputVars
  <2>6. ObjectShapes' /\ RefsOwned'
    BY <2>2, <2>3 DEF OwnInv, ObjectShapes, RefsOwned
  <2>7. Owned'
    BY <2>2, <2>3 DEF OwnInv, Owned
  <2>8. Unique(bmts)' /\ Unique(kcts)' /\ Unique(mds)' /\ Unique(mhcs)'
    BY <2>2, <2>3 DEF OwnInv, Unique
  <2> QED
    BY <2>5, <2>6, <2>7, <2>8 DEF OwnInv
<1>5. ASSUME NEW o \in mhcs, DriftMHC(o)
      PROVE  OwnInv'
  <2>1. mhcs' \subseteq mhcs /\ UNCHANGED <<inputVars, bmts, kcts, mds, failed>>
    BY <1>5 DEF DriftMHC
  <2>2. touched' \in [Claims -> SUBSET Inputs] /\ edits' \in 0..MaxEdits
    <3>1. {"drift"} \in SUBSET Inputs
      BY DEF Inputs
    <3> QED
      BY <1>5, <3>1, TouchTypes, EditTypes DEF DriftMHC
  <2>3. InputTypes'
    BY <2>1, <2>2 DEF InputTypes, inputVars
  <2> QED
    BY <2>1, <2>3 DEF OwnInv, ObjectShapes, Owned, RefsOwned, Unique
<1> QED
  BY <1>1, <1>2, <1>3, <1>4, <1>5 DEF Next, InputStep, MDFields

\* There are no objects at first.
LEMMA OwnInit == Init => OwnInv
<1> SUFFICES ASSUME Init PROVE OwnInv
  OBVIOUS
<1>1. InputTypes
  BY ObjectsAssumption DEF Init, InputTypes, Inputs
<1> QED
  BY <1>1 DEF Init, OwnInv, ObjectShapes, Owned, RefsOwned, Unique

\* No step leaves OwnInv.
LEMMA OwnInductive == OwnInv /\ [Next]_vars => OwnInv'
<1>1. OwnInv /\ UNCHANGED vars => OwnInv'
  BY DEF OwnInv, vars, inputVars, objectVars, InputTypes, ObjectShapes, Owned, RefsOwned, Unique
<1> QED
  BY <1>1, OwnStep

\* Whatever is reconciled, edited or written by others, at most one object of a
\* kind has a given name, and each belongs to a claim (the deterministic names of
\* internal/hash and the ensure functions).
THEOREM ObjectsTypeCorrect == Spec => []ObjectsTypeOK
<1>1. OwnInv => ObjectsTypeOK
  BY DEF OwnInv, InputTypes, Owned, Unique, UniqueNames, Named, ObjectsTypeOK
<1> QED
  BY <1>1, OwnInit, OwnInductive, PTL DEF Spec

\* None, the value of a field somebody else has emptied, is no template's name.
NoneIsNoName == \A c, type, hash : None # ResourceName(c, type, hash)

\* A reconcile leaves the objects of all but its namesakes alone.
LEMMA OthersUntouched ==
    ASSUME OwnInv, NEW c \in Claims, Reconcile(c), NEW d \in Claims \ Namesakes(c)
    PROVE  /\ {o \in bmts : o.owner = d} = {o \in bmts' : o.owner = d}
           /\ {o \in kcts : o.owner = d} = {o \in kcts' : o.owner = d}
           /\ {o \in mds  : o.owner = d} = {o \in mds'  : o.owner = d}
           /\ {o \in mhcs : o.owner = d} = {o \in mhcs' : o.owner = d}
<1> WritesOf(c)
  BY ReconcileWrites
<1>1. {o \in bmts : o.owner = d} = {o \in bmts' : o.owner = d}
  <2>1. \A w \in Namesakes(c) : WantedBMT(c, w).owner # d
    BY WantedShapes
  <2> QED
    BY <2>1 DEF WritesOf
<1>2. {o \in kcts : o.owner = d} = {o \in kcts' : o.owner = d}
  <2>1. CASE kcts' = kcts
    BY <2>1
  <2>2. CASE CompleteWrites(c)
    <3>1. PICK w : /\ OwnerOf(kcts, KctName(c), c, w)
                   /\ kcts' = {o \in kcts : o.name # KctName(c)} \cup {WantedKCT(c, w)}
      BY <2>2 DEF CompleteWrites
    <3>2. w \in Namesakes(c) /\ WantedKCT(c, w).owner = w
      BY <3>1, WantedShapes DEF OwnerOf
    <3> QED
      BY <3>1, <3>2 DEF OwnerOf
  <2> QED
    BY <2>1, <2>2 DEF WritesOf
<1>3. {o \in mds : o.owner = d} = {o \in mds' : o.owner = d}
  <2>1. CASE mds' = mds
    BY <2>1
  <2>2. CASE CompleteWrites(c)
    <3>1. PICK w : /\ OwnerOf(mds, MachineDeploymentName(c), c, w)
                   /\ mds' = {o \in mds : o.name # MachineDeploymentName(c)}
                                 \cup {WantedMD(c, w)}
      BY <2>2 DEF CompleteWrites
    <3>2. w \in Namesakes(c) /\ WantedMD(c, w).owner = w
      BY <3>1, WantedShapes DEF OwnerOf
    <3> QED
      BY <3>1, <3>2 DEF OwnerOf
  <2> QED
    BY <2>1, <2>2 DEF WritesOf
<1>4. {o \in mhcs : o.owner = d} = {o \in mhcs' : o.owner = d}
  <2>1. CASE mhcs' = mhcs
    BY <2>1
  <2>2. CASE CompleteWrites(c)
    <3>1. PICK objects :
            /\ HealthChecks(c, objects)
            /\ mhcs' = {o \in mhcs : o.name # MachineDeploymentName(c)} \cup objects
      BY <2>2 DEF CompleteWrites
    <3>2. \A o \in mhcs : o.name = MachineDeploymentName(c) => o.owner \in Namesakes(c)
      BY DEF OwnInv, Owned, Namesakes
    <3>3. \A o \in objects : o.owner \in Namesakes(c)
      BY <3>1 DEF HealthChecks
    <3> QED
      BY <3>1, <3>2, <3>3
  <2> QED
    BY <2>1, <2>2 DEF WritesOf
<1> QED
  BY <1>1, <1>2, <1>3, <1>4

\* What is replaced in place keeps its owner.
LEMMA HeldOn ==
    ASSUME NEW objects, NEW o, \A p \in objects : p.name = o.name => p.owner = o.owner
    PROVE  Held(objects) \subseteq Held({p \in objects : p.name # o.name} \cup {o})
<1> SUFFICES ASSUME NEW p \in objects
             PROVE  <<p.name, p.owner>> \in Held({q \in objects : q.name # o.name} \cup {o})
  BY DEF Held
<1>1. CASE p.name = o.name
  BY <1>1 DEF Held
<1>2. CASE p.name # o.name
  BY <1>2 DEF Held
<1> QED
  BY <1>1, <1>2

\* A reconcile takes no BMT, KCT or MD away, not even from a namesake.
LEMMA NothingTakenOver ==
    ASSUME OwnInv, NEW c \in Claims, Reconcile(c)
    PROVE  /\ Held(bmts) \subseteq Held(bmts') /\ Held(kcts) \subseteq Held(kcts')
           /\ Held(mds) \subseteq Held(mds')
<1> WritesOf(c)
  BY ReconcileWrites
<1>1. Held(bmts) \subseteq Held(bmts')
  BY DEF WritesOf, Held
<1>2. CASE UNCHANGED <<kcts, mds>>
  BY <1>1, <1>2
<1>3. CASE CompleteWrites(c)
  <2>1. PICK w : /\ OwnerOf(kcts, KctName(c), c, w)
                 /\ kcts' = {o \in kcts : o.name # KctName(c)} \cup {WantedKCT(c, w)}
    BY <1>3 DEF CompleteWrites
  <2>2. PICK u : /\ OwnerOf(mds, MachineDeploymentName(c), c, u)
                 /\ mds' = {o \in mds : o.name # MachineDeploymentName(c)} \cup {WantedMD(c, u)}
    BY <1>3 DEF CompleteWrites
  <2>3. w \in Namesakes(c) /\ WantedKCT(c, w).owner = w /\ WantedKCT(c, w).name = KctName(c)
    BY <2>1, WantedShapes DEF OwnerOf
  <2>4. /\ u \in Namesakes(c) /\ WantedMD(c, u).owner = u
        /\ WantedMD(c, u).name = MachineDeploymentName(c)
    BY <2>2, WantedShapes DEF OwnerOf
  <2>5. Held(kcts) \subseteq Held(kcts')
    BY <2>1, <2>3, HeldOn DEF OwnerOf
  <2>6. Held(mds) \subseteq Held(mds')
    BY <2>2, <2>4, HeldOn DEF OwnerOf
  <2> QED
    BY <1>1, <2>5, <2>6
<1> QED
  BY <1>2, <1>3 DEF WritesOf

\* A template an MD refers to belongs to the MD's claim or a namesake.
LEMMA RefersToOwn ==
    ASSUME NoneIsNoName, OwnInv, NEW o \in mds, NEW t \in bmts \cup kcts,
           t.name \in {o.fields.infrastructureRef, o.fields.configRef}
    PROVE  t.owner \in Namesakes(o.owner)
<1>1. PICK f \in RefFields : t.name = o.fields[f]
  BY DEF RefFields
<1>2. t.owner \in Claims /\ t.name = ResourceName(t.owner, t.name.type, t.name.hash)
  BY DEF OwnInv, Owned
<1>3. PICK type, hash : o.fields[f] = ResourceName(o.owner, type, hash)
  BY <1>1, <1>2 DEF OwnInv, RefsOwned, NoneIsNoName
<1>4. MachineDeploymentName(t.owner) = MachineDeploymentName(o.owner)
  BY <1>1, <1>2, <1>3, ResourceNameParts
<1> QED
  BY <1>2, <1>4 DEF Namesakes

OnOwnTemplates ==
    \A o \in mds, t \in bmts \cup kcts :
        t.name \in {o.fields.infrastructureRef, o.fields.configRef}
            => t.owner \in Namesakes(o.owner)

\* For any set of claims in one namespace: no reconcile writes an object of a claim
\* whose joined name differs, no MD is built on a template that is deleted with such
\* a claim, and what exists stays with the claim it was created for, even where two
\* joined names are the same (hash.ResourceName, builder.MachineDeploymentName and
\* the ensure functions, which never write an owner reference of what exists).
THEOREM ClaimsKeptApart == NoneIsNoName => (Spec => ClaimsApart)
<1> SUFFICES ASSUME NoneIsNoName
             PROVE  Spec => ClaimsApart
  OBVIOUS
<1> DEFINE Apart ==
       \A c \in Claims : Reconcile(c) =>
         /\ \A d \in Claims \ Namesakes(c) :
                /\ {o \in bmts : o.owner = d} = {o \in bmts' : o.owner = d}
                /\ {o \in kcts : o.owner = d} = {o \in kcts' : o.owner = d}
                /\ {o \in mds  : o.owner = d} = {o \in mds'  : o.owner = d}
                /\ {o \in mhcs : o.owner = d} = {o \in mhcs' : o.owner = d}
         /\ Held(bmts) \subseteq Held(bmts') /\ Held(kcts) \subseteq Held(kcts')
         /\ Held(mds) \subseteq Held(mds')
         /\ \A o \in mds', t \in bmts' \cup kcts' :
                t.name \in {o.fields.infrastructureRef, o.fields.configRef}
                    => t.owner \in Namesakes(o.owner)
<1>1. OwnInv => OnOwnTemplates
  BY RefersToOwn DEF OnOwnTemplates
<1>2. OwnInv' => OnOwnTemplates'
  BY <1>1, PTL
<1>3. OwnInv /\ OwnInv' => Apart
  BY <1>2, OthersUntouched, NothingTakenOver DEF OnOwnTemplates
<1>4. OwnInv /\ OwnInv' /\ [Next]_vars => [Apart]_vars
  BY <1>3
<1>5. []OwnInv /\ [][Next]_vars => [][Apart]_vars
  BY <1>4, PTL
<1> QED
  BY <1>5, OwnInit, OwnInductive, PTL DEF Spec, ClaimsApart

-----------------------------------------------------------------------------
(* What is current                                                         *)
(*                                                                         *)
(* A claim nothing was written for since its last complete reconcile has   *)
(* exactly the objects wanted.  While something was, each reference of its *)
(* MD is still the one wanted until an input of the template it names has  *)
(* changed.                                                                *)

InfraParts == {"infrastructure", "machineTemplate"}

WantedTimeouts(c) == IF spec[c].healing THEN {unhealthyTimeout} ELSE {}

InPlace(c) ==
    /\ Renders(c)
    /\ \E w \in Namesakes(c) : WantedBMT(c, w) \in bmts
    /\ \E w \in Namesakes(c) : WantedKCT(c, w) \in kcts
    /\ \E w \in Namesakes(c) : WantedMD(c, w) \in mds
    /\ {o.timeout : o \in Named(mhcs, MachineDeploymentName(c))} = WantedTimeouts(c)

Complete == \A c \in Claims : touched[c] = {} => InPlace(c)

RefsCurrent ==
    \A c \in Claims, o \in mds :
        (o.name = MachineDeploymentName(c) /\ "drift" \notin touched[c]) =>
            /\ touched[c] \cap InfraParts = {} => o.fields["infrastructureRef"] = BmtName(c)
            /\ touched[c] \cap BootstrapCauses(c) = {} => o.fields["configRef"] = KctName(c)

CurrentInv == OwnInv /\ Complete /\ RefsCurrent

\* What the BMT of a claim depends on.
LEMMA SameBMT ==
    ASSUME NEW c, spec'[c].infrastructure = spec[c].infrastructure,
           machineTemplate' = machineTemplate
    PROVE  BmtContent(c)' = BmtContent(c) /\ BmtName(c)' = BmtName(c)
BY DEF BmtContent, BmtName

\* BootstrapVars of given parts of a spec.
VarsOf(c, raw, kubelet, labels) ==
    [InjectMachineDeploymentName(InjectNodeLabels(raw, labels), c)
        EXCEPT !["__kubeletConfigYaml"] = MergeKubeletConfig(kubelet)]

\* The labels matter only to nodeLabels, if the user does not set it, and the
\* kubelet settings only to their variable.
LEMMA VariableSources ==
    ASSUME NEW c, NEW raw, NEW x \in DOMAIN raw,
           NEW k1, NEW l1, NEW k2, NEW l2,
           (x = "nodeLabels" /\ raw[x] = None) => l1 = l2,
           x = "__kubeletConfigYaml" => k1 = k2
    PROVE  VarsOf(c, raw, k1, l1)[x] = VarsOf(c, raw, k2, l2)[x]
<1>1. ASSUME NEW kubelet, NEW labels
      PROVE  VarsOf(c, raw, kubelet, labels)[x] =
               IF x = "__kubeletConfigYaml" THEN MergeKubeletConfig(kubelet)
               ELSE IF x = "machineDeploymentName"
                    THEN (IF raw[x] = None THEN c.cluster \o c.name ELSE raw[x])
               ELSE IF x = "nodeLabels" /\ raw[x] = None THEN labels ELSE raw[x]
  <2>1. PICK v1 : v1 = InjectNodeLabels(raw, labels)
    OBVIOUS
  <2>2. PICK v2 : v2 = InjectMachineDeploymentName(v1, c)
    OBVIOUS
  <2>3. /\ DOMAIN v1 = DOMAIN raw
        /\ v1[x] = IF x = "nodeLabels" /\ raw[x] = None THEN labels ELSE raw[x]
    BY <2>1 DEF InjectNodeLabels, Unless
  <2>4. /\ DOMAIN v2 = DOMAIN v1
        /\ v2[x] = IF x = "machineDeploymentName"
                   THEN (IF v1[x] = None THEN c.cluster \o c.name ELSE v1[x]) ELSE v1[x]
    BY <2>2, <2>3 DEF InjectMachineDeploymentName, Unless
  <2>5. PICK m : m = MergeKubeletConfig(kubelet)
    OBVIOUS
  <2>6. VarsOf(c, raw, kubelet, labels) = [v2 EXCEPT !["__kubeletConfigYaml"] = m]
    BY <2>1, <2>2, <2>5 DEF VarsOf
  <2>7. VarsOf(c, raw, kubelet, labels)[x] = IF x = "__kubeletConfigYaml" THEN m ELSE v2[x]
    BY <2>3, <2>4, <2>6
  <2> QED
    BY <2>3, <2>4, <2>5, <2>7
<1> QED
  BY <1>1

\* A rendered text depends on the variables it uses.
LEMMA RenderUses ==
    ASSUME NEW t, NEW v, NEW w, \A x \in t.uses : v[x] = w[x]
    PROVE  Render(t, v) = Render(t, w)
BY DEF Render

\* What the KCT of a claim depends on: labels only if they are rendered into it,
\* and so the kubelet settings.
LEMMA SameKCT ==
    ASSUME NEW c, bootstrapTemplate.uses \subseteq DOMAIN spec[c].bootstrap,
           spec'[c].bootstrap = spec[c].bootstrap, bootstrapTemplate' = bootstrapTemplate,
           "labels" \in BootstrapCauses(c) =>
               spec'[c].labels = spec[c].labels /\ policy' = policy,
           "kubelet" \in BootstrapCauses(c) => spec'[c].kubelet = spec[c].kubelet
    PROVE  KctContent(c)' = KctContent(c) /\ KctName(c)' = KctName(c)
<1>1. PICK raw, k1, k2, l1, l2, t :
        /\ raw = spec[c].bootstrap /\ t = bootstrapTemplate
        /\ k1 = spec[c].kubelet /\ k2 = spec'[c].kubelet
        /\ l1 = Accepted(c) /\ l2 = Accepted(c)'
  OBVIOUS
<1>2. /\ KctContent(c) = Render(t, VarsOf(c, raw, k1, l1))
      /\ KctContent(c)' = Render(t, VarsOf(c, raw, k2, l2))
  BY <1>1 DEF KctContent, BootstrapVars, VarsOf
<1>3. ASSUME NEW x \in t.uses
      PROVE  VarsOf(c, raw, k1, l1)[x] = VarsOf(c, raw, k2, l2)[x]
  <2>1. (x = "nodeLabels" /\ raw[x] = None) => l1 = l2
    BY <1>1 DEF BootstrapCauses, Accepted, labelPolicy
  <2>2. x = "__kubeletConfigYaml" => k1 = k2
    BY <1>1 DEF BootstrapCauses
  <2>3. x \in DOMAIN raw
    BY <1>1
  <2> QED
    BY <2>1, <2>2, <2>3, VariableSources
<1>4. KctContent(c)' = KctContent(c)
  BY <1>2, <1>3, RenderUses
<1> QED
  BY <1>4 DEF KctName

\* Nothing wanted for a claim changes while its inputs do not.
LEMMA SameWanted ==
    ASSUME NEW c, spec'[c] = spec[c],
           UNCHANGED <<machineTemplate, bootstrapTemplate, policy, unhealthyTimeout>>
    PROVE  /\ \A w : /\ WantedBMT(c, w)' = WantedBMT(c, w) /\ WantedKCT(c, w)' = WantedKCT(c, w)
                     /\ WantedMD(c, w)' = WantedMD(c, w)
           /\ WantedTimeouts(c)' = WantedTimeouts(c)
           /\ BmtName(c)' = BmtName(c) /\ KctName(c)' = KctName(c)
           /\ Renders(c)' = Renders(c) /\ BootstrapCauses(c)' = BootstrapCauses(c)
<1>1. BmtContent(c)' = BmtContent(c) /\ BmtName(c)' = BmtName(c)
  BY SameBMT
<1>2. Accepted(c)' = Accepted(c)
  BY DEF Accepted, labelPolicy
<1>3. KctContent(c)' = KctContent(c)
  BY <1>2 DEF KctContent, BootstrapVars
<1>4. KctName(c)' = KctName(c)
  BY <1>3 DEF KctName
<1>5. Desired(c)' = Desired(c)
  BY <1>1, <1>2, <1>4 DEF Desired, BuildMachineDeployment
<1>6. \A w : /\ WantedBMT(c, w)' = WantedBMT(c, w) /\ WantedKCT(c, w)' = WantedKCT(c, w)
             /\ WantedMD(c, w)' = WantedMD(c, w)
  BY <1>1, <1>3, <1>4, <1>5 DEF WantedBMT, WantedKCT, WantedMD
<1>7. WantedTimeouts(c)' = WantedTimeouts(c)
  BY DEF WantedTimeouts
<1>8. Renders(c)' = Renders(c)
  BY <1>1, <1>3 DEF Renders
<1>9. BootstrapCauses(c)' = BootstrapCauses(c)
  BY DEF BootstrapCauses
<1> QED
  BY <1>1, <1>4, <1>6, <1>7, <1>8, <1>9

\* What is in place depends on the objects of the claim's names.
LEMMA StaysInPlace ==
    ASSUME NEW d \in Claims, InPlace(d), spec'[d] = spec[d],
           UNCHANGED <<machineTemplate, bootstrapTemplate, policy, unhealthyTimeout>>,
           bmts \subseteq bmts',
           \A o \in kcts : o.owner \in Namesakes(d) => o \in kcts',
           \A o \in mds : o.owner \in Namesakes(d) => o \in mds',
           Named(mhcs, MachineDeploymentName(d))' = Named(mhcs, MachineDeploymentName(d))
    PROVE  InPlace(d)'
<1>1. PICK b \in Namesakes(d), k \in Namesakes(d), m \in Namesakes(d) :
        WantedBMT(d, b) \in bmts /\ WantedKCT(d, k) \in kcts /\ WantedMD(d, m) \in mds
  BY DEF InPlace
<1>2. WantedKCT(d, k).owner = k /\ WantedMD(d, m).owner = m
  BY WantedShapes
<1>3. WantedBMT(d, b) \in bmts' /\ WantedKCT(d, k) \in kcts' /\ WantedMD(d, m) \in mds'
  BY <1>1, <1>2
<1>4. Renders(d) /\ {o.timeout : o \in Named(mhcs, MachineDeploymentName(d))} = WantedTimeouts(d)
  BY DEF InPlace
<1>5. /\ WantedBMT(d, b)' \in bmts' /\ WantedKCT(d, k)' \in kcts' /\ WantedMD(d, m)' \in mds'
      /\ Renders(d)' /\ WantedTimeouts(d)' = WantedTimeouts(d)
  BY <1>3, <1>4, SameWanted
<1> QED
  BY <1>1, <1>4, <1>5 DEF InPlace

\* A complete reconcile puts everything in place.
LEMMA PutInPlace ==
    ASSUME NEW c \in Claims, UNCHANGED inputVars, CompleteWrites(c)
    PROVE  InPlace(c)'
<1>1. PICK b \in Namesakes(c) : WantedBMT(c, b) \in bmts'
  BY DEF CompleteWrites
<1>2. PICK k \in Namesakes(c) : WantedKCT(c, k) \in kcts'
  BY DEF CompleteWrites, OwnerOf
<1>3. PICK m \in Namesakes(c) : WantedMD(c, m) \in mds'
  BY DEF CompleteWrites, OwnerOf
<1>4. PICK objects : /\ HealthChecks(c, objects)
                     /\ mhcs' = {o \in mhcs : o.name # MachineDeploymentName(c)} \cup objects
  BY DEF CompleteWrites
<1>5. Named(mhcs, MachineDeploymentName(c))' = objects
  BY <1>4 DEF Named, HealthChecks
<1>6. {o.timeout : o \in objects} = WantedTimeouts(c)
  <2>1. CASE spec[c].healing
    <3>1. PICK o : objects = {o} /\ o.timeout = unhealthyTimeout
      BY <1>4, <2>1 DEF HealthChecks
    <3> QED
      BY <2>1, <3>1 DEF WantedTimeouts
  <2>2. CASE ~spec[c].healing
    BY <1>4, <2>2 DEF HealthChecks, WantedTimeouts
  <2> QED
    BY <2>1, <2>2
<1>7. Renders(c)
  BY DEF CompleteWrites
<1>8. /\ WantedBMT(c, b)' \in bmts' /\ WantedKCT(c, k)' \in kcts' /\ WantedMD(c, m)' \in mds'
      /\ Renders(c)' /\ WantedTimeouts(c)' = WantedTimeouts(c)
  BY <1>1, <1>2, <1>3, <1>7, SameWanted DEF inputVars
<1> QED
  BY <1>5, <1>6, <1>8 DEF InPlace

\* A complete reconcile puts everything in place and counts as a foreign write for
\* the namesakes; one that ends early leaves the history as it is, and does no harm
\* to what was in place.
LEMMA CurrentReconcile ==
    ASSUME CurrentInv, NEW c \in Claims, Reconcile(c)
    PROVE  Complete' /\ RefsCurrent'
<1> OwnInv
  BY DEF CurrentInv
<1> WritesOf(c)
  BY ReconcileWrites
<1>1. /\ UNCHANGED inputVars /\ bmts \subseteq bmts'
  BY DEF WritesOf
<1>2. ASSUME NEW d
      PROVE  /\ BmtName(d)' = BmtName(d) /\ KctName(d)' = KctName(d)
             /\ BootstrapCauses(d)' = BootstrapCauses(d)
  BY <1>1, SameWanted DEF inputVars
<1>3. CASE UNCHANGED <<kcts, mds, mhcs, touched>>
  <2>1. ASSUME NEW d \in Claims, touched'[d] = {}
        PROVE  InPlace(d)'
    <3>1. InPlace(d)
      BY <1>3, <2>1 DEF CurrentInv, Complete
    <3> QED
      BY <1>1, <1>3, <3>1, StaysInPlace DEF inputVars, Named
  <2>2. RefsCurrent'
    BY <1>2, <1>3 DEF CurrentInv, RefsCurrent
  <2> QED
    BY <2>1, <2>2 DEF Complete
<1>4. CASE CompleteWrites(c)
  <2>1. ASSUME NEW d \in Claims, d # c, "drift" \notin touched'[d]
        PROVE  d \notin Namesakes(c) /\ touched'[d] = touched[d]
    BY <1>4, <2>1 DEF CompleteWrites, Noted
  <2>2. touched'[c] = {}
    BY <1>4 DEF CompleteWrites, Noted
  <2>3. ASSUME NEW d \in Claims, d # c, touched'[d] = {}
        PROVE  InPlace(d)'
    <3>1. d \notin Namesakes(c) /\ touched[d] = {}
      BY <2>1, <2>3
    <3>2. InPlace(d)
      BY <3>1 DEF CurrentInv, Complete
    <3>3. \A w \in Namesakes(d) : w \in Claims \ Namesakes(c)
      BY <3>1 DEF Namesakes
    <3>4. /\ \A o \in kcts : o.owner \in Namesakes(d) => o \in kcts'
          /\ \A o \in mds : o.owner \in Namesakes(d) => o \in mds'
      BY <3>3, OthersUntouched
    <3>5. PICK objects : /\ HealthChecks(c, objects)
                         /\ mhcs' = {o \in mhcs : o.name # MachineDeploymentName(c)} \cup objects
      BY <1>4 DEF CompleteWrites
    <3>6. Named(mhcs, MachineDeploymentName(d))' = Named(mhcs, MachineDeploymentName(d))
      BY <3>1, <3>5 DEF Named, HealthChecks, Namesakes
    <3> QED
      BY <1>1, <3>2, <3>4, <3>6, StaysInPlace DEF inputVars
  <2>4. Complete'
    BY <1>1, <1>4, <2>3, PutInPlace DEF Complete
  <2>5. PICK w \in Namesakes(c) :
          mds' = {o \in mds : o.name # MachineDeploymentName(c)} \cup {WantedMD(c, w)}
    BY <1>4 DEF CompleteWrites, OwnerOf
  <2>6. /\ WantedMD(c, w).name = MachineDeploymentName(c)
        /\ WantedMD(c, w).fields = Desired(c)
    BY WantedShapes
  <2>7. ASSUME NEW d \in Claims, NEW o \in mds', o.name = MachineDeploymentName(d),
               "drift" \notin touched'[d]
        PROVE  /\ touched'[d] \cap InfraParts = {} => o.fields["infrastructureRef"] = BmtName(d)
               /\ touched'[d] \cap BootstrapCauses(d) = {} => o.fields["configRef"] = KctName(d)
    <3>1. CASE d = c
      <4>1. o.fields = Desired(c)
        BY <2>5, <2>6, <2>7, <3>1
      <4> QED
        BY <3>1, <4>1 DEF Desired, BuildMachineDeployment
    <3>2. CASE d # c
      <4>1. d \notin Namesakes(c) /\ touched'[d] = touched[d]
        BY <2>1, <2>7, <3>2
      <4>2. o.name # MachineDeploymentName(c)
        BY <2>7, <4>1 DEF Namesakes
      <4>3. o \in mds
        BY <2>5, <2>6, <4>2
      <4> QED
        BY <2>7, <4>1, <4>3 DEF CurrentInv, RefsCurrent
    <3> QED
      BY <3>1, <3>2
  <2>8. RefsCurrent'
    BY <1>2, <2>7 DEF RefsCurrent
  <2> QED
    BY <2>4, <2>8
<1> QED
  BY <1>3, <1>4 DEF WritesOf

\* An edit of an input is noted for every claim that it concerns.
LEMMA EditsNoted ==
    ASSUME OwnInv, InputStep, NEW d \in Claims
    PROVE  /\ touched[d] \subseteq touched'[d]
           /\ touched'[d] = {} =>
                /\ spec'[d] = spec[d]
                /\ UNCHANGED <<machineTemplate, bootstrapTemplate, policy, unhealthyTimeout>>
           /\ "infrastructure" \notin touched'[d] =>
                spec'[d].infrastructure = spec[d].infrastructure
           /\ "bootstrap" \notin touched'[d] => spec'[d].bootstrap = spec[d].bootstrap
           /\ "labels" \notin touched'[d] => spec'[d].labels = spec[d].labels
           /\ "kubelet" \notin touched'[d] => spec'[d].kubelet = spec[d].kubelet
           /\ "machineTemplate" \notin touched'[d] => machineTemplate' = machineTemplate
           /\ "bootstrapTemplate" \notin touched'[d] => bootstrapTemplate' = bootstrapTemplate
           /\ "policy" \notin touched'[d] => policy' = policy
<1> spec \in [Claims -> Specs] /\ spec[d] \in Specs
  BY DEF OwnInv, InputTypes
<1>1. ASSUME NEW c \in Claims, NEW s \in Specs, EditSpec(c, s)
      PROVE  /\ touched[d] \subseteq touched'[d]
             /\ UNCHANGED <<machineTemplate, bootstrapTemplate, policy, unhealthyTimeout>>
             /\ \A x \in SpecParts : x \notin touched'[d] => spec'[d][x] = spec[d][x]
             /\ touched'[d] = {} => spec'[d] = spec[d]
  <2>1. /\ spec' = [spec EXCEPT ![c] = s] /\ s # spec[c]
        /\ Touch({c}, {x \in SpecParts : s[x] # spec[c][x]})
        /\ UNCHANGED <<machineTemplate, bootstrapTemplate, policy, unhealthyTimeout>>
    BY <1>1 DEF EditSpec
  <2>2. CASE d # c
    BY <2>1, <2>2 DEF Touch
  <2>3. CASE d = c
    <3>1. spec'[d] = s /\ touched'[d] = touched[d] \cup {x \in SpecParts : s[x] # spec[d][x]}
      BY <2>1, <2>3 DEF Touch
    <3>2. /\ s = [x \in SpecParts |-> s[x]]
          /\ spec[d] = [x \in SpecParts |-> spec[d][x]]
      BY ObjectsAssumption
    <3>3. \E x \in SpecParts : s[x] # spec[d][x]
      BY <2>1, <2>3, <3>2
    <3> QED
      BY <2>1, <3>1, <3>3
  <2> QED
    BY <2>2, <2>3
<1>2. CASE \E c \in Claims, s \in Specs : EditSpec(c, s)
  <2>1. /\ touched[d] \subseteq touched'[d]
        /\ UNCHANGED <<machineTemplate, bootstrapTemplate, policy, unhealthyTimeout>>
        /\ \A x \in SpecParts : x \notin touched'[d] => spec'[d][x] = spec[d][x]
        /\ touched'[d] = {} => spec'[d] = spec[d]
    BY <1>1, <1>2
  <2>2. /\ "infrastructure" \notin touched'[d] =>
              spec'[d].infrastructure = spec[d].infrastructure
        /\ "bootstrap" \notin touched'[d] => spec'[d].bootstrap = spec[d].bootstrap
        /\ "labels" \notin touched'[d] => spec'[d].labels = spec[d].labels
        /\ "kubelet" \notin touched'[d] => spec'[d].kubelet = spec[d].kubelet
    BY <2>1 DEF SpecParts
  <2> QED
    BY <2>1, <2>2
<1>3. CASE \E t \in MachineTemplates : EditMachineTemplate(t)
  BY <1>3 DEF EditMachineTemplate, Touch
<1>4. CASE \E t \in BootstrapTemplates : EditBootstrapTemplate(t)
  BY <1>4 DEF EditBootstrapTemplate, Touch
<1>5. CASE \E patterns \in DenySpecs : EditPolicy(patterns)
  BY <1>5 DEF EditPolicy, Touch
<1>6. CASE \E t \in Timeouts : Restart(t)
  BY <1>6 DEF Restart, Touch
<1> QED
  BY <1>2, <1>3, <1>4, <1>5, <1>6 DEF InputStep

\* An edit is recorded in the history of every claim whose wanted objects change.
LEMMA CurrentInput ==
    ASSUME CurrentInv, InputStep
    PROVE  Complete' /\ RefsCurrent'
<1> OwnInv /\ InputTypes
  BY DEF CurrentInv, OwnInv
<1>1. UNCHANGED <<bmts, kcts, mds, mhcs>>
  BY InputStepTypes DEF objectVars
<1>2. ASSUME NEW d \in Claims, touched'[d] = {}
      PROVE  InPlace(d)'
  <2>1. InPlace(d)
    BY <1>2, EditsNoted DEF CurrentInv, Complete
  <2>2. /\ spec'[d] = spec[d]
        /\ UNCHANGED <<machineTemplate, bootstrapTemplate, policy, unhealthyTimeout>>
    BY <1>2, EditsNoted
  <2> QED
    BY <1>1, <2>1, <2>2, StaysInPlace DEF Named
<1>3. ASSUME NEW d \in Claims, NEW o \in mds, o.name = MachineDeploymentName(d),
             "drift" \notin touched'[d]
      PROVE  /\ touched'[d] \cap InfraParts = {} =>
                    o.fields["infrastructureRef"] = BmtName(d)'
             /\ touched'[d] \cap BootstrapCauses(d)' = {} =>
                    o.fields["configRef"] = KctName(d)'
  <2>1. touched[d] \subseteq touched'[d]
    BY EditsNoted
  <2>2. ASSUME touched'[d] \cap InfraParts = {}
        PROVE  o.fields["infrastructureRef"] = BmtName(d)'
    <3>1. BmtName(d)' = BmtName(d)
      BY <2>2, EditsNoted, SameBMT DEF InfraParts
    <3> QED
      BY <1>3, <2>1, <2>2, <3>1 DEF CurrentInv, RefsCurrent
  <2>3. ASSUME touched'[d] \cap BootstrapCauses(d)' = {}
        PROVE  o.fields["configRef"] = KctName(d)'
    <3>1. "bootstrap" \notin touched'[d] /\ "bootstrapTemplate" \notin touched'[d]
      BY <2>3 DEF BootstrapCauses
    <3>2. spec'[d].bootstrap = spec[d].bootstrap /\ bootstrapTemplate' = bootstrapTemplate
      BY <3>1, EditsNoted
    <3>3. BootstrapCauses(d)' = BootstrapCauses(d)
      BY <3>2 DEF BootstrapCauses
    <3>4. "labels" \in BootstrapCauses(d) => "policy" \in BootstrapCauses(d)
      BY DEF BootstrapCauses
    <3>5. /\ "labels" \in BootstrapCauses(d) =>
                spec'[d].labels = spec[d].labels /\ policy' = policy
          /\ "kubelet" \in BootstrapCauses(d) => spec'[d].kubelet = spec[d].kubelet
      BY <2>3, <3>3, <3>4, EditsNoted
    <3>6. bootstrapTemplate.uses \subseteq DOMAIN spec[d].bootstrap
      BY ObjectsAssumption DEF InputTypes
    <3>7. KctName(d)' = KctName(d)
      BY <3>2, <3>5, <3>6, SameKCT
    <3>8. touched[d] \cap BootstrapCauses(d) = {} /\ "drift" \notin touched[d]
      BY <1>3, <2>1, <2>3, <3>3
    <3> QED
      BY <1>3, <3>7, <3>8 DEF CurrentInv, RefsCurrent
  <2> QED
    BY <2>2, <2>3
<1> QED
  BY <1>1, <1>2, <1>3 DEF Complete, RefsCurrent

\* A foreign write is recorded in the history of every claim that takes the object
\* for its own.
LEMMA CurrentDrift ==
    ASSUME CurrentInv,
           NEW o \in mds \cup kcts \cup mhcs,
           \/ o \in mds /\ \E f \in MDFields : DriftMD(o, f)
           \/ o \in kcts /\ DriftKCT(o)
           \/ o \in mhcs /\ DriftMHC(o)
    PROVE  Complete' /\ RefsCurrent'
<1> OwnInv
  BY DEF CurrentInv
<1>1. PICK c \in Claims : c = o.owner
  BY DEF OwnInv, Owned
<1>2. /\ UNCHANGED inputVars
      /\ \A d \in Namesakes(c) : "drift" \in touched'[d]
      /\ \A d \in Claims \ Namesakes(c) : touched'[d] = touched[d]
  <2>1. UNCHANGED inputVars /\ Touch(Namesakes(o.owner), {"drift"})
    BY DEF DriftMD, DriftKCT, DriftMHC
  <2> QED
    BY <1>1, <2>1 DEF Touch, Namesakes
<1>3. ASSUME NEW d
      PROVE  /\ BmtName(d)' = BmtName(d) /\ KctName(d)' = KctName(d)
             /\ BootstrapCauses(d)' = BootstrapCauses(d)
  BY <1>2, SameWanted DEF inputVars
<1>4. /\ \A p \in mds : p.owner # c => p \in mds'
      /\ \A p \in kcts : p.owner # c => p \in kcts'
      /\ \A p \in mhcs : p.owner # c => p \in mhcs'
      /\ mhcs' \subseteq mhcs /\ bmts' = bmts
  BY <1>1 DEF DriftMD, DriftKCT, DriftMHC
<1>5. \A p \in mds' : p \in mds \/ p.name = MachineDeploymentName(c)
  <2>1. CASE mds' = mds
    BY <2>1
  <2>2. CASE o \in mds /\ \E f \in MDFields : DriftMD(o, f)
    <3>1. PICK f \in MDFields : DriftMD(o, f)
      BY <2>2
    <3>2. PICK p : p = [o EXCEPT !.fields[f] = None]
      OBVIOUS
    <3>3. p.name = o.name
      BY <2>2, <3>2, DriftedMD
    <3>4. mds' = (mds \ {o}) \cup {p}
      BY <3>1, <3>2 DEF DriftMD
    <3>5. o.name = MachineDeploymentName(c)
      BY <1>1, <2>2 DEF OwnInv, Owned
    <3> QED
      BY <3>3, <3>4, <3>5
  <2> QED
    BY <2>1, <2>2 DEF DriftKCT, DriftMHC
<1>6. ASSUME NEW d \in Claims, touched'[d] = {}
      PROVE  InPlace(d)'
  <2>1. d \notin Namesakes(c) /\ touched[d] = {}
    BY <1>2, <1>6
  <2>2. InPlace(d)
    BY <2>1 DEF CurrentInv, Complete
  <2>3. c \notin Namesakes(d)
    BY <2>1 DEF Namesakes
  <2>4. \A p \in mhcs : p.name = MachineDeploymentName(d) => p.owner # c
    BY <2>1 DEF OwnInv, Owned, Namesakes
  <2>5. Named(mhcs, MachineDeploymentName(d))' = Named(mhcs, MachineDeploymentName(d))
    BY <1>4, <2>4 DEF Named
  <2> QED
    BY <1>2, <1>4, <2>2, <2>3, <2>5, StaysInPlace DEF inputVars
<1>7. ASSUME NEW d \in Claims, NEW p \in mds', p.name = MachineDeploymentName(d),
             "drift" \notin touched'[d]
      PROVE  p \in mds /\ touched'[d] = touched[d]
  <2>1. d \notin Namesakes(c)
    BY <1>2, <1>7
  <2>2. p.name # MachineDeploymentName(c)
    BY <1>7, <2>1 DEF Namesakes
  <2> QED
    BY <1>2, <1>5, <2>1, <2>2
<1>8. RefsCurrent'
  BY <1>3, <1>7 DEF CurrentInv, RefsCurrent
<1> QED
  BY <1>6, <1>8 DEF Complete

\* At first no claim has been reconciled.
LEMMA CurrentInit == Init => CurrentInv
<1> SUFFICES ASSUME Init PROVE CurrentInv
  OBVIOUS
<1>1. \A c \in Claims : touched[c] # {}
  BY DEF Init, SpecParts
<1>2. mds = {}
  BY DEF Init
<1> QED
  BY <1>1, <1>2, OwnInit DEF CurrentInv, Complete, RefsCurrent

\* No step leaves CurrentInv.
LEMMA CurrentInductive == CurrentInv /\ [Next]_vars => CurrentInv'
<1>1. ASSUME CurrentInv, UNCHANGED vars
      PROVE  CurrentInv'
  <2>1. OwnInv'
    BY <1>1, OwnInductive DEF CurrentInv
  <2>2. UNCHANGED <<inputVars, bmts, kcts, mds, mhcs, touched>>
    BY <1>1 DEF vars, objectVars
  <2>3. ASSUME NEW d
        PROVE  /\ BmtName(d)' = BmtName(d) /\ KctName(d)' = KctName(d)
               /\ BootstrapCauses(d)' = BootstrapCauses(d)
    BY <2>2, SameWanted DEF inputVars
  <2>4. RefsCurrent'
    BY <1>1, <2>2, <2>3 DEF CurrentInv, RefsCurrent
  <2>5. ASSUME NEW d \in Claims, touched'[d] = {}
        PROVE  InPlace(d)'
    <3>1. InPlace(d)
      BY <1>1, <2>2, <2>5 DEF CurrentInv, Complete
    <3> QED
      BY <2>2, <3>1, StaysInPlace DEF inputVars, Named
  <2> QED
    BY <2>1, <2>4, <2>5 DEF CurrentInv, Complete
<1>2. ASSUME CurrentInv, Next
      PROVE  CurrentInv'
  <2>1. OwnInv'
    BY <1>2, OwnInductive DEF CurrentInv
  <2>2. CASE \E c \in Claims : Reconcile(c)
    BY <1>2, <2>1, <2>2, CurrentReconcile DEF CurrentInv
  <2>3. CASE InputStep
    BY <1>2, <2>1, <2>3, CurrentInput DEF CurrentInv
  <2>4. CASE \E o \in mds, f \in InPlaceFields \cup RefFields : DriftMD(o, f)
    BY <1>2, <2>1, <2>4, CurrentDrift DEF CurrentInv, MDFields
  <2>5. CASE \E o \in kcts : DriftKCT(o)
    BY <1>2, <2>1, <2>5, CurrentDrift DEF CurrentInv
  <2>6. CASE \E o \in mhcs : DriftMHC(o)
    BY <1>2, <2>1, <2>6, CurrentDrift DEF CurrentInv
  <2> QED
    BY <1>2, <2>2, <2>3, <2>4, <2>5, <2>6 DEF Next, InputStep
<1> QED
  BY <1>1, <1>2

\* The MD and the KCT that the properties look up.
LEMMA Lookup ==
    ASSUME CurrentInv, NEW c \in Claims, touched[c] = {}
    PROVE  /\ MDOf(c).fields = Desired(c)
           /\ (CHOOSE o \in kcts : o.name = KctName(c)).content = KctContent(c)
           /\ InPlace(c)
<1>1. InPlace(c)
  BY DEF CurrentInv, Complete
<1>2. PICK w \in Namesakes(c) : WantedMD(c, w) \in mds
  BY <1>1 DEF InPlace
<1>3. WantedMD(c, w).name = MachineDeploymentName(c) /\ WantedMD(c, w).fields = Desired(c)
  BY WantedShapes
<1>4. \A o \in mds : o.name = MachineDeploymentName(c) => o = WantedMD(c, w)
  BY <1>2, <1>3 DEF CurrentInv, OwnInv, Unique
<1>5. MDOf(c) = WantedMD(c, w)
  BY <1>2, <1>3, <1>4 DEF MDOf
<1>6. PICK u \in Namesakes(c) : WantedKCT(c, u) \in kcts
  BY <1>1 DEF InPlace
<1>7. WantedKCT(c, u).name = KctName(c) /\ WantedKCT(c, u).content = KctContent(c)
  BY WantedShapes
<1>8. \A o \in kcts : o.name = KctName(c) => o = WantedKCT(c, u)
  BY <1>6, <1>7 DEF CurrentInv, OwnInv, Unique
<1>9. (CHOOSE o \in kcts : o.name = KctName(c)) = WantedKCT(c, u)
  BY <1>6, <1>7, <1>8
<1> QED
  BY <1>1, <1>3, <1>5, <1>7, <1>9

\* After a complete reconcile, and until something is written again, the MD has
\* every field the claim asks for (the user's deletion timeouts, the default only
\* where there is none), refers to templates with the content rendered for it, and
\* the MachineHealthCheck is as wanted, whatever others, a claim with the same
\* joined name included, had made of the objects before (ensureBMT, ensureKCT,
\* ensureMachineDeployment, ensureMachineHealthCheck).
THEOREM ObjectsAreRefreshed == Spec => []Refreshed
<1>1. CurrentInv => Refreshed
  <2> SUFFICES ASSUME CurrentInv, NEW c \in Claims, touched[c] = {}
               PROVE  LET s == spec[c]
                          f == MDOf(c).fields
                          rendered == renderTemplates(c, Filter(labelPolicy, s.labels))
                      IN  /\ f.replicas = s.replicas /\ f.version = s.version
                          /\ f.taints = s.taints
                          /\ f.strategy = (IF s.strategy = None THEN None ELSE s.strategy.rolling)
                          /\ f.order = (IF s.strategy = None THEN None
                                                             ELSE s.strategy.deletePolicy)
                          /\ f.deletion = [x \in DOMAIN s.deletion |->
                                 IF s.deletion[x] = None THEN "default" ELSE s.deletion[x]]
                          /\ f.maxInFlight = 1
                          /\ \E o \in bmts : o.name = f.infrastructureRef
                                             /\ o.content = rendered.bmt
                          /\ \E o \in kcts : o.name = f.configRef /\ o.content = rendered.kct
                          /\ {o.timeout : o \in Named(mhcs, MachineDeploymentName(c))}
                                 = IF s.healing THEN {unhealthyTimeout} ELSE {}
    BY DEF Refreshed
  <2> DEFINE s == spec[c]
             f == MDOf(c).fields
             rendered == renderTemplates(c, Filter(labelPolicy, s.labels))
  <2>1. f = Desired(c) /\ InPlace(c)
    BY Lookup
  <2>2. /\ f.replicas = s.replicas /\ f.version = s.version /\ f.taints = s.taints
        /\ f.strategy = convertStrategy(s.strategy)
        /\ f.order = (IF s.strategy = None THEN None ELSE s.strategy.deletePolicy)
        /\ f.deletion = buildMachineDeletion(s.deletion) /\ f.maxInFlight = 1
        /\ f.infrastructureRef = BmtName(c) /\ f.configRef = KctName(c)
    BY <2>1 DEF Desired, BuildMachineDeployment
  <2>3. f.strategy = (IF s.strategy = None THEN None ELSE s.strategy.rolling)
    BY <2>2 DEF convertStrategy
  <2>4. f.deletion = [x \in DOMAIN s.deletion |->
                          IF s.deletion[x] = None THEN "default" ELSE s.deletion[x]]
    BY <2>2 DEF buildMachineDeletion
  <2>5. rendered.bmt = BmtContent(c) /\ rendered.kct = KctContent(c)
    BY <2>1 DEF InPlace, Renders, renderTemplates, BmtContent, KctContent, Accepted
  <2>6. \E o \in bmts : o.name = f.infrastructureRef /\ o.content = rendered.bmt
    BY <2>1, <2>2, <2>5, WantedShapes DEF InPlace
  <2>7. \E o \in kcts : o.name = f.configRef /\ o.content = rendered.kct
    BY <2>1, <2>2, <2>5, WantedShapes DEF InPlace
  <2>8. {o.timeout : o \in Named(mhcs, MachineDeploymentName(c))}
            = IF s.healing THEN {unhealthyTimeout} ELSE {}
    BY <2>1 DEF InPlace, WantedTimeouts
  <2> QED
    BY <2>2, <2>3, <2>4, <2>6, <2>7, <2>8
<1> QED
  BY <1>1, CurrentInit, CurrentInductive, PTL DEF Spec

\* The labels that the delivery controller reads from the MD are the accepted part
\* of the claim's, and the kubelet is told the same ones: the two ways a label takes
\* to a Node agree (SanitizeNodeLabels, templateLabels, injectNodeLabels).
THEOREM LabelWaysAgree == Spec => []LabelsAgree
<1>1. CurrentInv => LabelsAgree
  <2> SUFFICES ASSUME CurrentInv, NEW c \in Claims, touched[c] = {}
               PROVE  LET read == userLabels(MDOf(c).fields.labels)
                          kct  == CHOOSE o \in kcts : o.name = MDOf(c).fields.configRef
                      IN  /\ \A key \in Present(read) :
                                read[key] = spec[c].labels[key] /\ ~Denies(labelPolicy, key)
                          /\ \A key \in Present(spec[c].labels) \ Present(read) :
                                Denies(labelPolicy, key)
                          /\ \A key \in SelectorKeys : MDOf(c).fields.labels[key] = c.selector
                          /\ (/\ spec[c].bootstrap["nodeLabels"] = None
                              /\ "nodeLabels" \in bootstrapTemplate.uses)
                                 => kct.content.values["nodeLabels"] = read
    BY DEF LabelsAgree
  <2> DEFINE labels == spec[c].labels
             read   == userLabels(MDOf(c).fields.labels)
             kct    == CHOOSE o \in kcts : o.name = MDOf(c).fields.configRef
  <2>1. /\ MDOf(c).fields.labels = templateLabels(c, Accepted(c))
        /\ MDOf(c).fields.configRef = KctName(c)
    <3>1. MDOf(c).fields = Desired(c)
      BY Lookup
    <3> QED
      BY <3>1 DEF Desired, BuildMachineDeployment
  <2>2. kct.content = KctContent(c)
    BY <2>1, Lookup
  <2>3. \A key \in Keys : key \in SelectorKeys \cup BookkeepingKeys => Denies(labelPolicy, key)
    BY ObjectsAssumption DEF labelPolicy, NewClaimPolicy, newPolicy, Denies
  <2>4. Accepted(c) = [key \in Keys |-> IF Denies(labelPolicy, key) THEN None ELSE labels[key]]
    BY DEF Accepted, Filter, Only
  <2>5. read = Accepted(c)
    <3>1. read = [key \in Keys |-> IF key \in SelectorKeys THEN None
                                   ELSE templateLabels(c, Accepted(c))[key]]
      BY <2>1 DEF userLabels, Only
    <3>2. ASSUME NEW key \in Keys \ SelectorKeys
          PROVE  templateLabels(c, Accepted(c))[key]
                     = IF key \in BookkeepingKeys THEN None ELSE Accepted(c)[key]
      BY DEF templateLabels
    <3>3. \A key \in Keys : read[key] = Accepted(c)[key]
      BY <2>3, <2>4, <3>1, <3>2
    <3> QED
      BY <2>4, <3>1, <3>3
  <2>6. \A key \in Present(read) : read[key] = labels[key] /\ ~Denies(labelPolicy, key)
    BY <2>4, <2>5 DEF Present
  <2>7. \A key \in Present(labels) \ Present(read) : Denies(labelPolicy, key)
    BY <2>4, <2>5 DEF Present
  <2>8. \A key \in SelectorKeys : MDOf(c).fields.labels[key] = c.selector
    BY <2>1, PolicyAssumption DEF templateLabels
  <2>9. ASSUME spec[c].bootstrap["nodeLabels"] = None, "nodeLabels" \in bootstrapTemplate.uses
        PROVE  kct.content.values["nodeLabels"] = read
    <3>1. spec[c] \in Specs
      BY DEF CurrentInv, OwnInv, InputTypes
    <3>2. "nodeLabels" \in DOMAIN spec[c].bootstrap
      BY <3>1, ObjectsAssumption
    <3>3. BootstrapVars(c, Accepted(c))["nodeLabels"] = Accepted(c)
      BY <2>9, <3>2 DEF BootstrapVars, InjectNodeLabels, InjectMachineDeploymentName, Unless
    <3>4. KctContent(c).values = [x \in bootstrapTemplate.uses |-> BootstrapVars(c, Accepted(c))[x]]
      BY Lookup DEF InPlace, Renders, KctContent, Render
    <3> QED
      BY <2>2, <2>5, <2>9, <3>3, <3>4
  <2> QED
    BY <2>6, <2>7, <2>8, <2>9
<1> QED
  BY <1>1, CurrentInit, CurrentInductive, PTL DEF Spec

\* A reconcile replaces a template, and so replaces the machines, only for a change
\* of what is rendered into that template (ComputeMDDiff against the hashed names).
\* Labels and the policy count only where the text uses labels that the user does
\* not set as a variable, kubelet settings only where the text uses them.
THEOREM RolloutsOnlyWhenAsked == Spec => RolloutsAreAskedFor
<1> DEFINE Asked ==
       \A c \in Claims, o \in mds, n \in mds' :
         (/\ o.name = MachineDeploymentName(c) /\ n.name = o.name
          /\ "drift" \notin touched[c] /\ Reconcile(c)) =>
           /\ o.fields.infrastructureRef # n.fields.infrastructureRef
                  => touched[c] \cap {"infrastructure", "machineTemplate"} # {}
           /\ o.fields.configRef # n.fields.configRef
                  => touched[c] \cap BootstrapCauses(c) # {}
<1>1. CurrentInv => Asked
  <2> SUFFICES ASSUME CurrentInv, NEW c \in Claims, NEW o \in mds, NEW n \in mds',
                      o.name = MachineDeploymentName(c), n.name = o.name,
                      "drift" \notin touched[c], Reconcile(c)
               PROVE  /\ touched[c] \cap InfraParts = {} =>
                             o.fields.infrastructureRef = n.fields.infrastructureRef
                      /\ touched[c] \cap BootstrapCauses(c) = {} =>
                             o.fields.configRef = n.fields.configRef
    BY DEF InfraParts
  <2>1. WritesOf(c)
    BY ReconcileWrites DEF CurrentInv
  <2>2. CASE mds' = mds
    BY <2>2 DEF CurrentInv, OwnInv, Unique
  <2>3. CASE CompleteWrites(c)
    <3>1. PICK w \in Namesakes(c) :
            mds' = {p \in mds : p.name # MachineDeploymentName(c)} \cup {WantedMD(c, w)}
      BY <2>3 DEF CompleteWrites, OwnerOf
    <3>2. WantedMD(c, w).fields = Desired(c)
      BY WantedShapes
    <3>3. n.fields = Desired(c)
      BY <3>1, <3>2
    <3>4. n.fields.infrastructureRef = BmtName(c) /\ n.fields.configRef = KctName(c)
      BY <3>3 DEF Desired, BuildMachineDeployment
    <3> QED
      BY <3>4 DEF CurrentInv, RefsCurrent
  <2> QED
    BY <2>1, <2>2, <2>3 DEF WritesOf
<1>2. CurrentInv /\ [Next]_vars => [Asked]_vars
  BY <1>1
<1>3. []CurrentInv /\ [][Next]_vars => [][Asked]_vars
  BY <1>2, PTL
<1> QED
  BY <1>3, CurrentInit, CurrentInductive, PTL DEF Spec, RolloutsAreAskedFor
=============================================================================
