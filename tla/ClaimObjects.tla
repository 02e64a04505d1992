---------------------------- MODULE ClaimObjects ----------------------------
(***************************************************************************)
(* What a reconcile writes: from the specs of the claims, the shared       *)
(* templates and the label policy to the content and the names of the      *)
(* BMTs and KCTs and the fields of the MachineDeployments and              *)
(* MachineHealthChecks (internal/renderer, hash, kubelet, builder,         *)
(* validation and the ensure functions of workergroupclaim_controller.go). *)
(*                                                                         *)
(* A reconcile is one step here; its interleavings are the subject of      *)
(* ClaimController.  Somebody else may write the objects in between, and   *)
(* several claims live in one namespace and share the templates.           *)
(*                                                                         *)
(* A rendered template is its text and the values of the variables that    *)
(* the text uses.  The hash in a name is taken to be free of collisions.   *)
(***************************************************************************)
EXTENDS NodeLabelPolicy, Sequences

CONSTANTS
    Claims,         \* [cluster, name]: the words of the two names
    Specs,          \* specs a claim can have
    MachineTemplates, BootstrapTemplates,   \* values of the shared templates
    DenySpecs,      \* sets of patterns the policy object can hold
    Invalid,        \* label keys and values that are syntactically invalid
    BookkeepingKeys,    \* label keys Cluster API puts on Machines
    Settings,       \* leaves of a kubelet configuration
    DefaultKubelet, \* the embedded configuration
    Timeouts,       \* values of the flag for the MachineHealthCheck's timeout
    RenderError,
    Null,           \* a JSON null: a variable that is given and has no value
    MaxEdits        \* bound: writes of users, administrators and others

\* The parts of a spec, the shared inputs, and writes of others to an object.
SpecParts == {"infrastructure", "bootstrap", "labels", "kubelet", "replicas", "version",
              "strategy", "taints", "deletion", "healing"}
Inputs == SpecParts \cup {"machineTemplate", "bootstrapTemplate", "policy", "flag", "drift"}

\* A spec has these parts and no others; a variable that is not given is None.
\* claimReservedPatterns cover the keys of the selector and those that
\* buildMachineDeployment takes out (nodelabels/policy.go).
ASSUME ObjectsAssumption ==
    /\ \A s \in Specs : /\ s = [x \in SpecParts |-> s[x]]
                        /\ s.labels \in LabelSets
                        /\ "nodeLabels" \in DOMAIN s.bootstrap
                        /\ \A t \in BootstrapTemplates : t.uses \subseteq DOMAIN s.bootstrap
    /\ DenySpecs \subseteq SUBSET Patterns
    /\ BookkeepingKeys \cup SelectorKeys \subseteq ReservedKeys
    /\ MaxEdits \in Nat

VARIABLES
    spec,           \* [Claims -> Specs]
    machineTemplate, bootstrapTemplate, policy, \* shared, cluster-scoped
    unhealthyTimeout,   \* a flag of the process
    bmts, kcts,     \* sets of [name, owner, content]
    mds,            \* set of [name, owner, fields]
    mhcs,           \* set of [name, owner, timeout]
    failed,         \* claims in phase Failed
    touched,        \* per claim, what was written since its last complete reconcile
                    \* (history)
    edits

inputVars  == <<spec, machineTemplate, bootstrapTemplate, policy, unhealthyTimeout>>
objectVars == <<bmts, kcts, mds, mhcs>>
vars == <<inputVars, objectVars, failed, touched, edits>>

-----------------------------------------------------------------------------
(* Labels, kubelet configuration, rendering, names                         *)

\* Mutant: the policy is not asked.
SanitizeSyntaxOnly(labels, p) ==
    IF \E key \in Present(labels) : key \in Invalid \/ labels[key] \in Invalid
    THEN RenderError ELSE labels

\* An invalid key or value fails the claim; a denied key is dropped.
SanitizeNodeLabels(labels, p) ==
    IF \E key \in Present(labels) : key \in Invalid \/ labels[key] \in Invalid
    THEN RenderError ELSE Filter(p, labels)

\* The policy object's patterns, or none, on top of the compiled-in floor.
labelPolicy == NewClaimPolicy(policy)

\* deepMerge, on the leaves of the two configurations.
MergeKubeletConfig(overrides) ==
    [x \in Settings |-> IF overrides[x] # None THEN overrides[x] ELSE DefaultKubelet[x]]

\* A null decodes to no raw text and is refused, whether it is used or not.
PrepareVars(raw) == \A x \in DOMAIN raw : raw[x] # Null

\* A template is its text, whether it parses, whether what it renders to is a
\* resource, and the variables it uses, which must be set (missingkey=error).
Render(template, variables) ==
    IF ~template.parses \/ \E x \in template.uses : variables[x] = None
    THEN RenderError
    ELSE [text |-> template.text, values |-> [x \in template.uses |-> variables[x]]]

\* Variables the operator adds unless the user has set them, and the kubelet
\* configuration, which it always sets.
Unless(variables, x, value) ==
    [variables EXCEPT ![x] = IF variables[x] = None THEN value ELSE variables[x]]
InjectNodeLabels(variables, labels) == Unless(variables, "nodeLabels", labels)
InjectMachineDeploymentName(variables, c) ==
    Unless(variables, "machineDeploymentName", c.cluster \o c.name)

\* Mutant: the version is rendered into the kubelet configuration.
BootstrapVarsVersioned(c, labels) ==
    [InjectMachineDeploymentName(InjectNodeLabels(spec[c].bootstrap, labels), c)
        EXCEPT !["__kubeletConfigYaml"] =
                   <<MergeKubeletConfig(spec[c].kubelet), spec[c].version>>]

BootstrapVars(c, labels) ==
    [InjectMachineDeploymentName(InjectNodeLabels(spec[c].bootstrap, labels), c)
        EXCEPT !["__kubeletConfigYaml"] = MergeKubeletConfig(spec[c].kubelet)]

\* The contents of the two templates; any error fails both.
renderTemplates(c, labels) ==
    LET bmt == Render(machineTemplate, spec[c].infrastructure)
        kct == Render(bootstrapTemplate, BootstrapVars(c, labels))
        prepared == PrepareVars(spec[c].infrastructure) /\ PrepareVars(spec[c].bootstrap)
    IN  IF ~prepared \/ bmt = RenderError \/ kct = RenderError
        THEN RenderError ELSE [bmt |-> bmt, kct |-> kct]

MachineDeploymentName(c) == c.cluster \o c.name

\* Names are joined with a dash, which clusters and claims may contain, and
\* nothing refuses two claims of a namespace whose names read the same joined.
Namesakes(c) == {d \in Claims : MachineDeploymentName(d) = MachineDeploymentName(c)}

\* Mutant: the claim's name is left out.
ResourceNameOfCluster(c, type, hash) == [base |-> c.cluster, type |-> type, hash |-> hash]

ResourceName(c, type, hash) == [base |-> c.cluster \o c.name, type |-> type, hash |-> hash]

ComputeHash(content) == <<"sha256", content>>

-----------------------------------------------------------------------------
(* Builders                                                                *)

\* The user's labels without Cluster API's own, and the selector's on top.
templateLabels(c, labels) ==
    [key \in Keys |-> CASE key \in SelectorKeys -> c.selector
                        [] key \in BookkeepingKeys \ SelectorKeys -> None
                        [] OTHER -> labels[key]]

\* spec.deletion over the defaults, timeout by timeout.
buildMachineDeletion(deletion) ==
    [x \in DOMAIN deletion |-> IF deletion[x] # None THEN deletion[x] ELSE "default"]

convertStrategy(strategy) == IF strategy = None THEN None ELSE strategy.rolling

BuildBMT(c, name, content) == [name |-> name, owner |-> c, content |-> content]
BuildKCT(c, name, content) == [name |-> name, owner |-> c, content |-> content]

\* A strategy without a deletePolicy, or no strategy, leaves the order empty.
BuildMachineDeployment(c, labels, bmtName, kctName) ==
    LET s == spec[c]
    IN  [infrastructureRef |-> bmtName, configRef |-> kctName,
         replicas |-> s.replicas, version |-> s.version, taints |-> s.taints,
         labels   |-> templateLabels(c, labels),
         strategy |-> convertStrategy(s.strategy),
         order    |-> IF s.strategy = None THEN None ELSE s.strategy.deletePolicy,
         deletion |-> buildMachineDeletion(s.deletion),
         maxInFlight |-> 1]

\* Fields ComputeMDDiff compares: references first, the others are in place.
RefFields     == {"infrastructureRef", "configRef"}
InPlaceFields == {"replicas", "version", "strategy", "taints", "labels", "deletion",
                  "order", "maxInFlight"}

\* Mutant: the order of deletion is not compared.
ComputeMDDiffNoOrder(desired, existing) ==
    \E f \in (RefFields \cup InPlaceFields) \ {"order"} : desired[f] # existing[f]

ComputeMDDiff(desired, existing) ==
    \E f \in RefFields \cup InPlaceFields : desired[f] # existing[f]

\* Fields ensureMachineDeployment copies to an existing MD.
CopiedFields == {"replicas", "version", "infrastructureRef", "configRef", "labels", "taints",
                 "strategy", "order", "deletion", "maxInFlight"}

Updated(existing, desired) ==
    [f \in DOMAIN existing |-> IF f \in CopiedFields THEN desired[f] ELSE existing[f]]

-----------------------------------------------------------------------------
(* Reconcile                                                               *)

Named(objects, name) == {o \in objects : o.name = name}

\* An existing BMT of that name is left as it is.
EnsureBMT(c, name, content) ==
    bmts' = IF Named(bmts, name) # {} THEN bmts
            ELSE bmts \cup {BuildBMT(c, name, content)}

\* The content of an existing KCT is brought up to date in place.
EnsureKCT(c, name, content) ==
    kcts' = IF Named(kcts, name) # {}
            THEN (kcts \ Named(kcts, name))
                     \cup {[o EXCEPT !.content = content] : o \in Named(kcts, name)}
            ELSE kcts \cup {BuildKCT(c, name, content)}

EnsureMachineDeployment(c, desired) ==
    LET name == MachineDeploymentName(c)
    IN  mds' = IF Named(mds, name) = {}
               THEN mds \cup {[name |-> name, owner |-> c, fields |-> desired]}
               ELSE {IF o.name = name /\ ComputeMDDiff(desired, o.fields)
                     THEN [o EXCEPT !.fields = Updated(@, desired)] ELSE o : o \in mds}

\* None when autohealing is off.
BuildMachineHealthCheck(c) ==
    IF spec[c].healing
    THEN {[name |-> MachineDeploymentName(c), owner |-> c, timeout |-> unhealthyTimeout]}
    ELSE {}

\* Mutant: an existing MachineHealthCheck is not looked up.
EnsureMachineHealthCheckNew(c) == mhcs' = mhcs \cup BuildMachineHealthCheck(c)

\* Created, updated in place, or deleted when none is wanted.
EnsureMachineHealthCheck(c) ==
    LET existing == Named(mhcs, MachineDeploymentName(c))
        desired  == BuildMachineHealthCheck(c)
    IN  mhcs' = (mhcs \ existing)
                    \cup IF existing = {} THEN desired
                         ELSE {[o EXCEPT !.timeout = d.timeout] : o \in existing, d \in desired}

\* The objects are written in this order, and an error ends the reconcile: what
\* was rendered fails the claim, what is no resource is found only on the way.
\* For a namesake, a reconcile of this claim is a write by somebody else.
Reconcile(c) ==
    LET labels   == SanitizeNodeLabels(spec[c].labels, labelPolicy)
        rendered == renderTemplates(c, labels)
        bmtName  == ResourceName(c, "bmt", ComputeHash(rendered.bmt))
        kctName  == ResourceName(c, "kct", ComputeHash(rendered.kct))
        ok       == labels # RenderError /\ rendered # RenderError
    IN  /\ UNCHANGED <<inputVars, edits>>
        /\ \/ /\ ~ok
              /\ failed' = failed \cup {c}
              /\ UNCHANGED <<objectVars, touched>>
           \/ /\ ok /\ ~machineTemplate.builds
              /\ UNCHANGED <<objectVars, failed, touched>>
           \/ /\ ok /\ machineTemplate.builds /\ ~bootstrapTemplate.builds
              /\ EnsureBMT(c, bmtName, rendered.bmt)
              /\ UNCHANGED <<kcts, mds, mhcs, failed, touched>>
           \/ /\ ok /\ machineTemplate.builds /\ bootstrapTemplate.builds
              /\ EnsureBMT(c, bmtName, rendered.bmt)
              /\ EnsureKCT(c, kctName, rendered.kct)
              /\ EnsureMachineDeployment(c, BuildMachineDeployment(c, labels, bmtName, kctName))
              /\ EnsureMachineHealthCheck(c)
              /\ failed' = failed \ {c}
              /\ touched' = [d \in Claims |->
                                IF d = c THEN {}
                                ELSE touched[d] \cup {x \in {"drift"} : d \in Namesakes(c)}]

-----------------------------------------------------------------------------
(* Everybody else                                                          *)

Edit == edits < MaxEdits /\ edits' = edits + 1
Touch(claims, what) ==
    touched' = [c \in Claims |-> IF c \in claims THEN touched[c] \cup what ELSE touched[c]]

EditSpec(c, s) ==
    /\ Edit /\ s # spec[c]
    /\ spec' = [spec EXCEPT ![c] = s]
    /\ Touch({c}, {x \in SpecParts : s[x] # spec[c][x]})
    /\ UNCHANGED <<machineTemplate, bootstrapTemplate, policy, unhealthyTimeout, objectVars, failed>>

EditMachineTemplate(t) ==
    /\ Edit /\ machineTemplate' = t /\ Touch(Claims, {"machineTemplate"})
    /\ UNCHANGED <<spec, bootstrapTemplate, policy, unhealthyTimeout, objectVars, failed>>

EditBootstrapTemplate(t) ==
    /\ Edit /\ bootstrapTemplate' = t /\ Touch(Claims, {"bootstrapTemplate"})
    /\ UNCHANGED <<spec, machineTemplate, policy, unhealthyTimeout, objectVars, failed>>

EditPolicy(patterns) ==
    /\ Edit /\ policy' = patterns /\ Touch(Claims, {"policy"})
    /\ UNCHANGED <<spec, machineTemplate, bootstrapTemplate, unhealthyTimeout, objectVars, failed>>

\* The operator is restarted with another value of the flag.
Restart(timeout) ==
    /\ Edit /\ unhealthyTimeout' = timeout /\ Touch(Claims, {"flag"})
    /\ UNCHANGED <<spec, machineTemplate, bootstrapTemplate, policy, objectVars, failed>>

\* Somebody else writes a field of an MD, a KCT, or an MHC.
DriftMD(o, f) ==
    /\ Edit /\ mds' = (mds \ {o}) \cup {[o EXCEPT !.fields[f] = None]}
    /\ Touch(Namesakes(o.owner), {"drift"})
    /\ UNCHANGED <<inputVars, bmts, kcts, mhcs, failed>>
DriftKCT(o) ==
    /\ Edit /\ kcts' = (kcts \ {o}) \cup {[o EXCEPT !.content = None]}
    /\ Touch(Namesakes(o.owner), {"drift"})
    /\ UNCHANGED <<inputVars, bmts, mds, mhcs, failed>>
DriftMHC(o) ==
    /\ Edit /\ mhcs' = mhcs \ {o}
    /\ Touch(Namesakes(o.owner), {"drift"})
    /\ UNCHANGED <<inputVars, bmts, kcts, mds, failed>>

Init ==
    /\ spec \in [Claims -> Specs]
    /\ machineTemplate \in MachineTemplates /\ bootstrapTemplate \in BootstrapTemplates
    /\ policy = {} /\ unhealthyTimeout \in Timeouts
    /\ bmts = {} /\ kcts = {} /\ mds = {} /\ mhcs = {}
    /\ failed = {} /\ touched = [c \in Claims |-> SpecParts] /\ edits = 0

Next ==
    \/ \E c \in Claims : Reconcile(c) \/ \E s \in Specs : EditSpec(c, s)
    \/ \E t \in MachineTemplates : EditMachineTemplate(t)
    \/ \E t \in BootstrapTemplates : EditBootstrapTemplate(t)
    \/ \E patterns \in DenySpecs : EditPolicy(patterns)
    \/ \E t \in Timeouts : Restart(t)
    \/ \E o \in mds, f \in InPlaceFields \cup RefFields : DriftMD(o, f)
    \/ \E o \in kcts : DriftKCT(o)
    \/ \E o \in mhcs : DriftMHC(o)

Spec == Init /\ [][Next]_vars

-----------------------------------------------------------------------------
(* Properties                                                              *)

\* Owners exist and names are unique.
UniqueNames(objects) ==
    \A o \in objects : o.owner \in Claims /\ Named(objects, o.name) = {o}

ObjectsTypeOK ==
    /\ spec \in [Claims -> Specs]
    /\ machineTemplate \in MachineTemplates /\ bootstrapTemplate \in BootstrapTemplates
    /\ policy \in DenySpecs \cup {{}} /\ unhealthyTimeout \in Timeouts
    /\ failed \subseteq Claims /\ touched \in [Claims -> SUBSET Inputs]
    /\ UniqueNames(bmts) /\ UniqueNames(kcts) /\ UniqueNames(mds) /\ UniqueNames(mhcs)
    /\ edits \in 0..MaxEdits

MDOf(c) == CHOOSE o \in mds : o.name = MachineDeploymentName(c)

\* After a complete reconcile, whatever somebody else did to the
\* objects before: the MD has every field the claim asks for, a deletion timeout
\* being the user's or, if there is none, the default; the templates it refers to
\* have the content that was rendered for this claim, and the MachineHealthCheck
\* exists exactly when it is wanted, with the flag's timeout.
Refreshed ==
    \A c \in Claims : touched[c] = {} =>
        LET s == spec[c]
            f == MDOf(c).fields
            rendered == renderTemplates(c, Filter(labelPolicy, s.labels))
        IN  /\ f.replicas = s.replicas /\ f.version = s.version /\ f.taints = s.taints
            /\ f.strategy = (IF s.strategy = None THEN None ELSE s.strategy.rolling)
            /\ f.order = (IF s.strategy = None THEN None ELSE s.strategy.deletePolicy)
            /\ f.deletion = [x \in DOMAIN s.deletion |->
                                IF s.deletion[x] = None THEN "default" ELSE s.deletion[x]]
            /\ f.maxInFlight = 1
            /\ \E o \in bmts : o.name = f.infrastructureRef /\ o.content = rendered.bmt
            /\ \E o \in kcts : o.name = f.configRef /\ o.content = rendered.kct
            /\ {o.timeout : o \in Named(mhcs, MachineDeploymentName(c))}
                   = IF s.healing THEN {unhealthyTimeout} ELSE {}

\* What the label delivery controller will read from the MD is the accepted part
\* of the claim's labels: no reserved and no denied key, and the kubelet is told
\* the same labels at registration, unless the user sets that variable.
LabelsAgree ==
    \A c \in Claims : touched[c] = {} =>
        LET read == userLabels(MDOf(c).fields.labels)
            kct  == CHOOSE o \in kcts : o.name = MDOf(c).fields.configRef
        IN  /\ \A key \in Present(read) :
                   read[key] = spec[c].labels[key] /\ ~Denies(labelPolicy, key)
            /\ \A key \in Present(spec[c].labels) \ Present(read) : Denies(labelPolicy, key)
            /\ \A key \in SelectorKeys : MDOf(c).fields.labels[key] = c.selector
            /\ (spec[c].bootstrap["nodeLabels"] = None /\ "nodeLabels" \in bootstrapTemplate.uses)
                   => kct.content.values["nodeLabels"] = read

\* What is rendered into the KCT: labels only if the text uses them and the user
\* does not set the variable, the kubelet configuration only if the text uses it.
BootstrapCauses(c) ==
    {"bootstrap", "bootstrapTemplate"}
        \cup (IF "nodeLabels" \in bootstrapTemplate.uses /\ spec[c].bootstrap["nodeLabels"] = None
              THEN {"labels", "policy"} ELSE {})
        \cup (IF "__kubeletConfigYaml" \in bootstrapTemplate.uses THEN {"kubelet"} ELSE {})

\* A rollout replaces a template only for a change of what is rendered into it:
\* replicas, version, taints, strategy, deletion timeouts and autohealing keep
\* both references, and neither template is replaced for a change of the other.
\* That labels and kubelet settings are rendered at all is what InPlaceUpdates
\* below is about.
RolloutsAreAskedFor ==
    [][\A c \in Claims, o \in mds, n \in mds' :
         (/\ o.name = MachineDeploymentName(c) /\ n.name = o.name
          /\ "drift" \notin touched[c] /\ Reconcile(c)) =>
           /\ o.fields.infrastructureRef # n.fields.infrastructureRef
                  => touched[c] \cap {"infrastructure", "machineTemplate"} # {}
           /\ o.fields.configRef # n.fields.configRef
                  => touched[c] \cap BootstrapCauses(c) # {}]_vars

Held(objects) == {<<o.name, o.owner>> : o \in objects}

\* The reconcile of one claim never writes an object of another one, nor makes
\* its MD depend on a template that is deleted with another claim, unless the two
\* are namesakes (see OwnResources).  Even then what exists stays with the claim
\* it was created for, so that it is garbage collected with that claim, and only
\* a MachineHealthCheck may be deleted.
ClaimsApart ==
    [][\A c \in Claims : Reconcile(c) =>
         /\ \A d \in Claims \ Namesakes(c) :
                /\ {o \in bmts : o.owner = d} = {o \in bmts' : o.owner = d}
                /\ {o \in kcts : o.owner = d} = {o \in kcts' : o.owner = d}
                /\ {o \in mds  : o.owner = d} = {o \in mds'  : o.owner = d}
                /\ {o \in mhcs : o.owner = d} = {o \in mhcs' : o.owner = d}
         /\ Held(bmts) \subseteq Held(bmts') /\ Held(kcts) \subseteq Held(kcts')
         /\ Held(mds) \subseteq Held(mds')
         /\ \A o \in mds', t \in bmts' \cup kcts' :
                t.name \in {o.fields.infrastructureRef, o.fields.configRef}
                    => t.owner \in Namesakes(o.owner)]_vars

-----------------------------------------------------------------------------
(* What the documentation says and the code does not do                    *)

\* The table "In-place updates (without rollout)" of
\* docs/user-guide/updating-and-rollouts.md.
DocumentedInPlace ==
    {"replicas", "version", "taints", "labels", "strategy", "deletion", "kubelet"}

\* A change of those parts of a spec alone keeps the KCT that the MD refers to.
\* Labels and kubelet configuration are rendered into the text that is hashed, so
\* that the KCT gets another name; of the others RolloutsAreAskedFor says that they
\* do keep both references.
InPlaceUpdates ==
    [][\A o \in mds, n \in mds' :
         (n.name = o.name /\ Reconcile(o.owner) /\ touched[o.owner] \subseteq DocumentedInPlace) =>
             o.fields.configRef = n.fields.configRef]_vars

\* docs/user-guide/deploying-worker-groups.md: every claim creates its own set of
\* resources with unique names: what a claim was last reconciled to is its own.
\* The second of two namesakes takes the first one's objects for its own.
OwnResources ==
    \A c \in Claims : touched[c] = {} =>
        LET f == MDOf(c).fields
        IN  /\ \A o \in mds \cup mhcs : o.name = MachineDeploymentName(c) => o.owner = c
            /\ \A o \in bmts \cup kcts :
                   o.name \in {f.infrastructureRef, f.configRef} => o.owner = c
=============================================================================
