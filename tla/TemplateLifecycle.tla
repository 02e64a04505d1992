-------------------------- MODULE TemplateLifecycle --------------------------
(***************************************************************************)
(* What the operator promises about the immutable templates of a claim,    *)
(* without reconciles, statuses or caches: a template is created, becomes  *)
(* current together with its partner, is superseded, is deleted once       *)
(* nothing is built on it, and is then struck off the list.  No template   *)
(* is deleted, while the claim is open, before it was superseded.          *)
(***************************************************************************)
CONSTANTS Bmts, Kcts, None

VARIABLES
    life,       \* of the claim: "live", "deleting" or "gone"
    current,    \* the pair of templates the claim runs on, or None
    pending,    \* superseded templates that are not known to be deleted
    present,    \* templates that exist
    used        \* templates a MachineDeployment or a MachineSet is built on

lifecycleVars == <<life, current, pending, present, used>>

Pairs == [bmt : Bmts, kct : Kcts]
Parts(names) == IF names = None THEN {} ELSE {names.bmt, names.kct}

LifecycleInit ==
    life = "live" /\ current = None /\ pending = {} /\ present = {} /\ used = {}

\* Nothing is created for a claim that is gone.
Create(ref) ==
    /\ life # "gone" /\ ref \notin present
    /\ present' = present \cup {ref}
    /\ UNCHANGED <<life, current, pending, used>>

\* Cluster API and the operator build on templates that exist, and stop doing so.
Build(refs) ==
    /\ refs \subseteq present
    /\ life = "gone" => refs = {}
    /\ used' = refs
    /\ UNCHANGED <<life, current, pending, present>>

\* Another pair takes over: what it replaces is superseded, what it contains
\* is wanted again.
Supersede(names) ==
    /\ names # current /\ Parts(names) \subseteq present
    /\ current' = names
    /\ pending' = (pending \cup Parts(current)) \ Parts(names)
    /\ UNCHANGED <<life, present, used>>

Delete(ref) ==
    /\ ref \in present \ used
    /\ life = "live" => ref \in pending
    /\ present' = present \ {ref}
    /\ UNCHANGED <<life, current, pending, used>>

\* What was deleted is struck off.
Retire(refs) ==
    /\ refs \subseteq pending \ present
    /\ pending' = pending \ refs
    /\ UNCHANGED <<life, current, present, used>>

\* The claim is deleted, and gone only when nothing is built on its templates.
Close ==
    /\ \/ life = "live" /\ life' = "deleting"
       \/ life = "live" /\ present = {} /\ life' = "gone"
       \/ life = "deleting" /\ used = {} /\ life' = "gone"
    /\ UNCHANGED <<current, pending, present, used>>

LifecycleNext ==
    \/ \E ref \in Bmts \cup Kcts : Create(ref) \/ Delete(ref)
    \/ \E refs \in SUBSET (Bmts \cup Kcts) : Build(refs) \/ Retire(refs)
    \/ \E names \in Pairs : Supersede(names)
    \/ Close

LifecycleSpec == LifecycleInit /\ [][LifecycleNext]_lifecycleVars
=============================================================================
