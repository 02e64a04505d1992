---------------------------- MODULE OrphanCleaner ----------------------------
(***************************************************************************)
(* The periodic OrphanCleaner (internal/controller/orphan.go) running      *)
(* beside the reconciler of ClaimController in the same process: both      *)
(* delete BMTs and KCTs, and neither locks the other out.                  *)
(*                                                                         *)
(* A pass lists the BMTs, the KCTs and the claims in three calls and then  *)
(* deletes by name.  The deletions carry no precondition, so what was read *)
(* may have changed by the time they are done.                             *)
(***************************************************************************)
EXTENDS ClaimController

VARIABLES
    aged,       \* templates created at least the grace period ago
    cpc,        \* where the pass is
    listed,     \* templates the pass has listed
    old,        \* those whose creationTimestamp is the grace period ago by now
    orphans     \* templates it has decided to delete

cleanerVars == <<aged, cpc, listed, old, orphans>>
allVars     == <<vars, cleanerVars>>

\* Type invariant: ages are kept of templates that exist, and a pass is about to
\* delete only what it has listed and seen to be older than the grace period.
CleanerTypeOK ==
    /\ aged \subseteq templates
    /\ cpc \in {"wait", "listKCTs", "listClaims", "delete"}
    /\ listed \subseteq Refs /\ old \subseteq listed /\ orphans \subseteq old

CleanerInit == Init /\ aged = {} /\ cpc = "wait" /\ listed = {} /\ old = {} /\ orphans = {}

\* The claim is asleep, or waits for a periodic requeue (during a rollout, in
\* phase Failed, while the MD is being deleted) or in the backoff after errors:
\* only then does a time pass that is long compared with a reconcile.
TimePasses ==
    /\ pc = "idle"
    /\ \/ ~queued
       \/ claim.status.started
       \/ claim.status.phase \in {"Failed", "Deleting"}
       \/ faults > 0

\* Templates that exist become older than the grace period (10 minutes), and so do
\* the copies of them that a pass holds.
GracePasses ==
    /\ TimePasses /\ (aged # templates \/ old # listed)
    /\ aged' = templates /\ old' = listed
    /\ UNCHANGED <<vars, cpc, listed, orphans>>

\* The ticker fires: list the BMTs (unstructured, read from the API server).
ListBMTs ==
    /\ cpc = "wait" /\ cpc' = "listKCTs"
    /\ listed' = templates \cap Bmts /\ old' = aged \cap Bmts
    /\ UNCHANGED <<vars, aged, orphans>>

\* Mutant: the KCTs are forgotten.
ListKCTsSkipped ==
    /\ cpc = "listKCTs" /\ cpc' = "listClaims"
    /\ UNCHANGED <<vars, aged, listed, old, orphans>>

\* List the KCTs (from the cache).
ListKCTs ==
    /\ cpc = "listKCTs" /\ cpc' = "listClaims"
    /\ listed' = listed \cup SeenKCT /\ old' = old \cup (aged \cap SeenKCT)
    /\ UNCHANGED <<vars, aged, orphans>>

\* Names in currentTemplates and pendingDeletion of every claim listed.
FindReferencedTemplates(c) ==
    IF c.life = "gone" THEN {} ELSE RefsOf(c.status.current) \cup c.status.pending

IsOrphanTemplate(ref, referenced) == ref \notin referenced /\ ref \in old

\* Mutant: the grace period is not looked at.
ListClaimsAnyAge ==
    /\ cpc = "listClaims" /\ cpc' = "delete"
    /\ orphans' = listed \ FindReferencedTemplates(SeenClaim)
    /\ UNCHANGED <<vars, aged, listed, old>>

\* List the claims (from the cache) and decide.
ListClaims ==
    /\ cpc = "listClaims" /\ cpc' = "delete"
    /\ orphans' = {ref \in listed :
                     IsOrphanTemplate(ref, FindReferencedTemplates(SeenClaim))}
    /\ UNCHANGED <<vars, aged, listed, old>>

DeleteOrphan(ref) ==
    /\ cpc = "delete" /\ ref \in orphans
    /\ templates' = templates \ {ref}
    /\ aged' = aged \ {ref}
    /\ orphans' = orphans \ {ref}
    /\ UNCHANGED <<claim, tmpl, md, machineSets, mhc, overdue, cache, reconVars,
                   edits, faults, cpc, listed, old>>

EndPass ==
    /\ cpc = "delete" /\ orphans = {}
    /\ cpc' = "wait" /\ listed' = {} /\ old' = {}
    /\ UNCHANGED <<vars, aged, orphans>>

\* A list fails and ends the pass, a deletion fails and is skipped, or the
\* operator crashes.
CleanerFault ==
    /\ cpc # "wait" /\ faults < MaxFaults /\ faults' = faults + 1
    /\ \/ cpc' = "wait" /\ listed' = {} /\ old' = {} /\ orphans' = {}
       \/ /\ \E ref \in orphans : orphans' = orphans \ {ref}
          /\ UNCHANGED <<cpc, listed, old>>
    /\ UNCHANGED <<claim, tmpl, templates, md, machineSets, mhc, overdue, cache,
                   reconVars, edits, aged>>

CleanupOnce == ListBMTs \/ ListKCTs \/ ListClaims \/ (\E ref \in Refs : DeleteOrphan(ref))
               \/ EndPass

\* A step of everything else; a template created again starts a new age.
ControllerStep ==
    /\ Next
    /\ aged' = aged \cap templates'
    /\ UNCHANGED <<cpc, listed, old, orphans>>

OperatorNext == ControllerStep \/ GracePasses \/ CleanupOnce \/ CleanerFault

OperatorSpec == CleanerInit /\ [][OperatorNext]_allVars

OperatorFairSpec ==
    /\ OperatorSpec
    /\ WF_allVars(ReconcileStep /\ ControllerStep) /\ WF_allVars(Capi /\ ControllerStep)
    /\ WF_allVars(GarbageCollect /\ ControllerStep)
    /\ WF_allVars(GracePasses) /\ WF_allVars(CleanupOnce)

-----------------------------------------------------------------------------

\* Templates the stored status of a claim accounts for.
Tracked == FindReferencedTemplates(claim)

\* Every template that a crash or a refused status write has cost its entry in
\* the status is collected in the end.
LeaksCollected == <>[](templates \subseteq Tracked)

-----------------------------------------------------------------------------
(* What the documentation says and the code does not do                    *)

\* docs/OPERATOR-SPEC.md, Appendix B: "the old BMT is deleted ONLY AFTER the
\* rollout completed", and 9.6: a template that is replaced during a rollout, "the
\* intermediate one" included, is in pendingDeletion.  pendingDeletion is only saved
\* after the MD was updated, and a write of the user in between makes the API server
\* refuse it; a template that is recorded nowhere is an orphan to the cleaner, which
\* looks at no MachineSet.
RolloutKeepsTemplates ==
    [][\A ref \in orphans \ orphans' :
           (ref \in templates \ templates' /\ claim.status.started) => ref \notin InUse]_allVars
=============================================================================
