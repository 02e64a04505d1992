--------------------------- MODULE NodeLabelPolicy ---------------------------
(***************************************************************************)
(* Which label keys are allowed (internal/nodelabels/policy.go) and the    *)
(* validation of a claim's nodeLabels (internal/validation/nodelabels.go). *)
(*                                                                         *)
(* A regular expression is the set of keys it matches; some expressions do *)
(* not compile.  A label set is a function on all keys, None where there   *)
(* is no label.                                                            *)
(***************************************************************************)
EXTENDS Naturals, FiniteSets

CONSTANTS
    Keys,
    Values, None,
    Patterns,       \* deny patterns an administrator can write
    Matches,        \* [Patterns -> SUBSET Keys]
    Broken,         \* the patterns RE2 does not compile
    SafetyKeys,     \* keys matched by nodeSafetyPatterns
    ReservedKeys,   \* keys matched by claimReservedPatterns
    SelectorKeys    \* keys of a MachineDeployment's selector

ASSUME PolicyAssumption ==
    /\ None \notin Values
    /\ Matches \in [Patterns -> SUBSET Keys]
    /\ Broken \subseteq Patterns
    /\ SafetyKeys \subseteq Keys /\ ReservedKeys \subseteq Keys /\ SelectorKeys \subseteq Keys

LabelSets == [Keys -> Values \cup {None}]
NoLabels  == [key \in Keys |-> None]

Present(labels) == {key \in Keys : labels[key] # None}

\* labels without the keys outside S.
Only(S, labels) == [key \in Keys |-> IF key \in S THEN labels[key] ELSE None]

\* The labels of a MachineDeployment's template minus the selector's: the user's.
userLabels(labels) == Only(Keys \ SelectorKeys, labels)

Policies == [safety : SUBSET Keys, deny : SUBSET Patterns, skipped : SUBSET Patterns]

\* The floor plus the deny patterns that compile.
newPolicy(base, denyPatterns) ==
    [safety |-> base, deny |-> denyPatterns \ Broken, skipped |-> denyPatterns \cap Broken]

NewNodePolicy(denyPatterns)  == newPolicy(SafetyKeys, denyPatterns)
NewClaimPolicy(denyPatterns) == newPolicy(ReservedKeys, denyPatterns)

MatchedBy(patterns, key) == \E p \in patterns : key \in Matches[p]

Denies(policy, key) == key \in policy.safety \/ MatchedBy(policy.deny, key)

\* Mutant: the safety floor is not looked at.
RemovableAnywhere(policy, key) == MatchedBy(policy.deny, key)

\* Safety-floor keys are never taken off a Node.
Removable(policy, key) == key \notin policy.safety /\ MatchedBy(policy.deny, key)

\* The allowed part of a label set.
Filter(policy, labels) == Only({key \in Keys : ~Denies(policy, key)}, labels)

CompiledPatterns(policy) == Cardinality(policy.deny)
SkippedPatterns(policy)  == policy.skipped
=============================================================================
