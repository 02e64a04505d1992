------------------------- MODULE MCNodeLabelDelivery -------------------------
(* Small instances of NodeLabelDelivery for TLC.                           *)
EXTENDS NodeLabelDelivery

CONSTANTS
    team, role, host, sel,              \* keys
    v1, v2,
    anyKey, teamKey, roleKey, lookbehind, \* patterns
    m1, m2, kc1, kc2, bad

MCKeys   == {team, role, host, sel}
MCValues == {v1, v2}

MCPatterns == {anyKey, teamKey, roleKey, lookbehind}
MCMatches == [p \in MCPatterns |-> CASE p = anyKey -> MCKeys
                                     [] p = teamKey -> {team}
                                     [] p = roleKey -> {role}
                                     [] p = lookbehind -> {}]
MCBroken == {lookbehind}

\* host stands for kubernetes.io/hostname, sel for the keys of the selector,
\* role for node-role.kubernetes.io/..., team for any other key.
MCSafety   == {host, sel}
MCReserved == {sel}
MCSelector == {sel}
MCCapi     == {role}

L(t, r, h) == [key \in MCKeys |-> CASE key = team -> t [] key = role -> r
                                    [] key = host -> h [] key = sel -> v1]
PlainAndRole == {L(v1, None, None), L(v2, v1, v2)}
OnePlain     == {L(v1, None, None)}

MCDeny  == {{anyKey}, {teamKey, lookbehind}}
MCStrip == {{roleKey}}
One == {m1}
Two == {m1, m2}
MCKubeconfigs == {kc1, kc2, bad}
MCMalformed == {bad}
AllModes == {"observe", "apply", "strip"}
StripOnly == {"strip"}
=============================================================================
