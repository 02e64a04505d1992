--------------------------- MODULE MCClaimObjects ---------------------------
(* Small instances of ClaimObjects for TLC.                                *)
EXTENDS ClaimObjects, TLC

CONSTANTS
    team, role, hash, sel,      \* keys; hash stands for machine-template-hash
    v1, v2, badValue,
    roleKey, lookbehind,        \* patterns
    a, b, c,                    \* words of names
    x1, x2, t1, t2, u1, u2

MCKeys     == {team, role, hash, sel}
MCValues   == {v1, v2, badValue}
MCInvalid  == {badValue}
MCPatterns == {roleKey, lookbehind}
MCMatches  == [p \in MCPatterns |-> IF p = roleKey THEN {role} ELSE {}]
MCBroken   == {lookbehind}
MCReserved == {hash, sel}
MCSelector == {sel}
MCBookkeeping == {hash}
MCDeny     == {{}, {roleKey, lookbehind}}

Claim(cluster, name, selector) == [cluster |-> cluster, name |-> name, selector |-> selector]
MCClaims    == {Claim(<<a>>, <<b>>, v1), Claim(<<a>>, <<b, c>>, v2)}
MCNamesakes == {Claim(<<a>>, <<b, c>>, v1), Claim(<<a, b>>, <<c>>, v2)}

L(t, r, h, s) == [key \in MCKeys |-> CASE key = team -> t [] key = role -> r
                                       [] key = hash -> h [] key = sel -> s]

\* cpu, zone and dns are the users' variables (no template uses zone), maxPods and swap kubelet settings.
Bootstrap(d, l) == [x \in {"dns", "nodeLabels", "machineDeploymentName", "__kubeletConfigYaml"} |->
                      CASE x = "dns" -> d [] x = "nodeLabels" -> l [] OTHER -> None]
Infra(cpu, zone) == [x \in {"cpu", "zone"} |-> IF x = "cpu" THEN cpu ELSE zone]
Base ==
    [infrastructure |-> Infra(x1, None), bootstrap |-> Bootstrap(x1, None),
     labels |-> L(v1, v1, None, None), kubelet |-> [x \in {"maxPods", "swap"} |-> None],
     replicas |-> 1, version |-> x1, strategy |-> None, taints |-> {},
     deletion |-> [x \in {"drain", "detach"} |-> None], healing |-> TRUE]

\* A claim that asks for everything, ones that differ from Base in one part,
\* and ones that cannot be rendered.
MCSpecs ==
    {Base,
     [infrastructure |-> Infra(x2, None), bootstrap |-> Bootstrap(x2, x2),
      labels |-> L(v2, v1, v2, v2), kubelet |-> [x \in {"maxPods", "swap"} |-> x2],
      replicas |-> 2, version |-> x2, strategy |-> [rolling |-> x1, deletePolicy |-> x1],
      taints |-> {x1}, deletion |-> [x \in {"drain", "detach"} |-> IF x = "drain" THEN x1 ELSE None],
      healing |-> FALSE],
     [Base EXCEPT !.version = x2, !.replicas = 2],
     [Base EXCEPT !.strategy = [rolling |-> x1, deletePolicy |-> None]],
     [Base EXCEPT !.kubelet["maxPods"] = x2],
     [Base EXCEPT !.labels = L(v1, v2, v2, v2)],
     [Base EXCEPT !.infrastructure = Infra(x1, Null)],
     [Base EXCEPT !.infrastructure = Infra(None, x1), !.bootstrap = Bootstrap(x2, None)],
     [Base EXCEPT !.labels[team] = badValue]}

MCSettings == {"maxPods", "swap"}
MCDefaultKubelet == [x \in MCSettings |-> IF x = "maxPods" THEN x1 ELSE None]

T(text, parses, builds, uses) ==
    [text |-> text, parses |-> parses, builds |-> builds, uses |-> uses]
BootstrapUses == {"dns", "nodeLabels", "machineDeploymentName", "__kubeletConfigYaml"}
MCMachineTemplates == {T(t1, TRUE, TRUE, {"cpu"}), T(t2, TRUE, FALSE, {"cpu"})}
MCBootstrapTemplates ==
    {T(t1, TRUE, TRUE, BootstrapUses), T(t2, TRUE, FALSE, {}), T(t2, FALSE, TRUE, {})}
MCTimeouts == {u1, u2}
TimeoutSymmetry == Permutations(MCTimeouts)
=============================================================================
