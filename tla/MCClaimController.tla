-------------------------- MODULE MCClaimController --------------------------
(* Small instances of ClaimController for TLC.                             *)
EXTENDS ClaimController

CONSTANTS b1, b2, k1, k2, s1, s2, s3, t1, t2

MCBmts  == {b1, b2}
MCKcts  == {k1, k2}

P(b, k) == [bmt |-> b, kct |-> k]

\* Two specs that differ in the machine template and in autohealing, one
\* version of the shared templates.
TwoSpecs == {s1, s2}
OneTmpl  == {t1}
RenderTwo == [x \in TwoSpecs \X OneTmpl |-> IF x[1] = s1 THEN P(b1, k1) ELSE P(b2, k1)]

\* Two specs that share no template.
RenderApart == [x \in TwoSpecs \X OneTmpl |-> IF x[1] = s1 THEN P(b1, k1) ELSE P(b2, k2)]

\* A template version that changes the KCT of one spec and breaks the other.
TwoTmpls == {t1, t2}
RenderBreaks ==
    [x \in TwoSpecs \X TwoTmpls |->
        CASE x = <<s1, t1>> -> P(b1, k1)
          [] x = <<s2, t1>> -> P(b2, k1)
          [] x = <<s1, t2>> -> P(b1, k2)
          [] x = <<s2, t2>> -> RenderError]

\* Three specs, so that a rollout can be overtaken by another one.
ThreeSpecs == {s1, s2, s3}
RenderThree ==
    [x \in ThreeSpecs \X OneTmpl |->
        CASE x[1] = s1 -> P(b1, k1)
          [] x[1] = s2 -> P(b2, k1)
          [] x[1] = s3 -> P(b2, k2)]

MCWantsMHC == {s1}
NoLag == {}
ClaimLag == {"claim"}
MDLag    == {"md"}
MSLag    == {"ms"}
KCTLag   == {"kct"}
AllLag   == {"claim", "md", "ms", "kct"}
=============================================================================
