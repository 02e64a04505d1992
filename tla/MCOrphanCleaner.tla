--------------------------- MODULE MCOrphanCleaner ---------------------------
(* Small instances of OrphanCleaner for TLC.                               *)
EXTENDS OrphanCleaner

CONSTANTS b1, b2, k1, k2, s1, s2, s3, t1

MCBmts == {b1, b2}
MCKcts == {k1, k2}
P(b, k) == [bmt |-> b, kct |-> k]

OneTmpl == {t1}
ThreeSpecs == {s1, s2, s3}
RenderThree ==
    [x \in ThreeSpecs \X OneTmpl |->
        CASE x[1] = s1 -> P(b1, k1)
          [] x[1] = s2 -> P(b2, k1)
          [] x[1] = s3 -> P(b1, k2)]

\* Two specs that differ in the KCT.
TwoSpecs == {s1, s2}
RenderTwo == [x \in TwoSpecs \X OneTmpl |-> IF x[1] = s1 THEN P(b1, k1) ELSE P(b1, k2)]

NoMHC == {}
NoLag == {}
=============================================================================
