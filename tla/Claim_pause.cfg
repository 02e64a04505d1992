SPECIFICATION Spec
CONSTANTS
    b1 = b1  b2 = b2  k1 = k1  k2 = k2
    s1 = s1  s2 = s2  s3 = s3  t1 = t1  t2 = t2
    Bmts <- MCBmts
    Kcts <- MCKcts
    Specs <- TwoSpecs
    Tmpls <- OneTmpl
    Rendered <- RenderTwo
    WantsMHC <- MCWantsMHC
    RenderError = RenderError
    None = None
    Lag <- NoLag
    MaxEdits = 1
    MaxFaults = 0
INVARIANTS
    PauseIsReported
CHECK_DEADLOCK FALSE
