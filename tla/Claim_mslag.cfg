SPECIFICATION Spec
CONSTANTS
    b1 = b1  b2 = b2  k1 = k1  k2 = k2
    s1 = s1  s2 = s2  s3 = s3  t1 = t1  t2 = t2
    Bmts <- MCBmts
    Kcts <- MCKcts
    Specs <- ThreeSpecs
    Tmpls <- OneTmpl
    Rendered <- RenderThree
    WantsMHC <- MCWantsMHC
    RenderError = RenderError
    None = None
    Lag <- MSLag
    MaxEdits = 2
    MaxFaults = 0
INVARIANTS
    NoMachineSetLosesTemplate
CHECK_DEADLOCK FALSE
