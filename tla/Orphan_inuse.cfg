SPECIFICATION OperatorSpec
CONSTANTS
    b1 = b1  b2 = b2  k1 = k1  k2 = k2
    s1 = s1  s2 = s2  s3 = s3  t1 = t1
    Bmts <- MCBmts
    Kcts <- MCKcts
    Specs <- ThreeSpecs
    Tmpls <- OneTmpl
    Rendered <- RenderThree
    WantsMHC <- NoMHC
    RenderError = RenderError
    None = None
    Lag <- NoLag
    MaxEdits = 2
    MaxFaults = 0
PROPERTIES
    RolloutKeepsTemplates
