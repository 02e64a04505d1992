SPECIFICATION Spec
CONSTANTS
    team = team  role = role  hash = hash  sel = sel
    v1 = v1  v2 = v2  badValue = badValue
    roleKey = roleKey  lookbehind = lookbehind
    a = a  b = b  c = c
    x1 = x1  x2 = x2  t1 = t1  t2 = t2  u1 = u1  u2 = u2
    None = None  RenderError = RenderError  Null = Null
    Keys <- MCKeys
    Values <- MCValues
    Patterns <- MCPatterns
    Matches <- MCMatches
    Broken <- MCBroken
    SafetyKeys <- MCReserved
    ReservedKeys <- MCReserved
    SelectorKeys <- MCSelector
    BookkeepingKeys <- MCBookkeeping
    Claims <- MCNamesakes
    Specs <- MCSpecs
    MachineTemplates <- MCMachineTemplates
    BootstrapTemplates <- MCBootstrapTemplates
    DenySpecs <- MCDeny
    Invalid <- MCInvalid
    Settings <- MCSettings
    DefaultKubelet <- MCDefaultKubelet
    Timeouts <- MCTimeouts
    MaxEdits = 0
INVARIANTS
    OwnResources
