SPECIFICATION FairSpec
CONSTANTS
    team = team  role = role  host = host  sel = sel
    v1 = v1  v2 = v2
    anyKey = anyKey  teamKey = teamKey  roleKey = roleKey  lookbehind = lookbehind
    m1 = m1  m2 = m2  kc1 = kc1  kc2 = kc2  bad = bad
    None = None  NoClient = NoClient
    Keys <- MCKeys
    Values <- MCValues
    Patterns <- MCPatterns
    Matches <- MCMatches
    Broken <- MCBroken
    SafetyKeys <- MCSafety
    ReservedKeys <- MCReserved
    SelectorKeys <- MCSelector
    CapiKeys <- MCCapi
    Machines <- One
    Templates <- OnePlain
    DenySpecs <- MCStrip
    Kubeconfigs <- MCKubeconfigs
    Malformed <- MCMalformed
    Modes <- StripOnly
    MaxEdits = 2
    MaxFaults = 0
PROPERTIES
    DeniedRemoved
CHECK_DEADLOCK FALSE
