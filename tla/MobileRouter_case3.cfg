SPECIFICATION Spec
CONSTANTS
    NumUplinks = 2
    MNs = {m1, m2}
    CNs = {}
    None = None
    Select = 3
    MaxLate = 1
    RoundMod = 2
    MaxRtrSol = 2
    Case = 3
    Coverage <- RoamingCoverage
    PoAs <- MCPoAs
    Prefixes <- MCPrefixes
    Advertised <- MCAdvertised
    HomeUplink <- MCHomeUplink
SYMMETRY MCSymmetry
CHECK_DEADLOCK FALSE
INVARIANTS TypeOK ContactIsCurrent NoOrphan
