SPECIFICATION FairSpec
CONSTANTS
    NumUplinks = 2
    MNs = {m1}
    CNs = {}
    None = None
    Select = 3
    MaxLate = 1
    RoundMod = 2
    MaxRtrSol = 2
    Case = 2
    Coverage <- FixedCoverage
    PoAs <- MCPoAs
    Prefixes <- MCPrefixes
    Advertised <- MCAdvertised
    HomeUplink <- MCHomeUplink
CHECK_DEADLOCK FALSE
PROPERTIES AttachedRegisters
