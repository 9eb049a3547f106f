SPECIFICATION Spec
CONSTANTS
    NumUplinks = 3
    MNs = {m1, m2, m3}
    CNs = {c1}
    Prefixes = {p1, p2}
    None = None
    Select = 3
    Readdress = TRUE
    MaxLate = 2
    RoundMod = 6
    HomeUplink <- MCHomeUplink
SYMMETRY MCSymmetry
CHECK_DEADLOCK FALSE
INVARIANTS TypeOK BoundToLive ForwardAssert NoOrphan OutThroughLive
PROPERTIES ImplementsService
