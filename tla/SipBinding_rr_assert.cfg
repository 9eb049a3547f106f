SPECIFICATION Spec
CONSTANTS
    NumUplinks = 2
    MNs = {m1, m2, m3, m4}
    CNs = {c1}
    Prefixes = {p1}
    None = None
    Select = 2
    Readdress = FALSE
    MaxLate = 1
    RoundMod = 6
    HomeUplink <- MCHomeUplink
SYMMETRY MCSymmetry
CHECK_DEADLOCK FALSE
INVARIANTS ForwardAssert

