SPECIFICATION MCSpec
CONSTANTS
    OneMN = o
    FewMNs = {f1, f2}
    ManyMNs = {m1, m2, m3, m4}
    CNs = {c1}
    Prefixes = {p1, p2}
    None = None
SYMMETRY MCSymmetry
CHECK_DEADLOCK FALSE
INVARIANTS PolicyBoundToLive PolicyOneEntry
PROPERTIES PolicyLosesOnlyLast RoundEvenSpread RoundRenewShare
