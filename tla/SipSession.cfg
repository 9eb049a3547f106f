SPECIFICATION Spec
CONSTANTS
    MN = mn
    CN = cn
    MN_HA = mnha
    MR_HA = mrha
    MR_IN = mrin
    Prefixes = {p1}
    None = None
    Frags = 2
    MaxChanges = 5
    MaxRegs = 1
    MaxData = 2
    MaxLoss = 1
CHECK_DEADLOCK FALSE
INVARIANTS TypeOK PeersKnown DeliveredWhole
PROPERTIES ReachesRouter HomeFollows CallConnects
