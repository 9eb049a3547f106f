SPECIFICATION MCSpec
CONSTANTS
    Flows = {f1, f2}
    Ifaces <- MCIfaces
    Quality <- MCQuality
    MaxSeq = 2
    MaxNet = 3
    MaxListed = 2
    MaxLinks = 3
INVARIANTS TypeOK MovesBacked
PROPERTIES NeverWorse TimerStops
CHECK_DEADLOCK FALSE
