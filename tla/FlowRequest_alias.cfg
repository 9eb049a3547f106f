SPECIFICATION MCSpec
CONSTANTS
    Flows = {f1}
    Ifaces <- MCIfaces
    Quality <- MCQuality
    MaxSeq = 2
    MaxNet = 3
    MaxListed = 2
    MaxLinks = 3
PROPERTIES MovesWhereAccepted
CHECK_DEADLOCK FALSE
