SPECIFICATION LinkSpec
CONSTANTS
    NDs = {n1}
    Prefixes = {p1}
    Prefix = p1
    Broadcast = TRUE
    Targets = {}
    MaxRtrSol = 3
    MinInterval = 2
    MaxInterval = 5
    MinDelay = 3
    MaxRADelay = 1
    MaxSwitches = 2
    MaxLoss = 2
INVARIANTS TypeOK AtMostMaxRS AnswerDeadline
PROPERTIES SolicitationEnds LearnsPrefix
