SPECIFICATION Spec
CONSTANTS
    APs = {a1, a2}
    None = None
    Limit = 3
    MaxResp = 2
CHECK_DEADLOCK FALSE
INVARIANTS TypeOK EventsMatch PendingIsServed
PROPERTIES Associates LeavesLostAP
