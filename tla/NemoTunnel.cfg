SPECIFICATION FairSpec
CONSTANTS
    Flaky = {1}
    Lossy = TRUE
    MaxLinkEvents = 2
    MaxData = 2
CHECK_DEADLOCK FALSE
INVARIANTS TypeOK TunnelsMatch DeliveredClean EntriesFound InboundLive
PROPERTIES Drains
