SPECIFICATION Spec
CONSTANTS
    Flaky = {1}
    Lossy = TRUE
    MaxLinkEvents = 1
    MaxData = 3
CHECK_DEADLOCK FALSE
INVARIANTS HomeAssert
