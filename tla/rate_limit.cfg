SPECIFICATION RateSpec
CONSTANTS
    Window = 2
    MaxPerWindow = 2
    MaxTime = 5
    MaxCalls = 5
    MaxRedisFaults = 1
INVARIANTS
    WindowIsBounded
    RefusalNeedsChain
CHECK_DEADLOCK FALSE
