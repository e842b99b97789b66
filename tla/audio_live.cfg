CONSTANTS
    w1 = w1
    w2 = w2
    Stories = 1
    Worker = {w1}
    Event = {1, 2}
    Registered = {1, 2}
    Revivable = {2}
    BatchSize = 2
    MaxAttempts = 2
    MaxCrashes = 0
    MaxDbErrors = 0
    MaxRevives = 1
    DbMayFail = FALSE
    GatewayMayFail = TRUE
SPECIFICATION PipelineFairSpec
CHECK_DEADLOCK FALSE
INVARIANTS BuriedIsReported
PROPERTIES EveryEventSettles PollingEnds
