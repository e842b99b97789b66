CONSTANTS
    w1 = w1
    w2 = w2
    Stories = 1
    Worker = {w1, w2}
    Event = {1, 2}
    Registered = {1, 2}
    Revivable = {2}
    BatchSize = 2
    MaxAttempts = 1
    MaxCrashes = 1
    MaxDbErrors = 1
    MaxRevives = 2
    DbMayFail = TRUE
    GatewayMayFail = TRUE
SPECIFICATION PipelineSpec
SYMMETRY Symmetry
CHECK_DEADLOCK FALSE
INVARIANTS ReadyIsPlayable DoneMeansDelivered
PROPERTIES ReadyIsFinal
