SPECIFICATION FairSpec
CONSTANTS
    Call <- MCCall
    Priced <- MCPriced
    Request <- MCRequest
    NoTrace = "00000000"
    QueueCapacity = 2
    MaxBatch = 1
    MaxDbFailures = 1
    MaxStops = 1
INVARIANTS
    LossIsAccounted
    WaitIsBounded
PROPERTY QueueDrains
