CONSTANTS
    w1 = w1
    w2 = w2
    Event <- MCEvent
    Registered <- MCRegistered
    Revivable <- MCRevivable
    Worker = {w1, w2}
    BatchSize = 2
    MaxAttempts = 2
    MaxCrashes = 1
    MaxDbErrors = 1
    MaxRevives = 1
SPECIFICATION Spec
SYMMETRY Symmetry
INVARIANTS
    ExclusiveClaim
    AttemptsAccounted
    StrandedBound
PROPERTIES
    JobQueueSpec
CHECK_DEADLOCK FALSE
