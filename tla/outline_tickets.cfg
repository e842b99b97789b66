SPECIFICATION FairSpec
CONSTANTS
    c1 = c1
    c2 = c2
    alice = alice
    visit = visit
    Client = {c1, c2}
    Account <- MCAccount
    MaxOutlines = 2
    UserSweep = {visit}
    Housekeeper = Housekeeper
    BatchLimit = 1
    MaxFaults = 1
INVARIANTS
    ReplayBound
    ExpiredWasUnused
    RefreshRetires
    ExpiredBound
PROPERTIES
    EveryTicketEnds
    TicketSpec
CHECK_DEADLOCK FALSE
