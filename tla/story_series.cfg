SPECIFICATION Spec
CONSTANTS
    r1 = r1
    r2 = r2
    l1 = l1
    Request = {r1, r2}
    Line = {l1}
    Target = 2
    Limit = 1
    MaxEpisodes = 3
    MaxFaults = 1
SYMMETRY Symmetry
INVARIANTS
    CountLagsBounded
    NumberAtMostRank
    StoredTextIsBest
    BudgetOvershoot
CHECK_DEADLOCK FALSE
