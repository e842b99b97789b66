SPECIFICATION Spec
CONSTANTS
    r1 = r1
    r2 = r2
    Request = {r1, r2}
    Nickname = {"Yu", "Bao"}
    HardWord = {"knife"}
    SoftWord = {}
    FearWord = {"thunder"}
    BannedIP = {"villain"}
    Named = {2, 3}
    Aibao = {2, 5}
    MaxWrites = 2
SYMMETRY Symmetry
INVARIANT FearsAreHonoured
CHECK_DEADLOCK FALSE
