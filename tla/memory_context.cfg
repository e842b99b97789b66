SPECIFICATION Spec
CONSTANTS
    MaxStories = 3
    MaxTries = 2
    Workers = 2
    Window = 4
    Slots = 3
    MaxFaults = 2
INVARIANTS
    RepeatsNeedFaults
    SentenceIsTaken
    MissingIsExplained
    HintsCoverStories
CHECK_DEADLOCK FALSE
