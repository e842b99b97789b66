SPECIFICATION Spec
CONSTANTS
    User <- People2
    MaxTokens = 2
    MaxClicks = 4
INVARIANTS
    TokenMatchesSession
    ShownChildIsOwn
PROPERTY Settles
CHECK_DEADLOCK FALSE
