SPECIFICATION LoginSpec
CONSTANTS
    Phone <- MCPhone
    Sender <- MCSender
    Attempt <- MCAttempt
    PhoneOf <- MCPhoneOf
    None = None
    MaxFaults = 2
INVARIANTS
    OneAccountPerPhone
    FailuresNeedFaults
PROPERTIES
    SpentCodeIsRefused
    CooldownGuardsCode
    LostCodeNeedsOldCode
CHECK_DEADLOCK FALSE
