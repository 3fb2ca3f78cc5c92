CONSTANTS
    Attempts = {a1, a2}
    MaxHold = 3
    MayEscape = TRUE
    WindowSize = 3
    MinCalls = 2
    FailNum = 1
    FailDen = 2
    ResetTimeout = 2
    HalfOpenMax = 1

SPECIFICATION FairSpec
PROPERTIES
    HalfOpenResolves
