CONSTANTS
    Attempts = {a1, a2, a3}
    MaxHold = 2
    MayEscape = FALSE
    WindowSize = 3
    MinCalls = 2
    FailNum = 1
    FailDen = 2
    ResetTimeout = 3
    HalfOpenMax = 2

SPECIFICATION FairSpec
INVARIANTS
    OnlyProbesInHalfOpen
    ProbeCap
PROPERTIES
    PeriodOfItsProbes
    HalfOpenResolves
    OpenIsProbed
