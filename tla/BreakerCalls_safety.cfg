CONSTANTS
    Attempts = {a1, a2, a3}
    MaxHold = 3
    MayEscape = TRUE
    WindowSize = 4
    MinCalls = 3
    FailNum = 1
    FailDen = 2
    ResetTimeout = 2
    HalfOpenMax = 1

SPECIFICATION Spec
SYMMETRY CallSymmetry
INVARIANTS
    ProbesAccounted
    OverThresholdOnlyAfterSuccess
PROPERTIES
    TripNeedsEvidence
    CoolingOff
