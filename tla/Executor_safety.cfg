CONSTANTS
    p1 = p1
    p2 = p2
    p3 = p3
    Providers = {p1, p2, p3}
    Configured = {p1, p2}
    Healthy = {}
    Routes <- Mixed
    Requests = {r1, r2}
    Deadline = 1
    BaseDelay = 1
    MaxDelay = 1
    LongestCall = 2
    MayEscape = TRUE
    WindowSize = 2
    MinCalls = 2
    FailNum = 1
    FailDen = 2
    ResetTimeout = 2
    HalfOpenMax = 1

SPECIFICATION Spec
SYMMETRY RequestSymmetry
INVARIANTS
    DeadlineBoundsCalls
    OpenGoesQuiet
PROPERTIES
    NoTargetPassedOver
    OpenedByOwnFailure
    ImplementsBreakerCalls
