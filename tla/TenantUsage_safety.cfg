CONSTANTS
    Calls = {c1, c2}
    Window = 2
    ReqRate = 1
    TokRate = 2
    Estimates = {1, 3}
    Actuals = {0, 3}
    Shortfall = 2
    MaxLag = 1
    MaxFlight = 4
    Horizon = 2
    MaxOvertaken = 1

SPECIFICATION FairUsageSpec
INVARIANTS
    DebtBounded
    RequestsInBudget
    TokensInBudget
PROPERTIES
    IsTokenBuckets
    UnreadableOnlyByLateCall
    RefusedBriefly
    KeepsAdmitting
