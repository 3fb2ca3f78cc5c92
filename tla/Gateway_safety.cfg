CONSTANTS
    Requests = {r1, r2, r3}
    Tenants = {t1, t2}
    Prompts = {p1}
    Estimates = {2}
    Usages = {1, 3}
    RedisMayFail = TRUE
    MayCrash = TRUE
    MayDisconnect = TRUE

SPECIFICATION Spec
SYMMETRY Symmetry
INVARIANTS
    ChargesAreOwed
    CountedAsAnswered
    AnswersStayWithTenant
    BilledIfComplete
    ModelLoadedOnce
