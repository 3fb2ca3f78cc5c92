CONSTANTS
    Usages = {1, 2}
    NoUsage = NoUsage
    MaxChunks = 4

SPECIFICATION FairSpec
CHECK_DEADLOCK FALSE
INVARIANTS
    WholeWhenCompleted
    UsageOnLastOnly
    Backpressure
    ReleasedBeforeSettled
PROPERTIES
    IsChunkStream
    AlwaysSettled
