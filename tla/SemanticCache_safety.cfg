CONSTANTS
    Clients = {c1, c2}
    Scopes = {"s1", "s2"}
    Questions <- Prompts
    Requests <- Asked
    Similarity <- Likeness
    Threshold = 2
    TTL = 2
    MaxEntries = 3
    TopK = 2
    MaxSets = 4

SPECIFICATION Spec
SYMMETRY ClientSymmetry
INVARIANTS
    OneView
PROPERTIES
    IsAnswerStore
    MissesOnlyBehindExpired
