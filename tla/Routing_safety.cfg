CONSTANTS
    p1 = p1
    p2 = p2
    p3 = p3
    Requests = {r1, r2}
    Providers = {p1, p2, p3}
    Provider <- Served
    Weight <- Weights
    Price <- Prices
    Unpriced = Unpriced
    Latencies = {1, 2, 3}
    AlphaNum = 3
    AlphaDen = 10
    MaxSamples = 2
    Scale = 10

SPECIFICATION Spec
SYMMETRY RequestSymmetry
INVARIANTS
    ColdIsLast
    CheaperTriedFirst
PROPERTIES
    FasterComesFirst
