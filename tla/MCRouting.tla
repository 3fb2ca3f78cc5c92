------------------------------ MODULE MCRouting ------------------------------
EXTENDS Routing, TLC

CONSTANTS p1, p2, p3

\* The configured order is not the cheapest one, and the last target is local.
Served == <<p1, p2, p3>>
Weights == <<1, 0, 2>>
Prices == <<3, 2, Unpriced>>

RequestSymmetry == Permutations(Requests)
=============================================================================
