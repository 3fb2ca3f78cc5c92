------------------------------ MODULE MCGateway ------------------------------
EXTENDS Gateway, TLC

Symmetry == Permutations(Requests) \cup Permutations(Tenants)
=============================================================================
