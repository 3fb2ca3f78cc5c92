---------------------------- MODULE MCExecutor ----------------------------
EXTENDS Executor, TLC

CONSTANTS p1, p2, p3

BackedUp == {<<p1, p2>>}                 \* a primary and its fallback
Balanced == {<<p1, p1, p2>>}             \* two models of one provider first
Mixed    == {<<p1, p1>>, <<p3, p1, p2>>}   \* balanced; p3 is not configured

RequestSymmetry == Permutations(Requests)
=============================================================================
