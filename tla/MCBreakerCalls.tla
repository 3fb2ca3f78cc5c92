-------------------------- MODULE MCBreakerCalls --------------------------
EXTENDS BreakerCalls, TLC

CallSymmetry == Permutations(Attempts)
=============================================================================
