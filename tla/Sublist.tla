------------------------------ MODULE Sublist ------------------------------
(***************************************************************************)
(* What is left of a list, in its order, when some places are deleted.     *)
(* SelectSeq says the same by recursion; here the n-th place that is left  *)
(* is the one that has n such places up to it, which a proof can use.      *)
(***************************************************************************)
EXTENDS Integers, FiniteSets

Rank(places, p) == Cardinality({q \in places : q <= p})

Sublist(list, places) ==
    [n \in 1 .. Cardinality(places) |->
        list[CHOOSE p \in places : Rank(places, p) = n]]
=============================================================================
