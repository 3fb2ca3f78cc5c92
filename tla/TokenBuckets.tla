---------------------------- MODULE TokenBuckets ----------------------------
(***************************************************************************)
(* What the rate limiter promises a tenant: two token buckets, one for     *)
(* requests and one for tokens, that refill continuously up to their       *)
(* capacity and are charged together or not at all.  A charge that turns   *)
(* out wrong is corrected later in the token bucket.                       *)
(*                                                                         *)
(* There are no keys, clocks or stamps here, except that a check may be    *)
(* dated a little back: a bucket is then charged as if at that time, and   *)
(* may get the refill of the time since once more, at most ReqSlack and    *)
(* TokSlack.  With no slack the buckets are exact.                         *)
(*                                                                         *)
(* RateLimiter.tla is shown to implement this.                             *)
(***************************************************************************)
EXTENDS Integers

CONSTANTS ReqRate, ReqCap, ReqSlack, TokRate, TokCap, TokSlack, Estimates, Actuals

VARIABLES reqLevel, tokLevel

vars == <<reqLevel, tokLevel>>

Capped(level, cap) == IF level > cap THEN cap ELSE level

Init == reqLevel = ReqCap /\ tokLevel = TokCap

Charged(before, after, cost, slack, cap) ==
    before - cost <= after /\ after <= Capped(before - cost + slack, cap)

\* Both buckets have what the request needs: both are charged.
Admit(cost) ==
    /\ reqLevel >= 1 /\ tokLevel >= cost
    /\ Charged(reqLevel, reqLevel', 1, ReqSlack, ReqCap)
    /\ Charged(tokLevel, tokLevel', cost, TokSlack, TokCap)

\* One has not: neither is charged.
Refuse ==
    /\ Charged(reqLevel, reqLevel', 0, ReqSlack, ReqCap)
    /\ Charged(tokLevel, tokLevel', 0, TokSlack, TokCap)

\* A refund of what was charged too much, never beyond the capacity.
Refund(surplus) ==
    /\ tokLevel' = Capped(tokLevel + surplus, TokCap)
    /\ UNCHANGED reqLevel

\* What was charged too little is taken, and may leave a debt.  The refill that
\* a full bucket had no room for may make up for a part of it.
Surcharge(missing) ==
    /\ tokLevel - missing <= tokLevel' /\ tokLevel' <= tokLevel
    /\ UNCHANGED reqLevel

Refill ==
    /\ reqLevel' = Capped(reqLevel + ReqRate, ReqCap)
    /\ tokLevel' = Capped(tokLevel + TokRate, TokCap)

Next ==
    \/ \E cost \in Estimates : Admit(cost)
    \/ Refuse
    \/ \E cost \in Estimates, actual \in Actuals :
          IF actual < cost THEN Refund(cost - actual) ELSE Surcharge(actual - cost)
    \/ Refill

Spec == Init /\ [][Next]_vars
=============================================================================
