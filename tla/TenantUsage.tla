---------------------------- MODULE TenantUsage ----------------------------
(***************************************************************************)
(* What the limiter lets through (gateway/ratelimit/limiter.py): the       *)
(* requests it admits and the tokens it charges for them in any interval,  *)
(* whatever the buckets held when it began, against capacity and refill.   *)
(*                                                                         *)
(* The behaviours are those of RateLimiter, with counters.  Restart begins *)
(* the next interval.                                                      *)
(***************************************************************************)
EXTENDS RateLimiter

CONSTANTS
    Horizon,        \* longest interval that is counted, in ticks
    MaxOvertaken    \* most overtaken scripts in an interval that is counted

ASSUME UsageAssumption == Horizon \in Nat /\ MaxOvertaken \in Nat

VARIABLE use    \* since the interval began: ticks, scripts that were overtaken,
                \* requests admitted, tokens charged less those refunded

Nothing == [ticks |-> 0, overtaken |-> 0, admitted |-> 0, tokens |-> 0]

UsageInit == Init /\ use = Nothing

Restart ==
    /\ use # Nothing
    /\ use' = Nothing
    /\ UNCHANGED vars

TickCounted ==
    /\ use.ticks < Horizon
    /\ Tick
    /\ use' = [use EXCEPT !.ticks = @ + 1]

\* The script's now is older than the ts it finds: it ran out of turn, its elapsed
\* is negative, and it sets ts back.
Overtaken(c) ==
    \E h \in {req, tok} : h.kind = "whole" /\ h.age < calls[c].for

ScriptCounted(c) ==
    /\ Script(c)
    /\ Overtaken(c) => use.overtaken < MaxOvertaken
    /\ LET admitted == calls'[c].pc = "admitted"
       IN  use' = [use EXCEPT
              !.overtaken = IF Overtaken(c) THEN @ + 1 ELSE @,
              !.admitted  = IF admitted THEN @ + 1 ELSE @,
              !.tokens    = IF admitted THEN @ + calls[c].est ELSE @]

\* A correction counts when it is a refund: what was charged too little is not
\* the limiter's decision.
ReconcileCounted(c) ==
    /\ Reconcile(c)
    /\ use' = [use EXCEPT
          !.tokens = IF tok'.tokens > tok.tokens THEN @ - (tok'.tokens - tok.tokens) ELSE @]

Uncounted(c) ==
    /\ Check(c) \/ ScriptFails(c) \/ EndUnreconciled(c)
    /\ UNCHANGED use

UsageNext ==
    \/ Restart
    \/ TickCounted
    \/ \E c \in Calls : ScriptCounted(c) \/ ReconcileCounted(c) \/ Uncounted(c)

UsageSpec == UsageInit /\ [][UsageNext]_<<vars, use>>

\* An interval that would outgrow its bounds must first give way to a new one.
FairUsageSpec == UsageSpec /\ Fairness

-----------------------------------------------------------------------------
\* Properties.

\* What a bucket may give away in the interval: it was full, it is refilled, a
\* script may be dated back to before the interval, and one that was overtaken
\* lets the time since its now() be refilled to the next one once more.
Budget(cap, rate) == cap + (use.ticks + MaxLag) * rate + use.overtaken * (MaxLag * rate)

\* No interval admits more requests than that, however often the tenant asks and
\* whether or not its keys expire meanwhile.
RequestsInBudget == use.admitted <= Budget(ReqCap, ReqRate)

\* Nor are more tokens charged for the requests admitted: debt, refunds and
\* corrections of calls from before the interval add nothing.
TokensInBudget == use.tokens <= Budget(TokCap, TokRate)

\* What a bucket is refilled from the beginning of the interval to a script's now.
Refilled(cap, rate, lag) == Least(cap, (use.ticks - lag) * rate)

\* A tenant that was refused throughout the interval is refused again only while
\* the refill of the interval would not do, even had it begun with an empty
\* request bucket and all the debt there can be: a refused check stores the
\* bucket and its ts as well, but however often and in whatever order of their
\* clocks refused checks run, and though keys expire and corrections arrive
\* meanwhile, nothing of the refill is lost and no one waits for ever.
RefusedBriefly ==
    [][\A c \in Calls :
          /\ Readable /\ use.admitted = 0
          /\ calls[c].pc = "checking" /\ calls'[c].pc = "idle"
          => \/ Refilled(ReqCap, ReqRate, calls[c].for) < 1
             \/ Refilled(TokCap, TokRate, calls[c].for)
                   < calls[c].est + Shortfall * Cardinality(Calls \ InFlight)]_vars
=============================================================================
