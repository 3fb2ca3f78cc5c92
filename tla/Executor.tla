------------------------------ MODULE Executor ------------------------------
(***************************************************************************)
(* ResilientExecutor (gateway/resilience/retry.py): concurrent requests,   *)
(* each walking its ordered targets through the circuit breakers of the    *)
(* BreakerRegistry, with jittered backoff between attempts and a deadline  *)
(* that is looked at before each target.                                   *)
(*                                                                         *)
(* The gateway runs on one asyncio event loop, so what happens between two *)
(* awaits is one step.  The awaits are the backoff sleep and the adapter   *)
(* call; a step therefore runs from the end of one of them, through the    *)
(* outcome it records and all the targets it skips, to the next one or to  *)
(* the end of the request.  execute and execute_stream differ only in what *)
(* they wait for (the response, the first chunk).                          *)
(***************************************************************************)
EXTENDS CircuitBreaker, FiniteSetsExt

CONSTANTS
    Providers,      \* the providers that targets name
    Configured,     \* those the ProviderRegistry has an adapter for
    Healthy,        \* those whose calls all succeed
    Routes,         \* the target lists the router may resolve to
    Requests,       \* request slots
    Deadline,       \* deadline_s, in ticks
    BaseDelay,      \* base_delay_s
    MaxDelay,       \* max_delay_s
    LongestCall,    \* bound: the longest a call takes.  (request_timeout_s bounds
                    \* each read of it, not the whole: any number will do.)
    MayEscape       \* can a call end in what neither except clause names?

ASSUME ExecutorAssumption ==
    /\ Configured \subseteq Providers
    /\ Healthy \subseteq Configured
    /\ Routes \subseteq Seq(Providers) \ {<< >>}
    /\ Deadline \in Nat /\ BaseDelay \in Nat /\ MaxDelay \in Nat
    /\ LongestCall \in Nat \ {0}
    /\ MayEscape \in BOOLEAN

VARIABLES
    breakers,   \* BreakerRegistry: provider -> its CircuitBreaker
    requests,   \* slot -> where execute stands
    history     \* provider -> the history of BreakerCalls

vars == <<breakers, requests, history>>

-----------------------------------------------------------------------------
\* One request.

Active  == {"backoff", "calling"}
Resting == {"idle", "served", "rejected", "exhausted", "escaped"}

LastError == {"none", "unavailable", "circuit_open", "upstream", "transport"}

Idle ==
    [pc |-> "idle", route |-> << >>, i |-> 0, attempts |-> 0, lastError |-> "none",
     elapsed |-> 0,                     \* clock() - start
     left |-> 0,                        \* ticks left of the sleep, or of the call
     held |-> 0,                        \* ticks since allow() admitted the attempt
     probe |-> FALSE, fresh |-> FALSE]  \* as in BreakerCalls

Request ==
    [pc        : Active \cup Resting,
     route     : Routes \cup {<< >>},
     i         : Nat,
     attempts  : Nat,
     lastError : LastError,
     elapsed   : 0 .. Deadline + MaxDelay + LongestCall,
     left      : 0 .. MaxDelay + LongestCall,
     held      : 0 .. MaxDelay + LongestCall,
     probe     : BOOLEAN,
     fresh     : BOOLEAN]

\* What is left of a request once execute has returned or raised.
Ended(outcome, err) == [Idle EXCEPT !.pc = outcome, !.lastError = err]

Working(r) == requests[r].pc \in Active

Target(r) == requests[r].route[requests[r].i]

\* The attempts on provider p, as BreakerCalls knows them.
AttemptsOn(p) ==
    [r \in Requests |->
       IF Working(r) /\ Target(r) = p
       THEN [phase |-> IF requests[r].pc = "backoff" THEN "granted" ELSE "calling",
             probe |-> requests[r].probe,
             fresh |-> requests[r].fresh,
             held  |-> requests[r].held]
       ELSE [phase |-> "none", probe |-> FALSE, fresh |-> FALSE, held |-> 0]]

Protocol(p) ==
    INSTANCE BreakerCalls WITH
        Attempts <- Requests, MaxHold <- MaxDelay + LongestCall,
        breaker <- breakers[p], attempts <- AttemptsOn(p), history <- history[p]

TypeOK ==
    /\ breakers \in [Providers -> Breaker]
    /\ requests \in [Requests -> Request]
    /\ history \in [Providers -> [failures : 0 .. MinCalls, cooled : 0 .. ResetTimeout]]

Init ==
    /\ breakers = [p \in Providers |-> NewBreaker]
    /\ requests = [r \in Requests |-> Idle]
    /\ history = [p \in Providers |-> [failures |-> 0, cooled |-> 0]]

-----------------------------------------------------------------------------
\* The for loop over the targets, from target number j on.

CanTry(route, j, brks) == route[j] \in Configured /\ Grants(brks[route[j]])

NextTargetOnlyOne(route, j, brks) ==    \* mutant: gives up on the first refusal
    IF j <= Len(route) /\ CanTry(route, j, brks) THEN j ELSE Len(route) + 1

NextTargetButLast(route, j, brks) ==    \* mutant: off by one at the end
    LET ok == {k \in j .. Len(route) - 1 : CanTry(route, k, brks)}
    IN  IF ok = {} THEN Len(route) + 1 ELSE Min(ok)

\* The first target that has an adapter and whose breaker allows the call.
\* (The refusals on the way change nothing: see CircuitBreaker.)
NextTarget(route, j, brks) ==
    LET ok == {k \in j .. Len(route) : CanTry(route, k, brks)}
    IN  IF ok = {} THEN Len(route) + 1 ELSE Min(ok)

\* last_error when the loop, having skipped targets j .. k - 1, arrives at k.
ErrorAfterSkips(route, j, k, err) ==
    IF k = j THEN err
    ELSE IF route[k - 1] \in Configured THEN "circuit_open" ELSE "unavailable"

DelaysUncapped(attempts) ==             \* mutant: max_delay_s is not applied
    IF attempts = 0 THEN {0} ELSE 0 .. BaseDelay * 2 ^ attempts

\* _backoff with full jitter; no delay before the first attempt.
Delays(attempts) ==
    IF attempts = 0 THEN {0}
    ELSE {delay \in 0 .. MaxDelay : delay <= BaseDelay * 2 ^ (attempts - 1)}

PastDeadlineIgnored(q) == FALSE         \* mutant: the deadline is never looked at

PastDeadline(q) == q.elapsed > Deadline

\* The requests as a transition of p's breaker leaves them.
Seen(reqs, p, from, to) ==
    [r \in Requests |->
       IF to.state # from.state /\ reqs[r].pc \in Active /\ reqs[r].route[reqs[r].i] = p
       THEN [reqs[r] EXCEPT !.fresh = FALSE] ELSE reqs[r]]

\* Request r, standing at q, goes on with target j; brks, reqs and hist are the
\* state that the outcome of its previous call has left.
Continue(r, q, j, brks, reqs, hist) ==
    LET k   == IF PastDeadline(q) THEN Len(q.route) + 1 ELSE NextTarget(q.route, j, brks)
        err == IF PastDeadline(q) THEN q.lastError
               ELSE ErrorAfterSkips(q.route, j, k, q.lastError)
    IN  \/ /\ k > Len(q.route)
           /\ breakers' = brks
           /\ requests' = [reqs EXCEPT ![r] = Ended("exhausted", err)]
           /\ history' = hist
        \/ /\ k <= Len(q.route)
           /\ LET p     == q.route[k]
                  after == AfterGrant(brks[p])
              IN  /\ breakers' = [brks EXCEPT ![p] = after]
                  /\ history' = [hist EXCEPT ![p] =
                                   Protocol(p)!NoteTransition(@, brks[p], after)]
                  /\ \E delay \in Delays(q.attempts) :
                        requests' = [Seen(reqs, p, brks[p], after) EXCEPT ![r] =
                           [q EXCEPT !.pc = IF delay = 0 THEN "calling" ELSE "backoff",
                                     !.i = k, !.attempts = @ + 1, !.lastError = err,
                                     !.left = IF delay = 0 THEN LongestCall ELSE delay,
                                     !.held = 0,
                                     !.probe = brks[p].state # Closed,
                                     !.fresh = TRUE]]

\* Request r's call is over with outcome, and execute with it.
Finish(r, outcome, brk) ==
    LET p == Target(r)
    IN  /\ breakers' = [breakers EXCEPT ![p] = brk]
        /\ requests' = [Seen(requests, p, breakers[p], brk) EXCEPT
                          ![r] = Ended(outcome, "none")]
        /\ history' = [history EXCEPT ![p] =
                         Protocol(p)!NoteTransition(@, breakers[p], brk)]

-----------------------------------------------------------------------------

Start(r) ==
    /\ ~ Working(r)
    /\ \E route \in Routes :
          Continue(r, [Idle EXCEPT !.route = route], 1, breakers, requests, history)

WakeOrPoll(r) ==                        \* mutant: polls while the breaker is open
    /\ requests[r].pc = "backoff" /\ requests[r].left = 0
    /\ requests' = IF breakers[Target(r)].state = Open THEN requests
                   ELSE [requests EXCEPT ![r].pc = "calling", ![r].left = LongestCall]
    /\ UNCHANGED <<breakers, history>>

\* The backoff is over: call the adapter, whatever the breaker is by now.
Wake(r) ==
    /\ requests[r].pc = "backoff" /\ requests[r].left = 0
    /\ requests' = [requests EXCEPT ![r].pc = "calling", ![r].left = LongestCall]
    /\ UNCHANGED <<breakers, history>>

SucceedCountedTwice(r) ==               \* mutant: the outcome is recorded twice
    /\ requests[r].pc = "calling"
    /\ Finish(r, "served", RecordSuccess(RecordSuccess(breakers[Target(r)])))

\* A response, or on a stream the first chunk or its empty end.
Succeed(r) ==
    /\ requests[r].pc = "calling"
    /\ Finish(r, "served", RecordSuccess(breakers[Target(r)]))

RejectAsFailure(r) ==                   \* mutant: a 400 counts against the provider
    /\ requests[r].pc = "calling"
    /\ Target(r) \notin Healthy
    /\ Finish(r, "rejected", RecordFailure(breakers[Target(r)]))

\* UpstreamError with a status that is not retryable (neither 429 nor 5xx).
Reject(r) ==
    /\ requests[r].pc = "calling"
    /\ Target(r) \notin Healthy
    /\ Finish(r, "rejected", RecordSuccess(breakers[Target(r)]))

\* 429 or 5xx, a timeout or a transport error: on to the next target.
Fail(r) ==
    /\ requests[r].pc = "calling"
    /\ Target(r) \notin Healthy
    /\ \E err \in {"upstream", "transport"} :
          LET p      == Target(r)
              failed == RecordFailure(breakers[p])
          IN  Continue(r,
                 [requests[r] EXCEPT !.lastError = err],
                 requests[r].i + 1,
                 [breakers EXCEPT ![p] = failed],
                 Seen(requests, p, breakers[p], failed),
                 [history EXCEPT ![p] =
                    Protocol(p)!NoteTransition(
                       Protocol(p)!NoteFailure(@), breakers[p], failed)])

\* The adapter raises something else, say for a 200 whose body is not the JSON
\* expected: it passes through execute, and nothing is recorded.
Escape(r) ==
    /\ MayEscape
    /\ requests[r].pc = "calling"
    /\ Target(r) \notin Healthy
    /\ requests' = [requests EXCEPT ![r] = Ended("escaped", "none")]
    /\ UNCHANGED <<breakers, history>>

\* One tick for everybody.  The loop is idle enough to wake a sleeper in time,
\* and no call outlives LongestCall.
Tick ==
    /\ \A r \in Requests : Working(r) => requests[r].left > 0
    /\ breakers' = [p \in Providers |-> Elapse(breakers[p])]
    /\ requests' = [r \in Requests |->
          IF Working(r)
          THEN [requests[r] EXCEPT !.elapsed = @ + 1, !.left = @ - 1, !.held = @ + 1]
          ELSE requests[r]]
    /\ history' = [p \in Providers |->
          [history[p] EXCEPT !.cooled = IF @ < ResetTimeout THEN @ + 1 ELSE @]]

Answer(r) == Succeed(r) \/ Reject(r) \/ Fail(r) \/ Escape(r)

Next ==
    \/ Tick
    \/ \E r \in Requests : Start(r) \/ Wake(r) \/ Answer(r)

Spec == Init /\ [][Next]_vars

\* The clock runs, sleeps end and calls end.
Fairness ==
    /\ WF_vars(Tick)
    /\ \A r \in Requests : WF_vars(Wake(r)) /\ WF_vars(Answer(r))

FairSpec == Spec /\ Fairness

-----------------------------------------------------------------------------
\* Properties.

\* Every provider's breaker sees the protocol of BreakerCalls: whatever the
\* requests do with each other, its calls are admitted by allow() and recorded
\* once, or not at all when they escape.  (Protocol(p)!Spec for every p, with
\* the quantifier under the box.)
ImplementsBreakerCalls ==
    /\ \A p \in Providers : Protocol(p)!Init
    /\ [][\A p \in Providers :
            Protocol(p)!Next \/ UNCHANGED Protocol(p)!vars]_vars

\* The deadline is only looked at between targets, but it does bound a request:
\* no call is made later than one backoff after it, and so none ends later than
\* one call timeout after that.
DeadlineBoundsCalls ==
    \A r \in Requests : requests[r].pc = "calling" =>
        requests[r].elapsed - (LongestCall - requests[r].left) <= Deadline + MaxDelay

\* A request within its deadline gives up only when no later target could have
\* been tried at that moment: each is unconfigured or refused by its breaker.
NoTargetPassedOver ==
    [][\A r \in Requests :
         /\ Working(r) /\ requests'[r].pc = "exhausted"
         /\ requests[r].elapsed <= Deadline
         => \A j \in requests[r].i + 1 .. Len(requests[r].route) :
               LET p == requests[r].route[j]
               IN  p \in Configured => ~ Grants(breakers'[p])]_vars

\* A call that was granted before its backoff leaves even if the breaker opens
\* meanwhile, but an open breaker stops the traffic within max_delay_s: after
\* that, and as long as it is open, nobody is on the way to the provider.
OpenGoesQuiet ==
    \A p \in Providers : breakers[p].state = Open /\ history[p].cooled > MaxDelay =>
        \A r \in Requests : requests[r].pc = "backoff" => Target(r) # p

\* A provider is only ever cut off by a failure of its own: when a breaker opens,
\* a request that was calling this provider leaves that target, unserved, in the
\* same step.  (One that is merely under way there stays where it is.)
OpenedByOwnFailure ==
    [][\A p \in Providers :
         breakers[p].state # Open /\ breakers'[p].state = Open =>
            \E r \in Requests :
               /\ requests[r].pc = "calling" /\ Target(r) = p
               /\ requests'[r].pc \notin {"served", "rejected", "escaped"}
               /\ requests'[r].i # requests[r].i]_vars

\* With a healthy provider among its targets a request that ends is served or has
\* its own 4xx passed on: it ends neither in AllTargetsFailed nor in the 500 of an
\* exception that nobody names.  (This needs time for the healthy target, which
\* executor_slow_primary does not leave, and calls that fail in a way execute names.)
FallbackServes ==
    \A r \in Requests : requests[r].pc \notin {"exhausted", "escaped"}

\* Every request comes to an end.
Terminates == \A r \in Requests : Working(r) ~> ~ Working(r)
=============================================================================
