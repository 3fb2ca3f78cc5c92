---------------------------- MODULE BreakerCalls ----------------------------
(***************************************************************************)
(* One provider's circuit breaker under concurrent attempts.               *)
(*                                                                         *)
(* An attempt is what ResilientExecutor does with one target: ask allow(), *)
(* perhaps sleep a backoff, call the adapter, record the outcome           *)
(* (gateway/resilience/retry.py).  The two awaits, the sleep and the call, *)
(* are where other attempts on the same breaker get in between, so an      *)
(* attempt is a slot that goes  none -> granted -> calling -> none  (or    *)
(* none -> calling when there is no sleep), and what it records is applied *)
(* to whatever the breaker has become in the meantime.                     *)
(*                                                                         *)
(* It is the protocol Executor.tla is shown to implement for each provider.*)
(***************************************************************************)
EXTENDS CircuitBreaker

CONSTANTS
    Attempts,   \* slots for concurrent attempts on this provider
    MaxHold,    \* longest time from allow() to the outcome, in ticks
    MayEscape   \* can the adapter raise what neither except clause names?

ASSUME AttemptAssumption ==
    /\ MaxHold \in Nat \ {0}
    /\ MayEscape \in BOOLEAN

VARIABLES
    breaker,    \* the provider's CircuitBreaker
    attempts,   \* the attempts on it; probe and fresh are history: admitted
                \* as a half-open probe, and no transition since admission
    history     \* failures recorded since the breaker last closed (at most
                \* MinCalls), ticks since it last opened (at most ResetTimeout)

vars == <<breaker, attempts, history>>

NoAttempt == [phase |-> "none", probe |-> FALSE, fresh |-> FALSE, held |-> 0]

Attempt ==
    [phase : {"none", "granted", "calling"},
     probe : BOOLEAN,
     fresh : BOOLEAN,
     held  : 0 .. MaxHold]

History == [failures : 0 .. MinCalls, cooled : 0 .. ResetTimeout]

Outstanding == {a \in Attempts : attempts[a].phase # "none"}

TypeOK ==
    /\ breaker \in Breaker
    /\ attempts \in [Attempts -> Attempt]
    /\ history \in History

Init ==
    /\ breaker = NewBreaker
    /\ attempts = [a \in Attempts |-> NoAttempt]
    /\ history = [failures |-> 0, cooled |-> 0]

-----------------------------------------------------------------------------
\* History bookkeeping.

\* The attempts as a breaker transition, if there was one, leaves them.
Seen(as, from, to) ==
    IF to.state = from.state THEN as
    ELSE [a \in Attempts |-> [as[a] EXCEPT !.fresh = FALSE]]

NoteTransition(h, from, to) ==
    [failures |-> IF to.state = Closed /\ from.state # Closed THEN 0 ELSE h.failures,
     cooled   |-> IF to.state = Open /\ from.state # Open THEN 0 ELSE h.cooled]

NoteFailure(h) ==
    [h EXCEPT !.failures = IF @ < MinCalls THEN @ + 1 ELSE @]

Granted(from, phase) ==
    [phase |-> phase, probe |-> from.state # Closed, fresh |-> TRUE, held |-> 0]

-----------------------------------------------------------------------------

\* allow() answers TRUE.  The attempt starts with a backoff sleep or at once.
\* (When allow() answers FALSE nothing changes.)
Ask(a) ==
    /\ attempts[a].phase = "none"
    /\ Grants(breaker)
    /\ breaker' = AfterGrant(breaker)
    /\ \E phase \in {"granted", "calling"} :
          attempts' = [Seen(attempts, breaker, breaker') EXCEPT
                          ![a] = Granted(breaker, phase)]
    /\ history' = NoteTransition(history, breaker, breaker')

\* The backoff is over.  The breaker is not asked again.
Send(a) ==
    /\ attempts[a].phase = "granted"
    /\ attempts' = [attempts EXCEPT ![a].phase = "calling"]
    /\ UNCHANGED <<breaker, history>>

\* A response, an empty stream or an error that is the client's own fault.
Succeed(a) ==
    /\ attempts[a].phase = "calling"
    /\ breaker' = RecordSuccess(breaker)
    /\ attempts' = [Seen(attempts, breaker, breaker') EXCEPT ![a] = NoAttempt]
    /\ history' = NoteTransition(history, breaker, breaker')

\* 429, 5xx, a timeout or a transport error.
Fail(a) ==
    /\ attempts[a].phase = "calling"
    /\ breaker' = RecordFailure(breaker)
    /\ attempts' = [Seen(attempts, breaker, breaker') EXCEPT ![a] = NoAttempt]
    /\ history' = NoteTransition(NoteFailure(history), breaker, breaker')

\* The same, when the request's next target is on this provider too (the
\* balanced alias): it asks again before anyone else gets a turn.
FailAndAsk(a) ==
    /\ attempts[a].phase = "calling"
    /\ LET failed == RecordFailure(breaker)
       IN  /\ Grants(failed)
           /\ breaker' = AfterGrant(failed)
           /\ \E phase \in {"granted", "calling"} :
                 attempts' =
                    [Seen(Seen(attempts, breaker, failed), failed, breaker') EXCEPT
                        ![a] = Granted(failed, phase)]
           /\ history' = NoteTransition(
                            NoteTransition(NoteFailure(history), breaker, failed),
                            failed, breaker')

\* The call ends in an exception that neither except clause of the executor
\* names: nothing is recorded.
Escape(a) ==
    /\ MayEscape
    /\ attempts[a].phase = "calling"
    /\ attempts' = [attempts EXCEPT ![a] = NoAttempt]
    /\ UNCHANGED <<breaker, history>>

\* Time passes, but never beyond MaxHold of an outstanding attempt.
Tick ==
    /\ \A a \in Outstanding : attempts[a].held < MaxHold
    /\ breaker' = Elapse(breaker)
    /\ attempts' = [a \in Attempts |->
                      IF attempts[a].phase = "none" THEN attempts[a]
                      ELSE [attempts[a] EXCEPT !.held = @ + 1]]
    /\ history' = [history EXCEPT !.cooled = IF @ < ResetTimeout THEN @ + 1 ELSE @]

Next ==
    \/ Tick
    \/ \E a \in Attempts :
          Ask(a) \/ Send(a) \/ Succeed(a) \/ Fail(a) \/ FailAndAsk(a) \/ Escape(a)

Spec == Init /\ [][Next]_vars

Answer(a) == Succeed(a) \/ Fail(a) \/ FailAndAsk(a) \/ Escape(a)

\* The clock runs, a sleep ends, a call ends (httpx times it out), and
\* requests for this provider keep arriving.
Fairness ==
    /\ WF_vars(Tick)
    /\ \A a \in Attempts :
          WF_vars(Ask(a)) /\ WF_vars(Send(a)) /\ WF_vars(Answer(a))

FairSpec == Spec /\ Fairness

-----------------------------------------------------------------------------
\* Safety.

Probes == {a \in Outstanding : attempts[a].probe /\ attempts[a].fresh}

\* Probe slots are neither invented nor lost: half-open, the counter covers the
\* probes of this half-open period that are still out, exactly so when every
\* call records an outcome; outside half-open no slot is taken.
ProbesAccounted ==
    /\ breaker.state = HalfOpen =>
          /\ breaker.halfOpenCalls > 0
          /\ Cardinality(Probes) <= breaker.halfOpenCalls
          /\ MayEscape \/ Cardinality(Probes) = breaker.halfOpenCalls
    /\ breaker.state # HalfOpen => breaker.halfOpenCalls = 0 /\ Probes = {}

\* record_success never evaluates the failure rate, so a closed breaker may sit
\* on a window that is over the threshold, but only while the newest outcome in
\* it is a success: no failure leaves it so.
OverThresholdOnlyAfterSuccess ==
    LET w == breaker.window
    IN  /\ breaker.state = Closed
        /\ Len(w) >= MinCalls
        /\ Failures(w) * FailDen >= FailNum * Len(w)
        => w[Len(w)]

\* A closed breaker opens only on fresh evidence: enough failures to make up the
\* threshold share of min_calls were recorded since it last closed, whatever
\* happened before (late answers while open or half-open included).
TripNeedsEvidence ==
    [][breaker.state = Closed /\ breaker'.state = Open =>
         history'.failures * FailDen >= FailNum * MinCalls]_vars

\* Open is left only for half-open and only after a full reset timeout since it
\* was entered: no late outcome ends an open period early.
CoolingOff ==
    [][breaker.state = Open /\ breaker'.state # Open =>
         breaker'.state = HalfOpen /\ history.cooled = ResetTimeout]_vars

\* When no attempt outlives the reset timeout, a half-open breaker has nothing
\* but its own probes in flight ...
OnlyProbesInHalfOpen ==
    breaker.state = HalfOpen => Outstanding = Probes

\* ... so that no more probes than half_open_max are ever in flight, ...
ProbeCap ==
    Cardinality({a \in Outstanding : attempts[a].probe}) <= HalfOpenMax

\* ... and the period is theirs: it lasts as long as its probes are out, none of
\* them is lost while it does, and what ends it, either way, is the answer of
\* one.  (As an answer takes MaxHold at most, so does the period.)
PeriodOfItsProbes ==
    [][breaker.state = HalfOpen =>
         IF breaker'.state = HalfOpen THEN Probes \subseteq Probes'
         ELSE \E a \in Probes : attempts'[a].phase = "none"]_vars

-----------------------------------------------------------------------------
\* Liveness.

\* A half-open period ends: its probes come back with a verdict.
HalfOpenResolves == breaker.state = HalfOpen ~> breaker.state # HalfOpen

\* A provider that keeps being asked for is probed again after it was cut off.
OpenIsProbed == breaker.state = Open ~> breaker.state = HalfOpen
=============================================================================
