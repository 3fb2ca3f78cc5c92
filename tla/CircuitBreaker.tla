--------------------------- MODULE CircuitBreaker ---------------------------
(***************************************************************************)
(* One circuit breaker as data: the record that CircuitBreaker keeps for a *)
(* provider and what each of its methods does to it                        *)
(* (gateway/resilience/circuit_breaker.py).  Every method is synchronous,  *)
(* so each one is atomic on the asyncio event loop; the modules that use a *)
(* breaker apply these operators inside their own actions.                 *)
(*                                                                         *)
(* The clock is relative.  The only thing the code ever does with it is    *)
(* compare clock() - _opened_at with reset_timeout_s, in state OPEN, so a  *)
(* breaker carries openFor, the ticks gone by since _opened_at, saturated  *)
(* at ResetTimeout.                                                        *)
(***************************************************************************)
EXTENDS Integers, Sequences, FiniteSets

CONSTANTS
    WindowSize,     \* window_size: outcomes the rolling window remembers
    MinCalls,       \* min_calls: outcomes needed before the rate counts
    FailNum,        \* failure_threshold = FailNum / FailDen
    FailDen,
    ResetTimeout,   \* reset_timeout_s, in ticks
    HalfOpenMax     \* half_open_max: probes a half-open period admits

ASSUME BreakerAssumption ==
    /\ WindowSize   \in Nat \ {0}
    /\ MinCalls     \in Nat \ {0}
    /\ FailNum      \in Nat
    /\ FailDen      \in Nat \ {0}
    /\ ResetTimeout \in Nat \ {0}
    /\ HalfOpenMax  \in Nat \ {0}

Closed   == "closed"
Open     == "open"
HalfOpen == "half_open"

CircuitState == {Closed, Open, HalfOpen}

Windows == {w \in Seq(BOOLEAN) : Len(w) <= WindowSize}

Breaker ==
    [state         : CircuitState,
     window        : Windows,             \* TRUE = success, FALSE = failure
     openFor       : 0 .. ResetTimeout,
     halfOpenCalls : 0 .. HalfOpenMax]

NewBreaker ==
    [state |-> Closed, window |-> << >>, openFor |-> 0, halfOpenCalls |-> 0]

-----------------------------------------------------------------------------
\* The rolling window, a deque(maxlen=window_size).

Remember(w, ok) ==
    LET longer == Append(w, ok)
    IN  IF Len(longer) > WindowSize THEN Tail(longer) ELSE longer

Failures(w) == Cardinality({i \in DOMAIN w : ~ w[i]})

TooManyFailures(w) ==
    /\ Len(w) >= MinCalls
    /\ Failures(w) * FailDen >= FailNum * Len(w)

-----------------------------------------------------------------------------
\* Transitions.

ToOpenKeepingSlots(b) ==                \* mutant: the probe slots are not freed
    [b EXCEPT !.state = Open, !.openFor = 0]

ToOpen(b) ==
    [b EXCEPT !.state = Open, !.openFor = 0, !.halfOpenCalls = 0]

ToHalfOpen(b) ==
    [b EXCEPT !.state = HalfOpen, !.halfOpenCalls = 0]

ToClosedKeepingWindow(b) ==             \* mutant: old failures still count
    [b EXCEPT !.state = Closed, !.halfOpenCalls = 0]

ToClosed(b) ==
    [b EXCEPT !.state = Closed, !.window = << >>, !.halfOpenCalls = 0]

-----------------------------------------------------------------------------
\* allow(), as the answer it gives and the breaker it leaves behind.  When it
\* answers FALSE it changes nothing: the OPEN -> HALF_OPEN move is always
\* followed by the grant of the first probe, because HalfOpenMax > 0.

DueEarly(b) == b.openFor >= ResetTimeout - 1        \* mutant: off by one

Due(b) == b.openFor >= ResetTimeout

GrantsWithoutTimer(b) ==                \* mutant: nobody ends the open period
    \/ b.state = Closed
    \/ b.state = HalfOpen /\ b.halfOpenCalls < HalfOpenMax

Grants(b) ==
    \/ b.state = Closed
    \/ b.state = Open /\ Due(b)
    \/ b.state = HalfOpen /\ b.halfOpenCalls < HalfOpenMax

TakeSlot(b) == [b EXCEPT !.halfOpenCalls = @ + 1]

AfterGrantUncounted(b) ==               \* mutant: the probe is not counted
    CASE b.state = Closed   -> b
      [] b.state = Open     -> ToHalfOpen(b)
      [] b.state = HalfOpen -> b

AfterGrant(b) ==
    CASE b.state = Closed   -> b
      [] b.state = Open     -> TakeSlot(ToHalfOpen(b))
      [] b.state = HalfOpen -> TakeSlot(b)

RecordSuccess(b) ==
    IF b.state = HalfOpen
    THEN ToClosed(b)
    ELSE [b EXCEPT !.window = Remember(@, TRUE)]

RecordFailureStuck(b) ==                \* mutant: a failed probe is only noted
    LET noted == [b EXCEPT !.window = Remember(@, FALSE)]
    IN  IF b.state # HalfOpen /\ TooManyFailures(noted.window)
        THEN ToOpen(noted) ELSE noted

RecordFailureWhenFull(b) ==             \* mutant: judged on a full window only
    LET noted == [b EXCEPT !.window = Remember(@, FALSE)]
    IN  IF b.state = HalfOpen THEN ToOpen(b)
        ELSE IF Len(noted.window) = WindowSize /\ TooManyFailures(noted.window)
             THEN ToOpen(noted) ELSE noted

\* Failures also count while OPEN, where tripping again restarts the timer.
RecordFailure(b) ==
    LET noted == [b EXCEPT !.window = Remember(@, FALSE)]
    IN  IF b.state = HalfOpen THEN ToOpen(b)
        ELSE IF TooManyFailures(noted.window) THEN ToOpen(noted) ELSE noted

\* One tick of the clock, as far as this breaker can tell.
Elapse(b) ==
    IF b.state = Open /\ b.openFor < ResetTimeout
    THEN [b EXCEPT !.openFor = @ + 1]
    ELSE b
=============================================================================
