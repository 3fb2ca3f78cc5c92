------------------------ MODULE CircuitBreakerProofs ------------------------
(***************************************************************************)
(* What the methods of one circuit breaker return, for every value of its  *)
(* parameters: lemmas for the theorems about BreakerCalls and Executor.    *)
(***************************************************************************)
EXTENDS CircuitBreaker, FiniteSetTheorems, TLAPS

\* The rolling window stays a sequence of at most WindowSize outcomes
\* (deque(maxlen=window_size), circuit_breaker.py).
LEMMA RememberType ==
    ASSUME NEW w \in Windows, NEW ok \in BOOLEAN
    PROVE  Remember(w, ok) \in Windows
<1> DEFINE longer == Append(w, ok)
<1>1. /\ longer \in Seq(BOOLEAN)
      /\ Len(longer) = Len(w) + 1
  BY DEF Windows
<1>2. Len(w) \in Nat /\ Len(w) <= WindowSize
  BY DEF Windows
<1>3. CASE Len(longer) > WindowSize
  <2>1. longer # << >>
    BY <1>1, <1>2
  <2>2. Tail(longer) \in Seq(BOOLEAN) /\ Len(Tail(longer)) = Len(longer) - 1
    BY <1>1, <2>1
  <2> QED BY <1>1, <1>2, <1>3, <2>2, BreakerAssumption DEF Remember, Windows, BreakerAssumption
<1>4. CASE ~ (Len(longer) > WindowSize)
  BY <1>1, <1>2, <1>4, BreakerAssumption DEF Remember, Windows, BreakerAssumption
<1> QED BY <1>3, <1>4

\* The members of the breaker's field sets that the transitions assign.
LEMMA FieldTypes ==
    /\ Closed \in CircuitState /\ Open \in CircuitState /\ HalfOpen \in CircuitState
    /\ << >> \in Windows
    /\ 0 \in 0 .. ResetTimeout
    /\ 0 \in 0 .. HalfOpenMax
    /\ 1 \in 0 .. HalfOpenMax
BY BreakerAssumption
   DEF BreakerAssumption, CircuitState, Windows

\* record_success keeps the breaker well formed, closes it exactly when it was
\* half-open and changes its state in no other case.
LEMMA RecordSuccessLemma ==
    ASSUME NEW b \in Breaker
    PROVE  /\ RecordSuccess(b) \in Breaker
           /\ b.state = HalfOpen =>
                 RecordSuccess(b).state = Closed /\ RecordSuccess(b).halfOpenCalls = 0
           /\ b.state # HalfOpen =>
                 /\ RecordSuccess(b).state = b.state
                 /\ RecordSuccess(b).openFor = b.openFor
                 /\ RecordSuccess(b).halfOpenCalls = b.halfOpenCalls
<1> DEFINE noted == [b EXCEPT !.window = Remember(@, TRUE)]
<1>1. Remember(b.window, TRUE) \in Windows
  BY RememberType DEF Breaker
<1>2. /\ noted \in Breaker
      /\ noted.state = b.state
      /\ noted.openFor = b.openFor
      /\ noted.halfOpenCalls = b.halfOpenCalls
  BY <1>1 DEF Breaker
<1>3. /\ ToClosed(b) \in Breaker
      /\ ToClosed(b).state = Closed
      /\ ToClosed(b).halfOpenCalls = 0
  BY FieldTypes DEF ToClosed, Breaker
<1>4. RecordSuccess(b) = IF b.state = HalfOpen THEN ToClosed(b) ELSE noted
  BY DEF RecordSuccess
<1> HIDE DEF noted
<1> QED BY <1>2, <1>3, <1>4

\* record_failure keeps the breaker well formed and either leaves its state, its
\* timer and its slots alone or opens it with a new timer and no slot taken; a
\* half-open breaker is always opened.
LEMMA RecordFailureLemma ==
    ASSUME NEW b \in Breaker
    PROVE  /\ RecordFailure(b) \in Breaker
           /\ \/ /\ b.state # HalfOpen
                 /\ RecordFailure(b).state = b.state
                 /\ RecordFailure(b).openFor = b.openFor
                 /\ RecordFailure(b).halfOpenCalls = b.halfOpenCalls
              \/ /\ RecordFailure(b).state = Open
                 /\ RecordFailure(b).openFor = 0
                 /\ RecordFailure(b).halfOpenCalls = 0
<1> DEFINE noted == [b EXCEPT !.window = Remember(@, FALSE)]
<1>1. Remember(b.window, FALSE) \in Windows
  BY RememberType DEF Breaker
<1>2. /\ noted \in Breaker
      /\ noted.state = b.state
      /\ noted.openFor = b.openFor
      /\ noted.halfOpenCalls = b.halfOpenCalls
  BY <1>1 DEF Breaker
<1>3. ASSUME NEW c \in Breaker
      PROVE  /\ ToOpen(c) \in Breaker
             /\ ToOpen(c).state = Open
             /\ ToOpen(c).openFor = 0
             /\ ToOpen(c).halfOpenCalls = 0
  BY FieldTypes DEF ToOpen, Breaker
<1>4. RecordFailure(b) = IF b.state = HalfOpen THEN ToOpen(b)
                         ELSE IF TooManyFailures(noted.window) THEN ToOpen(noted) ELSE noted
  BY DEF RecordFailure
<1> HIDE DEF noted
<1>5. CASE b.state = HalfOpen
  BY <1>3, <1>4, <1>5
<1>6. CASE b.state # HalfOpen /\ TooManyFailures(noted.window)
  BY <1>2, <1>3, <1>4, <1>6
<1>7. CASE b.state # HalfOpen /\ ~ TooManyFailures(noted.window)
  BY <1>2, <1>4, <1>7
<1> QED BY <1>5, <1>6, <1>7

\* A granted allow() keeps the breaker well formed and never leaves it open; it
\* takes one slot of a half-open period, which it starts if it found the
\* breaker open with its reset timeout run out, and changes nothing else.
LEMMA AfterGrantLemma ==
    ASSUME NEW b \in Breaker, Grants(b)
    PROVE  /\ AfterGrant(b) \in Breaker
           /\ b.state = Closed => AfterGrant(b) = b
           /\ b.state = Open =>
                 /\ b.openFor = ResetTimeout
                 /\ AfterGrant(b).state = HalfOpen
                 /\ AfterGrant(b).halfOpenCalls = 1
           /\ b.state = HalfOpen =>
                 /\ AfterGrant(b).state = HalfOpen
                 /\ AfterGrant(b).halfOpenCalls = b.halfOpenCalls + 1
<1> USE DEF Closed, Open, HalfOpen
<1>1. CASE b.state = Closed
  BY <1>1 DEF AfterGrant
<1>2. CASE b.state = Open
  <2>1. b.openFor = ResetTimeout
    BY <1>2, BreakerAssumption DEF Grants, Due, Breaker, BreakerAssumption
  <2>2. AfterGrant(b) = TakeSlot(ToHalfOpen(b))
    BY <1>2 DEF AfterGrant
  <2>3. /\ ToHalfOpen(b) \in Breaker
        /\ ToHalfOpen(b).state = HalfOpen
        /\ ToHalfOpen(b).halfOpenCalls = 0
    BY FieldTypes DEF ToHalfOpen, Breaker
  <2>4. ASSUME NEW c \in Breaker, c.halfOpenCalls = 0
        PROVE  /\ TakeSlot(c) \in Breaker
               /\ TakeSlot(c).state = c.state
               /\ TakeSlot(c).halfOpenCalls = 1
    BY <2>4, FieldTypes DEF TakeSlot, Breaker
  <2> QED BY <1>2, <2>1, <2>2, <2>3, <2>4
<1>3. CASE b.state = HalfOpen
  <2>1. b.halfOpenCalls + 1 \in 0 .. HalfOpenMax
    BY <1>3, BreakerAssumption DEF Grants, Breaker, BreakerAssumption
  <2>2. AfterGrant(b) = TakeSlot(b)
    BY <1>3 DEF AfterGrant
  <2>3. /\ TakeSlot(b) \in Breaker
        /\ TakeSlot(b).state = b.state
        /\ TakeSlot(b).halfOpenCalls = b.halfOpenCalls + 1
    BY <2>1 DEF TakeSlot, Breaker
  <2> QED BY <1>3, <2>2, <2>3
<1> QED BY <1>1, <1>2, <1>3 DEF Breaker, CircuitState

\* Time alone moves no breaker and only lengthens the open period.
LEMMA ElapseLemma ==
    ASSUME NEW b \in Breaker
    PROVE  /\ Elapse(b) \in Breaker
           /\ Elapse(b).state = b.state
           /\ Elapse(b).halfOpenCalls = b.halfOpenCalls
           /\ Elapse(b).openFor <= b.openFor + 1
BY BreakerAssumption DEF Elapse, Breaker, BreakerAssumption

-----------------------------------------------------------------------------
\* The evidence in the window.

\* A window of at most WindowSize outcomes holds no more failures than outcomes.
LEMMA FailuresBound ==
    ASSUME NEW w \in Seq(BOOLEAN)
    PROVE  /\ IsFiniteSet({i \in DOMAIN w : ~ w[i]})
           /\ Failures(w) \in Nat /\ Failures(w) <= Len(w)
<1>1. DOMAIN w = 1 .. Len(w) /\ Len(w) \in Nat
  OBVIOUS
<1>2. IsFiniteSet(DOMAIN w) /\ Cardinality(DOMAIN w) = Len(w)
  BY <1>1, FS_Interval
<1>3. {i \in DOMAIN w : ~ w[i]} \in SUBSET DOMAIN w
  OBVIOUS
<1>4. IsFiniteSet({i \in DOMAIN w : ~ w[i]}) /\ Failures(w) <= Len(w)
  BY <1>2, <1>3, FS_Subset DEF Failures
<1> QED BY <1>4, FS_CardinalityType DEF Failures

\* Noting one outcome adds at most one failure, a success none; the window then
\* ends in that outcome.
LEMMA FailuresRemember ==
    ASSUME NEW w \in Windows, NEW ok \in BOOLEAN
    PROVE  /\ Failures(Remember(w, ok)) <= Failures(w) + (IF ok THEN 0 ELSE 1)
           /\ Remember(w, ok)[Len(Remember(w, ok))] = ok
<1> DEFINE longer == Append(w, ok)
           fails == {i \in DOMAIN w : ~ w[i]}
           more == {i \in DOMAIN longer : ~ longer[i]}
<1>1. w \in Seq(BOOLEAN) /\ longer \in Seq(BOOLEAN)
  BY DEF Windows
<1>2. Len(w) \in Nat /\ Len(longer) = Len(w) + 1 /\ longer[Len(w) + 1] = ok
      /\ \A i \in 1 .. Len(w) : longer[i] = w[i]
  BY <1>1
<1>3. more = IF ok THEN fails ELSE fails \cup {Len(w) + 1}
  <2>1. DOMAIN w = 1 .. Len(w) /\ DOMAIN longer = 1 .. Len(w) + 1
    BY <1>1, <1>2
  <2> HIDE DEF longer
  <2> QED BY <1>2, <2>1
<1>4. IsFiniteSet(fails) /\ IsFiniteSet(more) /\ Failures(w) = Cardinality(fails)
      /\ Failures(w) \in Nat /\ Failures(longer) \in Nat /\ Failures(longer) = Cardinality(more)
  <2>1. IsFiniteSet(more) /\ Failures(longer) \in Nat /\ Failures(longer) = Cardinality(more)
    BY <1>1, FailuresBound DEF Failures
  <2>2. IsFiniteSet(fails) /\ Failures(w) \in Nat /\ Failures(w) = Cardinality(fails)
    BY <1>1, FailuresBound DEF Failures
  <2> QED BY <2>1, <2>2
<1>5. Failures(longer) <= Failures(w) + (IF ok THEN 0 ELSE 1)
  <2> HIDE DEF longer, fails, more
  <2>1. CASE ok
    BY <1>3, <1>4, <2>1
  <2>2. CASE ~ ok
    <3>1. Cardinality(more) <= Cardinality(fails) + 1
      BY <1>3, <1>4, <2>2, FS_AddElement
    <3> QED BY <1>4, <2>2, <3>1
  <2> QED BY <2>1, <2>2
<1>6. CASE Len(longer) > WindowSize
  <2> DEFINE t == Tail(longer)
             less == {i \in DOMAIN t : ~ t[i]}
  <2>1. t \in Seq(BOOLEAN) /\ Len(t) = Len(w) /\ \A i \in 1 .. Len(w) : t[i] = longer[i + 1]
    <3>1. longer # << >>
      BY <1>1, <1>2
    <3> HIDE DEF longer
    <3> QED BY <1>1, <1>2, <3>1
  <2>2. Len(w) > 0
    BY <1>2, <1>6, BreakerAssumption DEF BreakerAssumption
  <2>3. t[Len(t)] = ok
    BY <1>2, <2>1, <2>2
  <2>4. Failures(t) <= Failures(longer)
    <3> DEFINE shift == [i \in less |-> i + 1]
    <3>1. DOMAIN t = 1 .. Len(w) /\ DOMAIN longer = 1 .. Len(w) + 1
      <4>1. DOMAIN t = 1 .. Len(t) /\ DOMAIN longer = 1 .. Len(longer)
        BY <1>1, <2>1
      <4> HIDE DEF t, longer
      <4> QED BY <1>2, <2>1, <4>1
    <3>2. shift \in Injection(less, more)
      <4>1. \A i \in less : i \in Nat /\ i + 1 \in more
        <5> HIDE DEF t, longer
        <5> QED BY <1>2, <2>1, <3>1
      <4>2. shift \in [less -> more]
        BY <4>1
      <4>3. \A i, j \in less : shift[i] = shift[j] => i = j
        BY <4>1
      <4> HIDE DEF shift
      <4> QED BY <4>2, <4>3 DEF Injection, IsInjective
    <3>3. Cardinality(less) <= Cardinality(more)
      <4> HIDE DEF shift, less, more
      <4> QED BY <1>4, <3>2, FS_Injection
    <3> QED BY <1>4, <3>3 DEF Failures
  <2>5. Failures(t) \in Nat
    BY <2>1, FailuresBound
  <2>6. Remember(w, ok) = t
    BY <1>6 DEF Remember
  <2> HIDE DEF t, longer
  <2> QED BY <1>4, <1>5, <2>3, <2>4, <2>5, <2>6
<1>7. CASE ~ (Len(longer) > WindowSize)
  <2>1. Remember(w, ok) = longer
    BY <1>7 DEF Remember
  <2> HIDE DEF longer
  <2> QED BY <1>2, <1>5, <2>1
<1> QED BY <1>6, <1>7
=============================================================================
