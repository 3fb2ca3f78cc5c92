------------------------- MODULE BreakerCallsProofs -------------------------
(***************************************************************************)
(* Theorems about BreakerCalls, for every value of its constants: the type *)
(* invariant, the accounting of half-open slots, what it takes to trip,    *)
(* how long a breaker stays open, when no attempt outlives the reset       *)
(* timeout, that a half-open breaker hears only from its own probes, and   *)
(* when a half-open period may end and when it never does.                 *)
(***************************************************************************)
EXTENDS BreakerCalls, CircuitBreakerProofs, FiniteSetTheorems, TLAPS

-----------------------------------------------------------------------------
\* What a step does, action by action, to the parts the invariants speak of.

\* The history bookkeeping keeps its types, and a transition leaves no other
\* attempt fresh while everything else about it stays.
LEMMA SeenType ==
    ASSUME NEW as \in [Attempts -> Attempt], NEW from, NEW to
    PROVE  /\ Seen(as, from, to) \in [Attempts -> Attempt]
           /\ \A a \in Attempts :
                 /\ Seen(as, from, to)[a].phase = as[a].phase
                 /\ Seen(as, from, to)[a].probe = as[a].probe
                 /\ Seen(as, from, to)[a].held = as[a].held
                 /\ to.state = from.state => Seen(as, from, to)[a].fresh = as[a].fresh
                 /\ to.state # from.state => Seen(as, from, to)[a].fresh = FALSE
<1>1. CASE to.state = from.state
  BY <1>1 DEF Seen
<1>2. CASE to.state # from.state
  BY <1>2 DEF Seen, Attempt
<1> QED BY <1>1, <1>2

LEMMA HistoryType ==
    ASSUME NEW h \in History, NEW from, NEW to
    PROVE  NoteTransition(h, from, to) \in History /\ NoteFailure(h) \in History
<1>1. NoteTransition(h, from, to) \in History
  BY BreakerAssumption DEF History, NoteTransition, BreakerAssumption
<1>2. NoteFailure(h) \in History
  BY BreakerAssumption DEF History, NoteFailure, BreakerAssumption
<1> QED BY <1>1, <1>2

LEMMA AttemptType ==
    /\ NoAttempt \in Attempt
    /\ \A from \in Breaker, phase \in {"granted", "calling"} :
          Granted(from, phase) \in Attempt
BY AttemptAssumption DEF NoAttempt, Granted, Attempt, AttemptAssumption

-----------------------------------------------------------------------------
\* Type correctness.

LEMMA TypeInit == Init => TypeOK
<1> SUFFICES ASSUME Init PROVE TypeOK
  OBVIOUS
<1>2. breaker \in Breaker
  BY FieldTypes DEF Init, NewBreaker, Breaker
<1>3. attempts \in [Attempts -> Attempt]
  BY AttemptType DEF Init
<1>4. history \in History
  BY BreakerAssumption DEF Init, History, BreakerAssumption
<1> QED BY <1>2, <1>3, <1>4 DEF TypeOK

LEMMA TypeStep == TypeOK /\ [Next]_vars => TypeOK'
<1> SUFFICES ASSUME TypeOK, [Next]_vars PROVE TypeOK'
  OBVIOUS
<1> USE DEF TypeOK
<1>1. ASSUME NEW a \in Attempts, Ask(a) PROVE TypeOK'
  <2>1. breaker' \in Breaker
    BY <1>1, AfterGrantLemma DEF Ask
  <2>2. Seen(attempts, breaker, breaker') \in [Attempts -> Attempt]
    BY SeenType
  <2>3. attempts' \in [Attempts -> Attempt]
    BY <1>1, <2>2, AttemptType DEF Ask
  <2>4. history' \in History
    BY <1>1, HistoryType DEF Ask
  <2> QED BY <2>1, <2>3, <2>4
<1>2. ASSUME NEW a \in Attempts, Send(a) PROVE TypeOK'
  BY <1>2 DEF Send, Attempt
<1>3. ASSUME NEW a \in Attempts, Succeed(a) PROVE TypeOK'
  <2>1. breaker' \in Breaker
    BY <1>3, RecordSuccessLemma DEF Succeed
  <2>2. Seen(attempts, breaker, breaker') \in [Attempts -> Attempt]
    BY SeenType
  <2>3. attempts' \in [Attempts -> Attempt]
    BY <1>3, <2>2, AttemptType DEF Succeed
  <2>4. history' \in History
    BY <1>3, HistoryType DEF Succeed
  <2> QED BY <2>1, <2>3, <2>4
<1>4. ASSUME NEW a \in Attempts, Fail(a) PROVE TypeOK'
  <2>1. breaker' \in Breaker
    BY <1>4, RecordFailureLemma DEF Fail
  <2>2. Seen(attempts, breaker, breaker') \in [Attempts -> Attempt]
    BY SeenType
  <2>3. attempts' \in [Attempts -> Attempt]
    BY <1>4, <2>2, AttemptType DEF Fail
  <2>4. history' \in History
    BY <1>4, HistoryType DEF Fail
  <2> QED BY <2>1, <2>3, <2>4
<1>5. ASSUME NEW a \in Attempts, FailAndAsk(a) PROVE TypeOK'
  <2> DEFINE failed == RecordFailure(breaker)
             others == Seen(Seen(attempts, breaker, failed), failed, breaker')
  <2>1. failed \in Breaker
    BY RecordFailureLemma
  <2>2. breaker' \in Breaker
    BY <1>5, <2>1, AfterGrantLemma DEF FailAndAsk
  <2>3. others \in [Attempts -> Attempt]
    BY SeenType
  <2>4. attempts' \in [Attempts -> Attempt]
    BY <1>5, <2>1, <2>3, AttemptType DEF FailAndAsk
  <2>5. history' \in History
    BY <1>5, HistoryType DEF FailAndAsk
  <2> QED BY <2>2, <2>4, <2>5
<1>6. ASSUME NEW a \in Attempts, Escape(a) PROVE TypeOK'
  BY <1>6, AttemptType DEF Escape
<1>7. CASE Tick
  <2>1. breaker' \in Breaker
    BY <1>7, ElapseLemma DEF Tick
  <2>2. attempts' \in [Attempts -> Attempt]
    BY <1>7, AttemptAssumption DEF Tick, Outstanding, Attempt, AttemptAssumption
  <2>3. history' \in History
    BY <1>7, BreakerAssumption DEF Tick, History, BreakerAssumption
  <2> QED BY <2>1, <2>2, <2>3
<1>8. CASE UNCHANGED vars
  BY <1>8 DEF vars
<1> QED BY <1>1, <1>2, <1>3, <1>4, <1>5, <1>6, <1>7, <1>8 DEF Next

\* The breaker, the attempts on it and the history keep their types: the window
\* never outgrows window_size, half-open calls never exceed half_open_max.
THEOREM TypeCorrect == Spec => []TypeOK
<1> QED BY TypeInit, TypeStep, PTL DEF Spec

-----------------------------------------------------------------------------
\* Probe slots.

\* A fresh attempt was admitted by the state the breaker is still in.
FreshInv ==
    \A a \in Outstanding : attempts[a].fresh =>
        breaker.state = IF attempts[a].probe THEN HalfOpen ELSE Closed

\* The counter as ProbesAccounted needs it, in every state of the breaker.
SlotInv ==
    /\ breaker.state = HalfOpen <=> breaker.halfOpenCalls > 0
    /\ IsFiniteSet(Probes)
    /\ Cardinality(Probes) <= breaker.halfOpenCalls
    /\ MayEscape \/ Cardinality(Probes) = breaker.halfOpenCalls

AccountInv == TypeOK /\ FreshInv /\ SlotInv

\* Outside half-open there is no probe of the current period.
LEMMA NoProbeOutsideHalfOpen ==
    ASSUME FreshInv, breaker.state # HalfOpen
    PROVE  Probes = {}
BY DEF FreshInv, Probes

\* A step that leaves the breaker's state and slots, and who is out on what
\* terms, as they were, leaves the slots accounted for.
LEMMA AccountSame ==
    ASSUME AccountInv,
           breaker'.state = breaker.state,
           breaker'.halfOpenCalls = breaker.halfOpenCalls,
           \A x \in Attempts :
              /\ attempts'[x].phase = "none" <=> attempts[x].phase = "none"
              /\ attempts'[x].probe = attempts[x].probe
              /\ attempts'[x].fresh = attempts[x].fresh
    PROVE  FreshInv' /\ SlotInv'
<1>1. Outstanding' = Outstanding
  BY DEF Outstanding
<1>2. Probes' = Probes
  BY <1>1 DEF Probes, Outstanding
<1>3. FreshInv'
  BY <1>1 DEF AccountInv, FreshInv, Outstanding
<1>4. SlotInv'
  BY <1>2 DEF AccountInv, SlotInv
<1> QED BY <1>3, <1>4

LEMMA AccountInit == Init => AccountInv
<1> SUFFICES ASSUME Init PROVE AccountInv
  OBVIOUS
<1>1. TypeOK
  BY TypeInit
<1>2. Outstanding = {} /\ Probes = {}
  BY DEF Init, Outstanding, Probes, NoAttempt
<1>3. FreshInv
  BY <1>2 DEF FreshInv
<1>4. breaker.state = Closed /\ breaker.halfOpenCalls = 0
  BY DEF Init, NewBreaker
<1>5. SlotInv
  BY <1>2, <1>4, FS_EmptySet DEF SlotInv, Closed, HalfOpen
<1> QED BY <1>1, <1>3, <1>5 DEF AccountInv

\* A granted attempt joins the probes when the breaker was half-open, is the
\* only one when it was open, and leaves them alone when it was closed.
LEMMA AccountAsk ==
    ASSUME AccountInv, NEW a \in Attempts, Ask(a), TypeOK'
    PROVE  FreshInv' /\ SlotInv'
<1> USE DEF AccountInv, TypeOK
<1> DEFINE others == Seen(attempts, breaker, breaker')
<1>1. /\ breaker \in Breaker /\ Grants(breaker)
      /\ breaker' = AfterGrant(breaker)
      /\ attempts[a].phase = "none"
  BY DEF Ask
<1>2. PICK phase \in {"granted", "calling"} :
         attempts' = [others EXCEPT ![a] = Granted(breaker, phase)]
  BY DEF Ask
<1>0. breaker'.state # breaker.state => \A x \in Attempts : others[x].fresh = FALSE
  BY DEF Seen, Attempt
<1>3. /\ attempts'[a].phase # "none" /\ attempts'[a].fresh
      /\ attempts'[a].probe = (breaker.state # Closed)
      /\ \A x \in Attempts \ {a} : attempts'[x] = others[x]
  BY <1>2, SeenType DEF Granted
<1>4. a \notin Probes
  BY <1>1 DEF Probes, Outstanding
<1> HIDE DEF others
<1>5. CASE breaker.state = Closed
  <2>1. breaker' = breaker
    BY <1>1, <1>5, AfterGrantLemma
  <2>2. \A x \in Attempts \ {a} : attempts'[x] = attempts[x]
    BY <1>3, <2>1 DEF others, Seen
  <2>3. FreshInv'
    BY <1>3, <1>5, <2>1, <2>2 DEF FreshInv, Outstanding
  <2>4. Probes' = Probes
    BY <1>3, <1>4, <1>5, <2>2 DEF Probes, Outstanding
  <2> QED BY <2>1, <2>3, <2>4 DEF SlotInv
<1>6. CASE breaker.state = Open
  <2>1. breaker'.state = HalfOpen /\ breaker'.halfOpenCalls = 1
    BY <1>1, <1>6, AfterGrantLemma
  <2>2. \A x \in Attempts \ {a} : attempts'[x].fresh = FALSE
    BY <1>0, <1>3, <1>6, <2>1 DEF Open, HalfOpen
  <2>3. Probes' = {a}
    BY <1>3, <1>6, <2>2 DEF Probes, Outstanding, Open, Closed
  <2>4. FreshInv'
    BY <1>3, <1>6, <2>1, <2>2 DEF FreshInv, Outstanding, Open, Closed
  <2>5. IsFiniteSet({a}) /\ Cardinality({a}) = 1
    BY FS_Singleton
  <2> QED BY <2>1, <2>3, <2>4, <2>5 DEF SlotInv
<1>7. CASE breaker.state = HalfOpen
  <2>1. /\ breaker'.state = HalfOpen
        /\ breaker'.halfOpenCalls = breaker.halfOpenCalls + 1
    BY <1>1, <1>7, AfterGrantLemma
  <2>2. \A x \in Attempts \ {a} : attempts'[x] = attempts[x]
    BY <1>3, <1>7, <2>1 DEF others, Seen
  <2>3. FreshInv'
    BY <1>3, <1>7, <2>1, <2>2 DEF FreshInv, Outstanding, HalfOpen, Closed
  <2>4. Probes' = Probes \cup {a}
    BY <1>3, <1>7, <2>2 DEF Probes, Outstanding, HalfOpen, Closed
  <2>5. /\ IsFiniteSet(Probes \cup {a})
        /\ Cardinality(Probes \cup {a}) = Cardinality(Probes) + 1
    BY <1>4, FS_AddElement DEF SlotInv
  <2>6. Cardinality(Probes) \in Nat /\ breaker.halfOpenCalls \in Nat
    BY FS_CardinalityType, BreakerAssumption DEF SlotInv, Breaker, BreakerAssumption
  <2> QED BY <2>1, <2>3, <2>4, <2>5, <2>6 DEF SlotInv
<1> QED BY <1>1, <1>5, <1>6, <1>7 DEF Breaker, CircuitState

\* An answer ends the half-open period, with all its probes, or comes when there
\* is none.
LEMMA AccountAnswer ==
    ASSUME AccountInv, NEW a \in Attempts, Succeed(a) \/ Fail(a), TypeOK'
    PROVE  FreshInv' /\ SlotInv'
<1> USE DEF AccountInv, TypeOK
<1> DEFINE others == Seen(attempts, breaker, breaker')
<1>1. attempts' = [others EXCEPT ![a] = NoAttempt]
  BY DEF Succeed, Fail
<1>0. breaker'.state # breaker.state => \A x \in Attempts : others[x].fresh = FALSE
  BY DEF Seen, Attempt
<1>2. /\ attempts'[a].phase = "none"
      /\ \A x \in Attempts \ {a} : attempts'[x] = others[x]
  BY <1>1, SeenType DEF NoAttempt
<1> HIDE DEF others
<1>3. /\ breaker'.state = breaker.state => breaker'.halfOpenCalls = breaker.halfOpenCalls
      /\ breaker'.state # breaker.state => breaker'.halfOpenCalls = 0
      /\ breaker'.state # HalfOpen
  <2>1. CASE breaker' = RecordSuccess(breaker)
    BY <2>1, RecordSuccessLemma DEF Closed, HalfOpen
  <2>2. CASE breaker' = RecordFailure(breaker)
    <3>1. breaker.state = Open => breaker.halfOpenCalls = 0
      BY BreakerAssumption DEF SlotInv, Breaker, BreakerAssumption, Open, HalfOpen
    <3> QED BY <2>2, <3>1, RecordFailureLemma DEF Open, HalfOpen
  <2> QED BY <2>1, <2>2 DEF Succeed, Fail
<1>4. FreshInv'
  <2>1. CASE breaker'.state = breaker.state
    <3>1. \A x \in Attempts \ {a} : attempts'[x] = attempts[x]
      BY <1>2, <2>1 DEF others, Seen
    <3> QED BY <1>2, <2>1, <3>1 DEF FreshInv, Outstanding
  <2>2. CASE breaker'.state # breaker.state
    <3>1. \A x \in Attempts \ {a} : attempts'[x].fresh = FALSE
      BY <1>0, <1>2, <2>2
    <3> QED BY <1>2, <3>1 DEF FreshInv, Outstanding
  <2> QED BY <2>1, <2>2
<1>5. Probes' = {}
  BY <1>3, <1>4 DEF FreshInv, Probes
<1>6. breaker'.halfOpenCalls = 0
  <2>1. breaker'.state = breaker.state => breaker.halfOpenCalls = 0
    BY <1>3, BreakerAssumption DEF SlotInv, Breaker, BreakerAssumption
  <2> QED BY <1>3, <2>1
<1>7. SlotInv'
  BY <1>3, <1>5, <1>6, FS_EmptySet DEF SlotInv
<1> QED BY <1>4, <1>7

\* A failure followed by a grant on the same breaker: either the breaker is
\* closed all along, or its open period was just over.
LEMMA FailAndAskLemma ==
    ASSUME NEW b \in Breaker, Grants(RecordFailure(b))
    PROVE  LET failed == RecordFailure(b)
           IN  /\ failed \in Breaker
               /\ failed.state = b.state
               /\ \/ b.state = Closed /\ AfterGrant(failed) = failed
                  \/ /\ b.state = Open /\ b.openFor = ResetTimeout
                     /\ AfterGrant(failed).state = HalfOpen
                     /\ AfterGrant(failed).halfOpenCalls = 1
<1> DEFINE failed == RecordFailure(b)
<1>1. failed \in Breaker
  BY RecordFailureLemma
<1>2. failed.state = Open => failed.openFor = ResetTimeout
  BY <1>1, AfterGrantLemma
<1>3. /\ b.state # HalfOpen
      /\ failed.state = b.state
      /\ failed.openFor = b.openFor
  BY <1>2, RecordFailureLemma, BreakerAssumption DEF BreakerAssumption
<1> HIDE DEF failed
<1>4. CASE b.state = Closed
  BY <1>1, <1>3, <1>4, AfterGrantLemma DEF failed
<1>5. CASE b.state = Open
  BY <1>1, <1>2, <1>3, <1>5, AfterGrantLemma DEF failed
<1> QED BY <1>1, <1>3, <1>4, <1>5 DEF failed, Breaker, CircuitState

LEMMA AccountFailAndAsk ==
    ASSUME AccountInv, NEW a \in Attempts, FailAndAsk(a), TypeOK'
    PROVE  FreshInv' /\ SlotInv'
<1> USE DEF AccountInv, TypeOK
<1> DEFINE failed == RecordFailure(breaker)
           others == Seen(Seen(attempts, breaker, failed), failed, breaker')
<1>1. /\ Grants(failed)
      /\ breaker' = AfterGrant(failed)
  BY DEF FailAndAsk
<1>2. PICK phase \in {"granted", "calling"} :
         attempts' = [others EXCEPT ![a] = Granted(failed, phase)]
  BY DEF FailAndAsk
<1>0. breaker'.state # failed.state => \A x \in Attempts : others[x].fresh = FALSE
  <2>1. Seen(attempts, breaker, failed) \in [Attempts -> Attempt]
    BY SeenType
  <2> HIDE DEF failed
  <2> QED BY <2>1 DEF Seen, Attempt
<1>3. /\ attempts'[a].phase # "none" /\ attempts'[a].fresh
      /\ attempts'[a].probe = (failed.state # Closed)
      /\ \A x \in Attempts \ {a} : attempts'[x] = others[x]
  BY <1>2, SeenType DEF Granted
<1>4. failed.state = breaker.state /\ Seen(attempts, breaker, failed) = attempts
  BY <1>1, FailAndAskLemma DEF Seen
<1>5. Probes = {}
  BY <1>1, FailAndAskLemma DEF FreshInv, Probes, Closed, Open, HalfOpen
<1> HIDE DEF failed, others
<1>6. CASE breaker.state = Closed
  <2>1. breaker' = failed
    BY <1>1, <1>6, FailAndAskLemma DEF failed, Closed, Open
  <2>2. breaker'.state = Closed /\ breaker'.halfOpenCalls = 0
    <3>1. breaker.halfOpenCalls = 0
      BY <1>6, BreakerAssumption DEF SlotInv, Breaker, BreakerAssumption, Closed, HalfOpen
    <3> QED BY <1>4, <1>6, <2>1, <3>1, RecordFailureLemma DEF failed
  <2>3. \A x \in Attempts \ {a} : attempts'[x] = attempts[x]
    BY <1>3, <1>4, <2>1 DEF others, Seen
  <2>4. FreshInv'
    BY <1>3, <1>4, <1>6, <2>2, <2>3 DEF FreshInv, Outstanding
  <2>5. Probes' = {}
    BY <2>2, <2>4 DEF FreshInv, Probes, Closed, HalfOpen
  <2> QED BY <2>2, <2>4, <2>5, FS_EmptySet DEF SlotInv, Closed, HalfOpen
<1>7. CASE breaker.state = Open
  <2>1. breaker'.state = HalfOpen /\ breaker'.halfOpenCalls = 1
    BY <1>1, <1>7, FailAndAskLemma DEF failed, Closed, Open
  <2>2. \A x \in Attempts \ {a} : attempts'[x].fresh = FALSE
    BY <1>0, <1>3, <1>4, <1>7, <2>1 DEF Open, HalfOpen
  <2>3. Probes' = {a}
    BY <1>3, <1>4, <1>7, <2>2 DEF Probes, Outstanding, Open, Closed
  <2>4. FreshInv'
    BY <1>3, <1>4, <1>7, <2>1, <2>2 DEF FreshInv, Outstanding, Open, Closed
  <2>5. IsFiniteSet({a}) /\ Cardinality({a}) = 1
    BY FS_Singleton
  <2> QED BY <2>1, <2>3, <2>4, <2>5 DEF SlotInv
<1> QED BY <1>1, <1>6, <1>7, FailAndAskLemma DEF failed

LEMMA AccountStep == AccountInv /\ [Next]_vars => AccountInv'
<1> SUFFICES ASSUME AccountInv, [Next]_vars PROVE AccountInv'
  OBVIOUS
<1>1. TypeOK'
  BY TypeStep DEF AccountInv
<1>2. ASSUME NEW a \in Attempts, Ask(a) PROVE FreshInv' /\ SlotInv'
  BY <1>1, <1>2, AccountAsk
<1>3. ASSUME NEW a \in Attempts, Send(a) PROVE FreshInv' /\ SlotInv'
  <2>1. /\ breaker' = breaker
        /\ \A x \in Attempts :
              /\ attempts'[x].phase = "none" <=> attempts[x].phase = "none"
              /\ attempts'[x].probe = attempts[x].probe
              /\ attempts'[x].fresh = attempts[x].fresh
    BY <1>3 DEF Send, AccountInv, TypeOK, Attempt
  <2> QED BY <2>1, AccountSame
<1>4. ASSUME NEW a \in Attempts, Succeed(a) PROVE FreshInv' /\ SlotInv'
  BY <1>1, <1>4, AccountAnswer
<1>5. ASSUME NEW a \in Attempts, Fail(a) PROVE FreshInv' /\ SlotInv'
  BY <1>1, <1>5, AccountAnswer
<1>6. ASSUME NEW a \in Attempts, FailAndAsk(a) PROVE FreshInv' /\ SlotInv'
  BY <1>1, <1>6, AccountFailAndAsk
<1>7. ASSUME NEW a \in Attempts, Escape(a) PROVE FreshInv' /\ SlotInv'
  <2>1. /\ MayEscape
        /\ attempts'[a].phase = "none"
        /\ \A x \in Attempts \ {a} : attempts'[x] = attempts[x]
        /\ breaker' = breaker
    BY <1>7 DEF Escape, AccountInv, TypeOK, NoAttempt
  <2>2. Outstanding' = Outstanding \ {a} /\ Probes' = Probes \ {a}
    BY <2>1 DEF Outstanding, Probes
  <2>3. FreshInv'
    BY <2>1, <2>2 DEF AccountInv, FreshInv, Outstanding
  <2>4. IsFiniteSet(Probes) /\ Cardinality(Probes) \in Nat
    BY FS_CardinalityType DEF AccountInv, SlotInv
  <2>5. /\ IsFiniteSet(Probes \ {a})
        /\ Cardinality(Probes \ {a}) \in Nat
        /\ Cardinality(Probes \ {a}) <= Cardinality(Probes)
    <3>1. /\ IsFiniteSet(Probes \ {a})
          /\ Cardinality(Probes \ {a}) =
                IF a \in Probes THEN Cardinality(Probes) - 1 ELSE Cardinality(Probes)
      BY <2>4, FS_RemoveElement
    <3>2. Cardinality(Probes \ {a}) \in Nat
      BY <3>1, FS_CardinalityType
    <3> QED BY <2>4, <3>1, <3>2
  <2>6. breaker.halfOpenCalls \in Nat
    BY BreakerAssumption DEF AccountInv, TypeOK, Breaker, BreakerAssumption
  <2>7. SlotInv'
    BY <2>1, <2>2, <2>4, <2>5, <2>6 DEF AccountInv, SlotInv
  <2> QED BY <2>3, <2>7
<1>8. CASE Tick
  <2>1. /\ breaker'.state = breaker.state
        /\ breaker'.halfOpenCalls = breaker.halfOpenCalls
    BY <1>8, ElapseLemma DEF Tick, AccountInv, TypeOK
  <2>2. \A x \in Attempts :
           /\ attempts'[x].phase = attempts[x].phase
           /\ attempts'[x].probe = attempts[x].probe
           /\ attempts'[x].fresh = attempts[x].fresh
    BY <1>8 DEF Tick, AccountInv, TypeOK, Attempt
  <2>3. FreshInv' /\ SlotInv'
    BY <2>1, <2>2, AccountSame
  <2> QED BY <1>1, <2>3 DEF AccountInv
<1>9. CASE UNCHANGED vars
  <2>1. FreshInv' /\ SlotInv'
    BY <1>9, AccountSame DEF vars
  <2> QED BY <1>1, <2>1 DEF AccountInv
<1> QED BY <1>1, <1>2, <1>3, <1>4, <1>5, <1>6, <1>7, <1>8, <1>9 DEF Next, AccountInv

\* Half-open slots are neither invented nor lost, for any number of attempts and
\* any half_open_max.
THEOREM SlotsAccounted == Spec => []ProbesAccounted
<1>1. AccountInv => ProbesAccounted
  <2> SUFFICES ASSUME AccountInv PROVE ProbesAccounted
    OBVIOUS
  <2>1. breaker.state # HalfOpen => breaker.halfOpenCalls = 0
    BY BreakerAssumption DEF AccountInv, SlotInv, TypeOK, Breaker, BreakerAssumption
  <2>2. breaker.state # HalfOpen => Probes = {}
    BY NoProbeOutsideHalfOpen DEF AccountInv
  <2> QED BY <2>1, <2>2 DEF AccountInv, SlotInv, ProbesAccounted
<1> QED BY <1>1, AccountInit, AccountStep, PTL DEF Spec

-----------------------------------------------------------------------------
\* Prompt attempts: none outlives the reset timeout.

\* While the breaker is open, whoever is still out was admitted before it opened
\* (or before its last late failure); so once the reset timeout is over nobody
\* is, and a half-open period starts with its own probes only.
PromptInv ==
    /\ TypeOK
    /\ breaker.state = Open =>
          \A a \in Outstanding : attempts[a].held >= breaker.openFor
    /\ breaker.state = HalfOpen =>
          \A a \in Outstanding : attempts[a].probe /\ attempts[a].fresh

\* After a full reset timeout nobody admitted before it is still out.
LEMMA NobodyLeft ==
    ASSUME MaxHold < ResetTimeout, PromptInv,
           breaker.state = Open, breaker.openFor = ResetTimeout
    PROVE  Outstanding = {}
<1> SUFFICES ASSUME NEW a \in Outstanding PROVE FALSE
  OBVIOUS
<1>1. attempts[a].held >= ResetTimeout
  BY DEF PromptInv
<1>2. attempts[a].held \in Nat /\ attempts[a].held <= MaxHold
  BY AttemptAssumption
     DEF PromptInv, TypeOK, Outstanding, Attempt, AttemptAssumption
<1> QED BY <1>1, <1>2, BreakerAssumption, AttemptAssumption
        DEF BreakerAssumption, AttemptAssumption

LEMMA PromptInit == Init => PromptInv
<1> SUFFICES ASSUME Init PROVE PromptInv
  OBVIOUS
<1>1. Outstanding = {}
  BY DEF Init, Outstanding, NoAttempt
<1> QED BY <1>1, TypeInit DEF PromptInv

\* An attempt that goes away, with the breaker's state and timer as they were or
\* the breaker newly opened or closed, leaves the others as the invariant wants.
LEMMA PromptLeave ==
    ASSUME PromptInv, TypeOK', NEW a \in Attempts,
           attempts'[a].phase = "none",
           \A x \in Attempts \ {a} :
              /\ attempts'[x].phase = attempts[x].phase
              /\ attempts'[x].held = attempts[x].held
              /\ attempts'[x].probe = attempts[x].probe
              /\ breaker'.state = breaker.state => attempts'[x].fresh = attempts[x].fresh,
           \/ breaker'.state = breaker.state /\ breaker'.openFor = breaker.openFor
           \/ breaker'.state = Open /\ breaker'.openFor = 0
           \/ breaker'.state = Closed
    PROVE  PromptInv'
<1>1. Outstanding' \subseteq Outstanding /\ a \notin Outstanding'
  BY DEF Outstanding
<1>2. \A x \in Outstanding' : attempts'[x].held \in Nat
  BY AttemptAssumption DEF TypeOK, Outstanding, Attempt, AttemptAssumption
<1>3. CASE breaker'.state = breaker.state /\ breaker'.openFor = breaker.openFor
  BY <1>1, <1>3 DEF PromptInv, Outstanding
<1>4. CASE breaker'.state = Open /\ breaker'.openFor = 0
  BY <1>2, <1>4 DEF PromptInv, Open, HalfOpen
<1>5. CASE breaker'.state = Closed
  BY <1>5 DEF PromptInv, Closed, Open, HalfOpen
<1> QED BY <1>3, <1>4, <1>5

LEMMA PromptStep ==
    ASSUME MaxHold < ResetTimeout, PromptInv, [Next]_vars
    PROVE  PromptInv'
<1>1. TypeOK /\ TypeOK'
  BY TypeStep DEF PromptInv
<1> USE DEF TypeOK
<1>2. ASSUME NEW a \in Attempts, Ask(a) PROVE PromptInv'
  <2> DEFINE others == Seen(attempts, breaker, breaker')
  <2>1. /\ breaker \in Breaker /\ Grants(breaker)
        /\ breaker' = AfterGrant(breaker)
    BY <1>1, <1>2 DEF Ask
  <2>2. PICK phase \in {"granted", "calling"} :
           attempts' = [others EXCEPT ![a] = Granted(breaker, phase)]
    BY <1>2 DEF Ask
  <2>3. /\ attempts'[a].fresh /\ attempts'[a].probe = (breaker.state # Closed)
        /\ \A x \in Attempts \ {a} : attempts'[x] = others[x]
    BY <1>1, <2>2, SeenType DEF Granted
  <2>0. \A x \in Attempts : others[x].phase = attempts[x].phase
    BY <1>1 DEF Seen, Attempt
  <2> HIDE DEF others
  <2>4. CASE breaker.state = Closed
    BY <1>1, <2>1, <2>4, AfterGrantLemma DEF PromptInv, Closed, Open, HalfOpen
  <2>5. CASE breaker.state = Open
    <3>1. breaker'.state = HalfOpen /\ Outstanding = {}
      BY <2>1, <2>5, AfterGrantLemma, NobodyLeft
    <3>2. \A x \in Attempts \ {a} : attempts'[x].phase = "none"
      BY <2>0, <2>3, <3>1 DEF Outstanding
    <3> QED BY <1>1, <2>3, <2>5, <3>1, <3>2
            DEF PromptInv, Outstanding, Closed, Open, HalfOpen
  <2>6. CASE breaker.state = HalfOpen
    <3>1. breaker'.state = HalfOpen
      BY <2>1, <2>6, AfterGrantLemma
    <3>2. \A x \in Attempts \ {a} : attempts'[x] = attempts[x]
      BY <2>3, <2>6, <3>1 DEF others, Seen
    <3> QED BY <1>1, <2>3, <2>6, <3>1, <3>2
            DEF PromptInv, Outstanding, Closed, Open, HalfOpen
  <2> QED BY <2>1, <2>4, <2>5, <2>6 DEF Breaker, CircuitState
<1>3. ASSUME NEW a \in Attempts, Send(a) PROVE PromptInv'
  <2>1. /\ breaker' = breaker
        /\ \A x \in Attempts :
              /\ attempts'[x].phase = "none" <=> attempts[x].phase = "none"
              /\ attempts'[x].held = attempts[x].held
              /\ attempts'[x].probe = attempts[x].probe
              /\ attempts'[x].fresh = attempts[x].fresh
    BY <1>1, <1>3 DEF Send, Attempt
  <2> QED BY <1>1, <2>1 DEF PromptInv, Outstanding
<1>4. ASSUME NEW a \in Attempts, Succeed(a) \/ Fail(a) PROVE PromptInv'
  <2> DEFINE others == Seen(attempts, breaker, breaker')
  <2>1. attempts' = [others EXCEPT ![a] = NoAttempt]
    BY <1>4 DEF Succeed, Fail
  <2>2. /\ attempts'[a].phase = "none"
        /\ \A x \in Attempts \ {a} : attempts'[x] = others[x]
    BY <1>1, <2>1, SeenType DEF NoAttempt
  <2>0. \A x \in Attempts :
           /\ others[x].phase = attempts[x].phase
           /\ others[x].held = attempts[x].held
           /\ others[x].probe = attempts[x].probe
           /\ breaker'.state = breaker.state => others[x].fresh = attempts[x].fresh
    <3> SUFFICES ASSUME NEW x \in Attempts
                 PROVE  /\ others[x].phase = attempts[x].phase
                        /\ others[x].held = attempts[x].held
                        /\ others[x].probe = attempts[x].probe
                        /\ breaker'.state = breaker.state
                              => others[x].fresh = attempts[x].fresh
      OBVIOUS
    <3>1. CASE breaker'.state = breaker.state
      BY <3>1 DEF Seen
    <3>2. CASE breaker'.state # breaker.state
      <4>1. others[x] = [attempts[x] EXCEPT !.fresh = FALSE]
        BY <3>2 DEF Seen
      <4>2. attempts[x] \in [phase : {"none", "granted", "calling"},
                              probe : BOOLEAN, fresh : BOOLEAN, held : 0 .. MaxHold]
        BY <1>1 DEF Attempt
      <4> HIDE DEF others
      <4> QED BY <3>2, <4>1, <4>2
    <3> QED BY <3>1, <3>2
  <2> HIDE DEF others
  <2>3. \A x \in Attempts \ {a} :
           /\ attempts'[x].phase = attempts[x].phase
           /\ attempts'[x].held = attempts[x].held
           /\ attempts'[x].probe = attempts[x].probe
           /\ breaker'.state = breaker.state => attempts'[x].fresh = attempts[x].fresh
    BY <2>0, <2>2
  <2>4. \/ breaker'.state = breaker.state /\ breaker'.openFor = breaker.openFor
        \/ breaker'.state = Open /\ breaker'.openFor = 0
        \/ breaker'.state = Closed
    <3>1. CASE Succeed(a)
      <4>1. breaker' = RecordSuccess(breaker) /\ breaker \in Breaker
        BY <1>1, <3>1 DEF Succeed
      <4> QED BY <4>1, RecordSuccessLemma
    <3>2. CASE Fail(a)
      <4>1. breaker' = RecordFailure(breaker) /\ breaker \in Breaker
        BY <1>1, <3>2 DEF Fail
      <4> QED BY <4>1, RecordFailureLemma
    <3> QED BY <1>4, <3>1, <3>2
  <2> QED BY <1>1, <2>2, <2>3, <2>4, PromptLeave
<1>5. ASSUME NEW a \in Attempts, FailAndAsk(a) PROVE PromptInv'
  <2>1. a \in Outstanding
    BY <1>5 DEF FailAndAsk, Outstanding
  <2>2. Grants(RecordFailure(breaker)) /\ breaker' = AfterGrant(RecordFailure(breaker))
    BY <1>5 DEF FailAndAsk
  <2>3. CASE breaker.state = Open
    BY <1>1, <2>1, <2>2, <2>3, FailAndAskLemma, NobodyLeft DEF Closed, Open
  <2>4. CASE breaker.state = Closed
    BY <1>1, <2>2, <2>4, FailAndAskLemma DEF PromptInv, Closed, Open, HalfOpen
  <2> QED BY <1>1, <2>2, <2>3, <2>4, FailAndAskLemma
<1>6. ASSUME NEW a \in Attempts, Escape(a) PROVE PromptInv'
  <2>1. /\ breaker' = breaker
        /\ attempts'[a].phase = "none"
        /\ \A x \in Attempts \ {a} : attempts'[x] = attempts[x]
    BY <1>1, <1>6 DEF Escape, NoAttempt
  <2> QED BY <1>1, <2>1, PromptLeave
<1>7. CASE Tick
  <2>1. /\ breaker'.state = breaker.state
        /\ breaker'.openFor <= breaker.openFor + 1
        /\ breaker.openFor \in Nat /\ breaker'.openFor \in Nat
    BY <1>1, <1>7, ElapseLemma, BreakerAssumption DEF Tick, Breaker, BreakerAssumption
  <2>2. \A x \in Attempts :
           /\ attempts'[x].phase = attempts[x].phase
           /\ attempts'[x].probe = attempts[x].probe
           /\ attempts'[x].fresh = attempts[x].fresh
           /\ attempts[x].phase # "none" => attempts'[x].held = attempts[x].held + 1
    BY <1>1, <1>7 DEF Tick, Attempt
  <2>3. \A x \in Attempts : attempts[x].held \in Nat
    BY <1>1, AttemptAssumption DEF Attempt, AttemptAssumption
  <2>4. Outstanding' = Outstanding
    BY <2>2 DEF Outstanding
  <2>5. breaker.state = Open =>
           \A x \in Outstanding : attempts'[x].held >= breaker'.openFor
    BY <2>1, <2>2, <2>3 DEF PromptInv, Outstanding
  <2>6. breaker.state = HalfOpen =>
           \A x \in Outstanding : attempts'[x].probe /\ attempts'[x].fresh
    BY <2>2 DEF PromptInv, Outstanding
  <2> QED BY <1>1, <2>1, <2>4, <2>5, <2>6 DEF PromptInv
<1>8. CASE UNCHANGED vars
  BY <1>1, <1>8 DEF vars, PromptInv, Outstanding
<1> QED BY <1>2, <1>3, <1>4, <1>5, <1>6, <1>7, <1>8 DEF Next

\* When no attempt, backoff included, outlives the reset timeout, a half-open
\* breaker has only its own probes in flight, so no verdict but theirs.
THEOREM HalfOpenHearsOnlyItsProbes ==
    ASSUME MaxHold < ResetTimeout
    PROVE  Spec => []OnlyProbesInHalfOpen
<1>1. PromptInv => OnlyProbesInHalfOpen
  BY DEF PromptInv, OnlyProbesInHalfOpen, Probes, Outstanding
<1>2. PromptInv /\ [Next]_vars => PromptInv'
  BY PromptStep
<1> QED BY <1>1, <1>2, PromptInit, PTL DEF Spec

\* Under the same assumption, and when every call records an outcome, a half-open
\* period belongs to its probes: it keeps them while it lasts, and the answer of
\* one of them, a success or a failure, is what ends it.
THEOREM PeriodBelongsToItsProbes ==
    ASSUME MaxHold < ResetTimeout, ~ MayEscape
    PROVE  Spec => PeriodOfItsProbes
<1>1. PromptInv /\ [Next]_vars =>
        [breaker.state = HalfOpen =>
            IF breaker'.state = HalfOpen THEN Probes \subseteq Probes'
            ELSE \E a \in Probes : attempts'[a].phase = "none"]_vars
  <2> SUFFICES ASSUME PromptInv, Next, breaker.state = HalfOpen
               PROVE  IF breaker'.state = HalfOpen THEN Probes \subseteq Probes'
                      ELSE \E a \in Probes : attempts'[a].phase = "none"
    OBVIOUS
  <2>1. TypeOK
    BY DEF PromptInv
  <2>2. \A a \in Outstanding : a \in Probes
    BY DEF PromptInv, Probes, Outstanding
  <2>3. ASSUME NEW a \in Attempts, Ask(a)
        PROVE  breaker'.state = HalfOpen /\ Probes \subseteq Probes'
    <3>1. breaker'.state = HalfOpen
      BY <2>1, <2>3, AfterGrantLemma DEF Ask, TypeOK
    <3>2. Seen(attempts, breaker, breaker') = attempts
      BY <3>1 DEF Seen
    <3>3. /\ attempts[a].phase = "none"
          /\ \A x \in Attempts \ {a} : attempts'[x] = attempts[x]
      BY <2>1, <2>3, <3>2 DEF Ask, TypeOK
    <3> QED BY <3>1, <3>3 DEF Probes, Outstanding
  <2>4. ASSUME NEW a \in Attempts, Send(a)
        PROVE  breaker'.state = HalfOpen /\ Probes \subseteq Probes'
    <3>1. /\ breaker' = breaker
          /\ attempts' = [attempts EXCEPT ![a].phase = "calling"]
      BY <2>4 DEF Send
    <3>2. \A x \in Attempts :
             /\ attempts[x].phase # "none" => attempts'[x].phase # "none"
             /\ attempts'[x].probe = attempts[x].probe
             /\ attempts'[x].fresh = attempts[x].fresh
      BY <2>1, <3>1 DEF TypeOK, Attempt
    <3> QED BY <3>1, <3>2 DEF Probes, Outstanding
  <2>5. ASSUME NEW a \in Attempts, Succeed(a) \/ Fail(a)
        PROVE  /\ breaker'.state # HalfOpen
               /\ a \in Probes /\ attempts'[a].phase = "none"
    <3>1. a \in Outstanding
      BY <2>5 DEF Succeed, Fail, Outstanding
    <3>2. Seen(attempts, breaker, breaker') \in [Attempts -> Attempt]
      BY <2>1, SeenType DEF TypeOK
    <3>3. attempts'[a].phase = "none"
      BY <2>5, <3>2 DEF Succeed, Fail, NoAttempt
    <3>4. breaker'.state # HalfOpen
      <4>1. breaker \in Breaker
        BY <2>1 DEF TypeOK
      <4>2. CASE breaker' = RecordSuccess(breaker)
        BY <4>1, <4>2, RecordSuccessLemma DEF Closed, HalfOpen
      <4>3. CASE breaker' = RecordFailure(breaker)
        BY <4>1, <4>3, RecordFailureLemma DEF Open, HalfOpen
      <4> QED BY <2>5, <4>2, <4>3 DEF Succeed, Fail
    <3> QED BY <2>2, <3>1, <3>3, <3>4
  <2>6. ASSUME NEW a \in Attempts, FailAndAsk(a) PROVE FALSE
    BY <2>1, <2>6, FailAndAskLemma DEF FailAndAsk, TypeOK, Closed, Open, HalfOpen
  <2>7. ASSUME NEW a \in Attempts, Escape(a) PROVE FALSE
    BY <2>7 DEF Escape
  <2>8. ASSUME Tick
        PROVE  breaker'.state = HalfOpen /\ Probes \subseteq Probes'
    <3>1. breaker'.state = HalfOpen
      BY <2>1, <2>8, ElapseLemma DEF Tick, TypeOK
    <3>2. \A x \in Attempts :
             /\ attempts'[x].phase = attempts[x].phase
             /\ attempts'[x].probe = attempts[x].probe
             /\ attempts'[x].fresh = attempts[x].fresh
      BY <2>1, <2>8 DEF Tick, TypeOK, Attempt
    <3> QED BY <3>1, <3>2 DEF Probes, Outstanding
  <2> QED BY <2>3, <2>4, <2>5, <2>6, <2>7, <2>8 DEF Next
<1>2. PromptInv /\ [Next]_vars => PromptInv'
  BY PromptStep
<1> QED BY <1>1, <1>2, PromptInit, PTL DEF Spec, PeriodOfItsProbes

-----------------------------------------------------------------------------
\* Evidence: what the breaker b owes to the history h.

EvidenceOf(b, h) ==
    /\ b.state = Closed =>
          /\ Failures(b.window) <= h.failures \/ h.failures = MinCalls
          /\ TooManyFailures(b.window) => b.window[Len(b.window)]
    /\ b.state = Open => b.openFor <= h.cooled

EvidenceInv == TypeOK /\ EvidenceOf(breaker, history)

\* A closing breaker starts on an empty window.
LEMMA NoFailuresYet == << >> \in Windows /\ Failures(<< >>) = 0 /\ ~ TooManyFailures(<< >>)
<1>1. << >> \in Windows /\ << >> \in Seq(BOOLEAN) /\ Len(<< >>) = 0
  BY FieldTypes
<1>2. Failures(<< >>) \in Nat /\ Failures(<< >>) <= 0
  BY <1>1, FailuresBound
<1> QED BY <1>1, <1>2, BreakerAssumption DEF TooManyFailures, BreakerAssumption

LEMMA Numbers ==
    ASSUME NEW b \in Breaker, NEW h \in History
    PROVE  /\ h.failures \in Nat /\ h.failures <= MinCalls /\ MinCalls \in Nat /\ MinCalls > 0
           /\ h.cooled \in Nat /\ h.cooled <= ResetTimeout /\ ResetTimeout \in Nat /\ ResetTimeout > 0
           /\ b.openFor \in Nat /\ b.openFor <= ResetTimeout
           /\ b.window \in Windows /\ b.window \in Seq(BOOLEAN) /\ Len(b.window) \in Nat
           /\ Failures(b.window) \in Nat /\ Failures(b.window) <= Len(b.window)
           /\ b.state \in CircuitState
<1>1. b.window \in Windows /\ b.window \in Seq(BOOLEAN)
  BY DEF Breaker, Windows
<1>2. Len(b.window) \in Nat /\ Failures(b.window) \in Nat /\ Failures(b.window) <= Len(b.window)
  <2>1. PICK w \in Seq(BOOLEAN) : w = b.window
    BY <1>1
  <2>2. Len(w) \in Nat
    OBVIOUS
  <2>3. Failures(w) \in Nat /\ Failures(w) <= Len(w)
    BY FailuresBound
  <2> QED BY <2>1, <2>2, <2>3
<1> QED BY <1>1, <1>2, BreakerAssumption DEF History, Breaker, BreakerAssumption

\* A grant needs no evidence, and is given to an open breaker after the full
\* reset timeout only.
LEMMA EvidenceGrant ==
    ASSUME NEW b \in Breaker, NEW h \in History, EvidenceOf(b, h), Grants(b)
    PROVE  /\ EvidenceOf(AfterGrant(b), NoteTransition(h, b, AfterGrant(b)))
           /\ AfterGrant(b).state # Open
           /\ b.state = Open => h.cooled = ResetTimeout /\ AfterGrant(b).state = HalfOpen
<1>1. CASE b.state = Closed
  <2>1. AfterGrant(b) = b
    BY <1>1, AfterGrantLemma
  <2>2. NoteTransition(h, b, b).failures = h.failures
    BY DEF NoteTransition
  <2> QED BY <1>1, <2>1, <2>2 DEF EvidenceOf, Closed, Open
<1>2. CASE b.state # Closed
  <2>1. AfterGrant(b).state = HalfOpen
    BY <1>2, Numbers, AfterGrantLemma DEF CircuitState
  <2>2. b.state = Open => h.cooled = ResetTimeout
    BY Numbers, AfterGrantLemma DEF EvidenceOf
  <2> QED BY <2>1, <2>2 DEF EvidenceOf, Closed, Open, HalfOpen
<1> QED BY <1>1, <1>2

LEMMA EvidenceSuccess ==
    ASSUME NEW b \in Breaker, NEW h \in History, EvidenceOf(b, h)
    PROVE  EvidenceOf(RecordSuccess(b), NoteTransition(h, b, RecordSuccess(b)))
<1> DEFINE b1 == RecordSuccess(b)
           h1 == NoteTransition(h, b, b1)
<1>1. CASE b.state = HalfOpen
  <2>1. b1.state = Closed /\ b1.window = << >>
    BY <1>1 DEF RecordSuccess, ToClosed, Breaker
  <2>2. h1.failures = 0
    BY <1>1, <2>1 DEF NoteTransition, Closed, HalfOpen
  <2> QED BY <2>1, <2>2, NoFailuresYet DEF EvidenceOf, Closed, Open
<1>2. CASE b.state # HalfOpen
  <2>1. b1.state = b.state /\ b1.openFor = b.openFor /\ b1.window = Remember(b.window, TRUE)
    BY <1>2 DEF RecordSuccess, Breaker
  <2>2. h1.failures = h.failures /\ h1.cooled = h.cooled
    BY <2>1 DEF NoteTransition
  <2>3. /\ Failures(b1.window) <= Failures(b.window) /\ Failures(b1.window) \in Nat
        /\ b1.window[Len(b1.window)]
    <3>1. PICK w \in Windows : w = b.window
      BY Numbers
    <3>2. PICK w1 \in Seq(BOOLEAN) : w1 = Remember(w, TRUE)
      BY RememberType DEF Windows
    <3>3. Failures(w1) \in Nat
      BY FailuresBound
    <3>4. Failures(w1) <= Failures(w) + 0 /\ w1[Len(w1)] = TRUE
      BY <3>2, FailuresRemember
    <3>5. b1.window = w1 /\ Failures(w) \in Nat
      BY <2>1, <3>1, <3>2, Numbers
    <3> HIDE DEF b1
    <3> QED BY <3>1, <3>3, <3>4, <3>5
  <2> HIDE DEF b1, h1
  <2>4. b.state = Closed => Failures(b1.window) <= h.failures \/ h.failures = MinCalls
    BY <2>3, Numbers DEF EvidenceOf
  <2>5. b.state = Open => b.openFor <= h.cooled
    BY DEF EvidenceOf
  <2> QED BY <2>1, <2>2, <2>3, <2>4, <2>5 DEF EvidenceOf, b1, h1
<1> QED BY <1>1, <1>2

\* A share of a smaller number is a smaller share.
LEMMA Monotone ==
    ASSUME NEW x \in Nat, NEW y \in Nat, NEW z \in Nat, x <= y
    PROVE  x * z <= y * z /\ z * x <= z * y
OBVIOUS

\* A failure of a closed breaker trips it only over the threshold, and then
\* enough failures have been noted since it closed.
LEMMA EvidenceFailure ==
    ASSUME NEW b \in Breaker, NEW h \in History, EvidenceOf(b, h)
    PROVE  LET b1 == RecordFailure(b)
               h1 == NoteTransition(NoteFailure(h), b, b1)
           IN  /\ EvidenceOf(b1, h1)
               /\ b.state = Closed /\ b1.state = Open =>
                     h1.failures * FailDen >= FailNum * MinCalls
<1> DEFINE w == Remember(b.window, FALSE)
           b1 == RecordFailure(b)
           h1 == NoteTransition(NoteFailure(h), b, b1)
<1>1. CASE b.state = HalfOpen
  <2>1. b1.state = Open /\ b1.openFor = 0
    BY <1>1 DEF RecordFailure, ToOpen, Breaker
  <2>2. h1.cooled = 0
    BY <1>1, <2>1 DEF NoteTransition, Open, HalfOpen
  <2> QED BY <1>1, <2>1, <2>2 DEF EvidenceOf, Closed, Open, HalfOpen
<1>2. CASE b.state # HalfOpen
  <2>1. w \in Windows /\ w \in Seq(BOOLEAN) /\ Len(w) \in Nat
    <3>1. w \in Windows
      BY Numbers, RememberType
    <3> HIDE DEF w
    <3> QED BY <3>1 DEF Windows
  <2>2. Failures(w) \in Nat /\ Failures(w) <= Len(w) /\ Failures(w) <= Failures(b.window) + 1
    BY <2>1, Numbers, FailuresBound, FailuresRemember
  <2>3. /\ TooManyFailures(w) => b1.state = Open /\ b1.openFor = 0
        /\ ~ TooManyFailures(w) => /\ b1.state = b.state /\ b1.openFor = b.openFor
                                   /\ b1.window = w
    BY <1>2 DEF RecordFailure, ToOpen, Breaker
  <2>4. /\ NoteFailure(h).failures = IF h.failures < MinCalls THEN h.failures + 1 ELSE h.failures
        /\ NoteFailure(h).cooled = h.cooled
    BY DEF NoteFailure, History
  <2>5. /\ b1.state # Closed \/ b.state = Closed => h1.failures = NoteFailure(h).failures
        /\ h1.cooled = IF b1.state = Open /\ b.state # Open THEN 0 ELSE h.cooled
    BY <2>4 DEF NoteTransition
  <2> HIDE DEF w, b1, h1
  <2>6. b.state = Closed => Failures(w) <= NoteFailure(h).failures \/ NoteFailure(h).failures = MinCalls
    BY <2>2, <2>4, Numbers DEF EvidenceOf
  <2>7. CASE TooManyFailures(w)
    <3>1. EvidenceOf(b1, h1)
      <4>1. b.state = Open => 0 <= h.cooled
        BY Numbers
      <4> QED BY <2>3, <2>5, <2>7, <4>1 DEF EvidenceOf, Closed, Open
    <3>2. ASSUME b.state = Closed
          PROVE  h1.failures * FailDen >= FailNum * MinCalls
      <4> DEFINE n == NoteFailure(h).failures
                 fs == Failures(w)
                 l == Len(w)
      <4>1. h1.failures = n
        BY <2>5, <3>2
      <4>2. /\ n \in Nat /\ fs \in Nat /\ l \in Nat /\ fs <= l /\ MinCalls \in Nat /\ MinCalls > 0
            /\ FailNum \in Nat /\ FailDen \in Nat
            /\ fs <= n \/ n = MinCalls
        BY <2>1, <2>2, <2>4, <2>6, <3>2, Numbers, BreakerAssumption DEF BreakerAssumption
      <4>3. l >= MinCalls /\ fs * FailDen >= FailNum * l
        BY <2>7 DEF TooManyFailures
      <4> HIDE DEF n, fs, l
      <4>4. FailNum * MinCalls <= FailNum * l
        BY <4>2, <4>3, Monotone
      <4>5. CASE fs <= n
        <5>1. fs * FailDen <= n * FailDen
          BY <4>2, <4>5, Monotone
        <5>2. /\ fs * FailDen \in Nat /\ n * FailDen \in Nat /\ FailNum * MinCalls \in Nat
              /\ FailNum * l \in Nat
          BY <4>2
        <5> QED BY <4>1, <4>3, <4>4, <5>1, <5>2
      <4>6. CASE n = MinCalls
        <5>1. FailNum <= FailDen
          <6>1. fs * FailDen <= l * FailDen
            BY <4>2, Monotone
          <6>2. fs * FailDen \in Nat /\ l * FailDen \in Nat /\ FailNum * l \in Nat
            BY <4>2
          <6>3. FailNum * l <= l * FailDen
            BY <4>3, <6>1, <6>2
          <6>4. l > 0
            BY <4>2, <4>3
          <6>5. FailNum > FailDen => FALSE
            <7>1. FailNum > FailDen => (FailDen + 1) * l <= FailNum * l
              BY <4>2, Monotone
            <7>2. (FailDen + 1) * l = l * FailDen + l
              BY <4>2
            <7> QED BY <4>2, <6>2, <6>3, <6>4, <7>1, <7>2
          <6> QED BY <4>2, <6>5
        <5>2. FailNum * MinCalls <= MinCalls * FailDen
          <6>1. FailNum * MinCalls <= FailDen * MinCalls
            BY <4>2, <5>1, Monotone
          <6> QED BY <4>2, <6>1
        <5> QED BY <4>1, <4>6, <5>2
      <4> QED BY <4>2, <4>5, <4>6
    <3> QED BY <3>1, <3>2 DEF b1, h1
  <2>8. CASE ~ TooManyFailures(w)
    <3>1. EvidenceOf(b1, h1)
      <4>1. b.state = Open => b.openFor <= h.cooled
        BY DEF EvidenceOf
      <4> QED BY <2>3, <2>5, <2>6, <2>8, <4>1 DEF EvidenceOf
    <3>2. ~ (b.state = Closed /\ b1.state = Open)
      BY <2>3, <2>8 DEF Closed, Open
    <3> QED BY <3>1, <3>2 DEF b1, h1
  <2> QED BY <2>7, <2>8
<1> QED BY <1>1, <1>2 DEF Closed, HalfOpen

LEMMA EvidenceElapse ==
    ASSUME NEW b \in Breaker, NEW h \in History, EvidenceOf(b, h),
           NEW h1, h1 = [h EXCEPT !.cooled = IF @ < ResetTimeout THEN @ + 1 ELSE @]
    PROVE  EvidenceOf(Elapse(b), h1) /\ Elapse(b).state = b.state
<1>1. h1.failures = h.failures /\ h1.cooled = IF h.cooled < ResetTimeout THEN h.cooled + 1 ELSE h.cooled
  BY DEF History
<1>2. /\ Elapse(b).state = b.state /\ Elapse(b).window = b.window
      /\ Elapse(b).openFor \in {b.openFor, b.openFor + 1} /\ Elapse(b).openFor <= ResetTimeout
  BY Numbers DEF Elapse, Breaker
<1>3. b.state = Open => Elapse(b).openFor <= h1.cooled
  <2>1. \/ h1.cooled = h.cooled + 1
        \/ h1.cooled = h.cooled /\ h.cooled = ResetTimeout
    BY <1>1, Numbers
  <2>2. b.state = Open => b.openFor <= h.cooled
    BY DEF EvidenceOf
  <2> QED BY <1>2, <2>1, <2>2, Numbers
<1> QED BY <1>1, <1>2, <1>3 DEF EvidenceOf

LEMMA EvidenceInit == Init => EvidenceInv
<1> SUFFICES ASSUME Init PROVE EvidenceInv
  OBVIOUS
<1>1. breaker.state = Closed /\ breaker.window = << >> /\ history.failures = 0
  BY DEF Init, NewBreaker
<1> QED BY <1>1, TypeInit, NoFailuresYet DEF EvidenceInv, EvidenceOf, Closed, Open

\* Every step keeps the evidence; a closed breaker opens on enough of it, and an
\* open one stays so until it is half-open, after the full reset timeout.
LEMMA EvidenceStep ==
    ASSUME EvidenceInv, [Next]_vars
    PROVE  /\ EvidenceInv'
           /\ breaker.state = Closed /\ breaker'.state = Open =>
                 history'.failures * FailDen >= FailNum * MinCalls
           /\ breaker.state = Open /\ breaker'.state # Open =>
                 breaker'.state = HalfOpen /\ history.cooled = ResetTimeout
<1> DEFINE Goal ==
        /\ EvidenceOf(breaker', history')
        /\ breaker.state = Closed /\ breaker'.state = Open =>
              history'.failures * FailDen >= FailNum * MinCalls
        /\ breaker.state = Open /\ breaker'.state # Open =>
              breaker'.state = HalfOpen /\ history.cooled = ResetTimeout
<1>1. breaker \in Breaker /\ history \in History /\ EvidenceOf(breaker, history) /\ TypeOK'
  BY TypeStep DEF EvidenceInv, TypeOK
<1> USE DEF Closed, Open, HalfOpen
<1>2. ASSUME NEW a \in Attempts, Ask(a) PROVE Goal
  <2>1. /\ Grants(breaker) /\ breaker' = AfterGrant(breaker)
        /\ history' = NoteTransition(history, breaker, AfterGrant(breaker))
    BY <1>2 DEF Ask
  <2> QED BY <1>1, <2>1, EvidenceGrant
<1>3. ASSUME NEW a \in Attempts, Succeed(a) PROVE Goal
  <2>1. /\ breaker' = RecordSuccess(breaker)
        /\ history' = NoteTransition(history, breaker, RecordSuccess(breaker))
    BY <1>3 DEF Succeed
  <2>2. /\ EvidenceOf(breaker', history')
        /\ breaker.state = Closed => breaker'.state = Closed
        /\ breaker.state = Open => breaker'.state = Open
    BY <1>1, <2>1, EvidenceSuccess, RecordSuccessLemma
  <2> QED BY <2>2
<1>4. ASSUME NEW a \in Attempts, Fail(a) PROVE Goal
  <2>1. /\ breaker' = RecordFailure(breaker)
        /\ history' = NoteTransition(NoteFailure(history), breaker, RecordFailure(breaker))
    BY <1>4 DEF Fail
  <2>2. breaker.state = Open => breaker'.state = Open
    BY <1>1, <2>1, RecordFailureLemma
  <2>3. /\ EvidenceOf(breaker', history')
        /\ breaker.state = Closed /\ breaker'.state = Open =>
              history'.failures * FailDen >= FailNum * MinCalls
    BY <1>1, <2>1, EvidenceFailure
  <2> QED BY <2>2, <2>3
<1>5. ASSUME NEW a \in Attempts, FailAndAsk(a) PROVE Goal
  <2> DEFINE failed == RecordFailure(breaker)
             noted == NoteTransition(NoteFailure(history), breaker, failed)
  <2>1. /\ Grants(failed) /\ breaker' = AfterGrant(failed)
        /\ history' = NoteTransition(noted, failed, AfterGrant(failed))
    BY <1>5 DEF FailAndAsk
  <2>2. failed \in Breaker /\ noted \in History /\ EvidenceOf(failed, noted)
    BY <1>1, RecordFailureLemma, HistoryType, EvidenceFailure
  <2>3. failed.state = breaker.state /\ (breaker.state = Open => breaker.openFor = ResetTimeout)
    BY <1>1, <2>1, FailAndAskLemma
  <2>4. breaker.state = Open => history.cooled = ResetTimeout
    BY <1>1, <2>3, Numbers DEF EvidenceOf
  <2> HIDE DEF failed, noted
  <2>5. /\ EvidenceOf(breaker', history') /\ breaker'.state # Open
        /\ failed.state = Open => breaker'.state = HalfOpen
    BY <2>1, <2>2, EvidenceGrant
  <2> QED BY <2>3, <2>4, <2>5
<1>6. ASSUME NEW a \in Attempts, Send(a) \/ Escape(a) PROVE Goal
  BY <1>1, <1>6 DEF Send, Escape
<1>7. ASSUME Tick PROVE Goal
  <2>1. /\ breaker' = Elapse(breaker)
        /\ history' = [history EXCEPT !.cooled = IF @ < ResetTimeout THEN @ + 1 ELSE @]
    BY <1>7 DEF Tick
  <2>2. EvidenceOf(Elapse(breaker), history') /\ Elapse(breaker).state = breaker.state
    BY <1>1, <2>1, EvidenceElapse
  <2> QED BY <2>1, <2>2
<1>8. ASSUME UNCHANGED vars PROVE Goal
  BY <1>1, <1>8 DEF vars
<1>9. Goal
  <2> HIDE DEF Goal
  <2> QED BY <1>2, <1>3, <1>4, <1>5, <1>6, <1>7, <1>8 DEF Next
<1>10. EvidenceOf(breaker, history)' <=> EvidenceOf(breaker', history')
  BY DEF EvidenceOf
<1> QED BY <1>1, <1>9, <1>10 DEF EvidenceInv

\* A closed breaker over the threshold has just seen a success: no failure leaves
\* it so, for every window and threshold.
THEOREM OverThresholdOnSuccess == Spec => []OverThresholdOnlyAfterSuccess
<1>1. EvidenceInv => OverThresholdOnlyAfterSuccess
  BY DEF EvidenceInv, EvidenceOf, OverThresholdOnlyAfterSuccess, TooManyFailures
<1>2. EvidenceInv /\ [Next]_vars => EvidenceInv'
  BY EvidenceStep
<1> QED BY <1>1, <1>2, EvidenceInit, PTL DEF Spec

\* A closed breaker opens only when failures for the threshold share of min_calls
\* were recorded since it last closed, whatever came late from before.
THEOREM TripsOnEvidence == Spec => TripNeedsEvidence
<1>1. EvidenceInv /\ [Next]_vars =>
         /\ EvidenceInv'
         /\ [breaker.state = Closed /\ breaker'.state = Open =>
               history'.failures * FailDen >= FailNum * MinCalls]_vars
  BY EvidenceStep
<1> QED BY <1>1, EvidenceInit, PTL DEF Spec, TripNeedsEvidence

\* An open breaker is left for half-open only, a full reset timeout after it
\* opened: no late outcome ends the open period.
THEOREM CoolsOff == Spec => CoolingOff
<1>1. EvidenceInv /\ [Next]_vars =>
         /\ EvidenceInv'
         /\ [breaker.state = Open /\ breaker'.state # Open =>
               breaker'.state = HalfOpen /\ history.cooled = ResetTimeout]_vars
  BY EvidenceStep
<1> QED BY <1>1, EvidenceInit, PTL DEF Spec, CoolingOff

-----------------------------------------------------------------------------
\* The cap on probes, when no attempt outlives the reset timeout.

AllProbes == {a \in Outstanding : attempts[a].probe}

CapInv ==
    PromptInv /\ AccountInv /\ IsFiniteSet(AllProbes) /\ Cardinality(AllProbes) <= HalfOpenMax

LEMMA CapStep ==
    ASSUME MaxHold < ResetTimeout, CapInv, [Next]_vars
    PROVE  CapInv'
<1>1. PromptInv' /\ AccountInv' /\ TypeOK
  BY PromptStep, AccountStep DEF CapInv, AccountInv
<1> USE DEF TypeOK
<1>2. IsFiniteSet(AllProbes) /\ Cardinality(AllProbes) <= HalfOpenMax /\ HalfOpenMax \in Nat
      /\ HalfOpenMax > 0 /\ Cardinality(AllProbes) \in Nat
  BY BreakerAssumption, FS_CardinalityType DEF CapInv, BreakerAssumption
<1> DEFINE Goal == IsFiniteSet(AllProbes') /\ Cardinality(AllProbes') <= HalfOpenMax
<1>3. AllProbes' \subseteq AllProbes => Goal
  <2> SUFFICES ASSUME AllProbes' \subseteq AllProbes PROVE Goal
    OBVIOUS
  <2>1. PICK S : S = AllProbes' /\ S \in SUBSET AllProbes
    OBVIOUS
  <2>2. IsFiniteSet(S) /\ Cardinality(S) <= Cardinality(AllProbes) /\ Cardinality(S) \in Nat
    BY <1>2, <2>1, FS_Subset, FS_CardinalityType
  <2> QED BY <1>2, <2>1, <2>2
<1> HIDE DEF Goal
<1>4. ASSUME NEW a \in Attempts, Ask(a) PROVE Goal
  <2> DEFINE others == Seen(attempts, breaker, breaker')
  <2>1. /\ breaker \in Breaker /\ Grants(breaker) /\ breaker' = AfterGrant(breaker)
        /\ attempts[a].phase = "none"
    BY <1>1, <1>4 DEF Ask
  <2>2. PICK phase \in {"granted", "calling"} :
           attempts' = [others EXCEPT ![a] = Granted(breaker, phase)]
    BY <1>4 DEF Ask
  <2>3. \A x \in Attempts : others[x].phase = attempts[x].phase /\ others[x].probe = attempts[x].probe
    BY <1>1 DEF Seen, Attempt
  <2>4. others \in [Attempts -> Attempt]
    BY <1>1, SeenType
  <2> HIDE DEF others
  <2>5. attempts'[a].probe = (breaker.state # Closed)
        /\ \A x \in Attempts \ {a} : attempts'[x] = others[x]
    BY <2>2, <2>4 DEF Granted
  <2>6. AllProbes' \subseteq AllProbes \cup {a}
    BY <2>3, <2>5 DEF AllProbes, Outstanding
  <2>7. CASE breaker.state = Closed
    <3>1. AllProbes' \subseteq AllProbes
      BY <2>5, <2>6, <2>7 DEF AllProbes
    <3> QED BY <1>3, <3>1
  <2>8. ASSUME IsFiniteSet(AllProbes), Cardinality(AllProbes) < HalfOpenMax PROVE Goal
    <3>1. PICK S : S = AllProbes' /\ S \in SUBSET (AllProbes \cup {a})
      BY <2>6
    <3>0. Cardinality(AllProbes) \in Nat /\ HalfOpenMax \in Nat
      BY <1>2
    <3>2. IsFiniteSet(AllProbes \cup {a}) /\ Cardinality(AllProbes \cup {a}) <= HalfOpenMax
          /\ Cardinality(AllProbes \cup {a}) \in Nat
      <4>1. /\ IsFiniteSet(AllProbes \cup {a})
            /\ \/ Cardinality(AllProbes \cup {a}) = Cardinality(AllProbes)
               \/ Cardinality(AllProbes \cup {a}) = Cardinality(AllProbes) + 1
        BY <2>8, FS_AddElement
      <4> QED BY <2>8, <3>0, <4>1
    <3>3. IsFiniteSet(S) /\ Cardinality(S) <= Cardinality(AllProbes \cup {a}) /\ Cardinality(S) \in Nat
      BY <3>1, <3>2, FS_Subset, FS_CardinalityType
    <3> QED BY <1>2, <3>1, <3>2, <3>3 DEF Goal
  <2>9. CASE breaker.state = Open
    <3>1. AllProbes = {}
      BY <2>1, <2>9, AfterGrantLemma, NobodyLeft DEF CapInv, AllProbes
    <3> QED BY <1>2, <2>8, <3>1, FS_EmptySet
  <2>10. CASE breaker.state = HalfOpen
    <3>1. AllProbes = Probes
      BY <2>10 DEF CapInv, PromptInv, AllProbes, Probes
    <3>2. Cardinality(Probes) <= breaker.halfOpenCalls /\ breaker.halfOpenCalls < HalfOpenMax
          /\ breaker.halfOpenCalls \in Nat
      BY <2>1, <2>10, BreakerAssumption
         DEF Grants, Closed, Open, HalfOpen, CapInv, AccountInv, SlotInv, Breaker, BreakerAssumption
    <3> QED BY <1>2, <2>8, <3>1, <3>2
  <2> QED BY <2>1, <2>7, <2>9, <2>10 DEF Breaker, CircuitState
<1>5. ASSUME NEW a \in Attempts, Send(a) PROVE Goal
  <2>1. \A x \in Attempts : /\ attempts'[x].phase = "none" <=> attempts[x].phase = "none"
                            /\ attempts'[x].probe = attempts[x].probe
    BY <1>1, <1>5 DEF Send, Attempt
  <2> QED BY <1>3, <2>1 DEF AllProbes, Outstanding
<1>6. ASSUME NEW a \in Attempts, Succeed(a) \/ Fail(a) \/ Escape(a) PROVE Goal
  <2>1. PICK others \in [Attempts -> Attempt] :
           /\ attempts' = [others EXCEPT ![a] = NoAttempt]
           /\ \A x \in Attempts : /\ others[x].phase = attempts[x].phase
                                  /\ others[x].probe = attempts[x].probe
    <3> DEFINE seen == Seen(attempts, breaker, breaker')
    <3>1. /\ seen \in [Attempts -> Attempt]
          /\ \A x \in Attempts : /\ seen[x].phase = attempts[x].phase
                                 /\ seen[x].probe = attempts[x].probe
      BY <1>1 DEF Seen, Attempt
    <3>2. CASE Succeed(a) \/ Fail(a)
      BY <3>1, <3>2 DEF Succeed, Fail
    <3>3. CASE Escape(a)
      BY <1>1, <3>3 DEF Escape
    <3> QED BY <1>6, <3>2, <3>3
  <2>2. attempts'[a].phase = "none" /\ \A x \in Attempts \ {a} : attempts'[x] = others[x]
    BY <2>1 DEF NoAttempt
  <2> QED BY <1>3, <2>1, <2>2 DEF AllProbes, Outstanding
<1>7. ASSUME NEW a \in Attempts, FailAndAsk(a) PROVE Goal
  <2> DEFINE failed == RecordFailure(breaker)
             seen == Seen(attempts, breaker, failed)
             others == Seen(seen, failed, breaker')
  <2>1. /\ a \in Outstanding /\ Grants(failed)
        /\ \E phase \in {"granted", "calling"} :
              attempts' = [others EXCEPT ![a] = Granted(failed, phase)]
    BY <1>7 DEF FailAndAsk, Outstanding
  <2>2. breaker.state = Closed /\ failed.state = Closed
    <3>1. failed.state = breaker.state
          /\ \/ breaker.state = Closed
             \/ breaker.state = Open /\ breaker.openFor = ResetTimeout
      BY <1>1, <2>1, FailAndAskLemma
    <3> QED BY <2>1, <3>1, NobodyLeft DEF CapInv
  <2>3. /\ others \in [Attempts -> Attempt]
        /\ \A x \in Attempts : others[x].phase = attempts[x].phase /\ others[x].probe = attempts[x].probe
    <3>1. /\ seen \in [Attempts -> Attempt]
          /\ \A x \in Attempts : seen[x].phase = attempts[x].phase /\ seen[x].probe = attempts[x].probe
      BY <1>1 DEF Seen, Attempt
    <3> HIDE DEF failed, seen
    <3> QED BY <3>1 DEF Seen, Attempt
  <2> HIDE DEF others, seen, failed
  <2>4. attempts'[a].probe = FALSE /\ \A x \in Attempts \ {a} : attempts'[x] = others[x]
    <3>1. PICK phase \in {"granted", "calling"} :
             attempts' = [others EXCEPT ![a] = Granted(failed, phase)]
      BY <2>1
    <3>2. attempts'[a] = Granted(failed, phase)
      BY <2>3, <3>1
    <3>3. Granted(failed, phase).probe = FALSE
      BY <2>2 DEF Granted
    <3>4. \A x \in Attempts \ {a} : attempts'[x] = others[x]
      BY <2>3, <3>1
    <3> QED BY <3>2, <3>3, <3>4
  <2> QED BY <1>3, <2>3, <2>4 DEF AllProbes, Outstanding
<1>8. ASSUME Tick PROVE Goal
  <2>1. \A x \in Attempts : /\ attempts'[x].phase = attempts[x].phase
                            /\ attempts'[x].probe = attempts[x].probe
    BY <1>1, <1>8 DEF Tick, Attempt
  <2> QED BY <1>3, <2>1 DEF AllProbes, Outstanding
<1>9. ASSUME UNCHANGED vars PROVE Goal
  BY <1>3, <1>9 DEF vars, AllProbes, Outstanding
<1>10. Goal
  BY <1>4, <1>5, <1>6, <1>7, <1>8, <1>9 DEF Next
<1> QED BY <1>1, <1>10 DEF CapInv, Goal

\* When no attempt outlives the reset timeout, never more probes than
\* half_open_max are in flight, those of earlier half-open periods included.
THEOREM ProbesCapped ==
    ASSUME MaxHold < ResetTimeout
    PROVE  Spec => []ProbeCap
<1>1. Init => CapInv
  <2> SUFFICES ASSUME Init PROVE CapInv
    OBVIOUS
  <2>1. AllProbes = {}
    BY DEF Init, AllProbes, Outstanding, NoAttempt
  <2> QED BY <2>1, PromptInit, AccountInit, FS_EmptySet, BreakerAssumption
          DEF CapInv, BreakerAssumption
<1>2. CapInv /\ [Next]_vars => CapInv'
  BY CapStep
<1>3. CapInv => ProbeCap
  BY DEF CapInv, ProbeCap, AllProbes
<1> QED BY <1>1, <1>2, <1>3, PTL DEF Spec
-----------------------------------------------------------------------------
\* How a half-open period can end: by an outcome of one of its probes, or never.

\* Half-open, every slot taken, and nobody there who could give one back.
Stuck ==
    /\ breaker.state = HalfOpen
    /\ breaker.halfOpenCalls = HalfOpenMax
    /\ Outstanding = {}

\* Nothing but the clock has anything to do then.
LEMMA StuckStep == Stuck /\ [Next]_vars => Stuck'
<1> SUFFICES ASSUME Stuck, [Next]_vars PROVE Stuck'
  OBVIOUS
<1>1. \A a \in Attempts : attempts[a].phase = "none"
  BY DEF Stuck, Outstanding
<1>2. ~ Grants(breaker)
  BY BreakerAssumption DEF Stuck, Grants, BreakerAssumption, Closed, Open, HalfOpen
<1>3. ASSUME NEW a \in Attempts
      PROVE  ~ (Ask(a) \/ Send(a) \/ Succeed(a) \/ Fail(a) \/ FailAndAsk(a) \/ Escape(a))
  BY <1>1, <1>2 DEF Ask, Send, Succeed, Fail, FailAndAsk, Escape
<1>4. CASE Tick
  <2>1. breaker' = breaker
    BY <1>4 DEF Tick, Elapse, Stuck, Open, HalfOpen
  <2>2. \A a \in Attempts : attempts'[a].phase = "none"
    BY <1>1, <1>4 DEF Tick
  <2> QED BY <2>1, <2>2 DEF Stuck, Outstanding
<1>5. CASE UNCHANGED vars
  BY <1>5 DEF vars, Stuck, Outstanding
<1> QED BY <1>3, <1>4, <1>5 DEF Next

\* When every call ends in an outcome that is recorded, a half-open breaker always
\* has a probe of its own out: someone is there to end the period.
THEOREM ProbeStaysOut ==
    ASSUME ~ MayEscape
    PROVE  Spec => [](breaker.state = HalfOpen => Probes # {})
<1>1. ProbesAccounted => (breaker.state = HalfOpen => Probes # {})
  BY FS_EmptySet DEF ProbesAccounted
<1> QED BY <1>1, SlotsAccounted, PTL

\* When a call ends in an exception that neither except clause names, and it was
\* the last one out with every probe slot taken, the breaker is stuck ...
THEOREM EscapeSticks ==
    ASSUME NEW a \in Attempts, Escape(a), Outstanding = {a}, TypeOK,
           breaker.state = HalfOpen, breaker.halfOpenCalls = HalfOpenMax
    PROVE  Stuck'
<1>1. breaker' = breaker /\ attempts' = [attempts EXCEPT ![a] = NoAttempt]
  BY DEF Escape
<1>2. \A x \in Attempts : attempts'[x].phase = "none"
  BY <1>1 DEF Outstanding, NoAttempt, TypeOK
<1> QED BY <1>1, <1>2 DEF Stuck, Outstanding

\* ... and stays so whatever happens: allow() refuses this provider for good.
THEOREM StuckForGood == Spec => [](Stuck => []Stuck)
<1> QED BY StuckStep, PTL DEF Spec
=============================================================================
