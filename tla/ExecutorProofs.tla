--------------------------- MODULE ExecutorProofs ---------------------------
(***************************************************************************)
(* Theorems about Executor, for any number of providers, requests and      *)
(* targets: its types, the bound that the deadline gives, the silence      *)
(* around an open breaker, who opens a breaker and who is passed over, and *)
(* that fallback to a healthy provider serves when there is time for it.   *)
(*                                                                         *)
(* Every provider's breaker sees the protocol of BreakerCalls, and so what *)
(* is proved there is carried over to each of them.                        *)
(***************************************************************************)
EXTENDS Executor, CircuitBreakerProofs, WellFoundedInduction, TLAPS

-----------------------------------------------------------------------------
\* The inductive invariant.

History == [failures : 0 .. MinCalls, cooled : 0 .. ResetTimeout]

\* Is q under way to provider p?
On(q, p) == q.pc \in Active /\ q.route[q.i] = p

\* A request under way is at a target of a route, and its sleep or its call
\* ends in time.
Sound(q) ==
    q.pc \in Active =>
        LET longest == IF q.pc = "backoff" THEN MaxDelay ELSE MaxDelay + LongestCall
        IN  /\ q.route \in Routes /\ q.i \in 1 .. Len(q.route)
            /\ q.held + q.left <= longest
            /\ q.elapsed + q.left <= Deadline + longest

\* Who sleeps before a call to a provider that is cut off was admitted before.
Quiet(brks, reqs, hist) ==
    \A p \in Providers, r \in Requests :
        brks[p].state = Open /\ reqs[r].pc = "backoff" /\ On(reqs[r], p) =>
            hist[p].cooled <= reqs[r].held

Good(brks, reqs, hist) ==
    /\ brks \in [Providers -> Breaker]
    /\ reqs \in [Requests -> Request]
    /\ hist \in [Providers -> History]
    /\ \A r \in Requests : Sound(reqs[r])
    /\ Quiet(brks, reqs, hist)

IInv == Good(breakers, requests, history)

-----------------------------------------------------------------------------
\* Constants, histories and the search for a target.

LEMMA ConstantTypes ==
    /\ Deadline \in Nat /\ MaxDelay \in Nat /\ LongestCall \in Nat /\ LongestCall > 0
    /\ ResetTimeout \in Nat /\ MinCalls \in Nat
    /\ \A route \in Routes : route \in Seq(Providers) /\ Len(route) \in Nat /\ Len(route) > 0
<1>1. \A route \in Routes : route \in Seq(Providers) /\ route # << >>
  BY ExecutorAssumption DEF ExecutorAssumption
<1>2. \A route \in Seq(Providers) : route # << >> => Len(route) \in Nat /\ Len(route) > 0
  OBVIOUS
<1> QED BY <1>1, <1>2, ExecutorAssumption, BreakerAssumption
        DEF ExecutorAssumption, BreakerAssumption

LEMMA Targets ==
    ASSUME NEW route \in Routes, NEW i \in 1 .. Len(route)
    PROVE  route[i] \in Providers
BY ConstantTypes

\* A note in the history of a provider keeps its types; an opening sets the time
\* since then to 0, and nothing else changes that time.
LEMMA Noted ==
    ASSUME NEW p \in Providers, NEW h \in History, NEW from, NEW to
    PROVE  /\ Protocol(p)!NoteTransition(h, from, to) \in History
           /\ Protocol(p)!NoteTransition(h, from, to).cooled =
                 IF to.state = Open /\ from.state # Open THEN 0 ELSE h.cooled
           /\ Protocol(p)!NoteFailure(h) \in History
           /\ Protocol(p)!NoteFailure(h).cooled = h.cooled
<1>1. Protocol(p)!NoteTransition(h, from, to) =
         [failures |-> IF to.state = Closed /\ from.state # Closed THEN 0 ELSE h.failures,
          cooled   |-> IF to.state = Open /\ from.state # Open THEN 0 ELSE h.cooled]
  BY DEF Protocol!NoteTransition, Protocol!Closed, Protocol!Open, Closed, Open
<1>2. Protocol(p)!NoteFailure(h) =
         [h EXCEPT !.failures = IF @ < MinCalls THEN @ + 1 ELSE @]
  BY DEF Protocol!NoteFailure
<1> QED BY <1>1, <1>2, ConstantTypes DEF History

\* Min is the least element, and every set of numbers that has one element has it.
LEMMA Least ==
    ASSUME NEW S \in SUBSET Nat, S # {}
    PROVE  Min(S) \in S /\ \A n \in S : Min(S) <= n
<1> DEFINE R == OpToRel(<, Nat)
<1>1. PICK m \in S : \A n \in S : ~ (<<n, m>> \in R)
  <2>1. IsWellFoundedOn(R, Nat)
    BY NatLessThanWellFounded
  <2> HIDE DEF R
  <2> QED BY <2>1, WFMin
<1>2. \A n \in S : m <= n
  <2>1. \A n \in S : ~ (n < m)
    BY <1>1 DEF OpToRel
  <2> QED BY <2>1
<1> QED BY <1>2 DEF Min

\* NextTarget is the first target from j on that can be tried.
LEMMA NextTargetIsFirst ==
    ASSUME NEW route \in Routes, NEW j \in 1 .. Len(route) + 1, NEW brks,
           NEW k, k = NextTarget(route, j, brks)
    PROVE  /\ k \in j .. Len(route) + 1
           /\ k <= Len(route) => CanTry(route, k, brks)
           /\ \A n \in j .. Len(route) : CanTry(route, n, brks) => k <= n
           /\ k > Len(route) => \A n \in j .. Len(route) : ~ CanTry(route, n, brks)
<1> DEFINE ok == {n \in j .. Len(route) : CanTry(route, n, brks)}
<1>1. Len(route) \in Nat
  BY ConstantTypes
<1>2. k = IF ok = {} THEN Len(route) + 1 ELSE Min(ok)
  BY DEF NextTarget
<1>3. CASE ok = {}
  BY <1>1, <1>2, <1>3
<1>4. CASE ok # {}
  <2>1. ok \in SUBSET Nat
    BY <1>1
  <2>2. Min(ok) \in ok /\ \A n \in ok : Min(ok) <= n
    <3> HIDE DEF ok
    <3> QED BY <1>4, <2>1, Least
  <2> QED BY <1>1, <1>2, <1>4, <2>2
<1> QED BY <1>3, <1>4

LEMMA DelaysInRange == ASSUME NEW n \in Nat, NEW delay \in Delays(n) PROVE delay \in 0 .. MaxDelay
BY ConstantTypes DEF Delays

LEMMA ErrorTypes ==
    ASSUME NEW route, NEW j, NEW k, NEW err \in LastError
    PROVE  ErrorAfterSkips(route, j, k, err) \in LastError
BY DEF ErrorAfterSkips, LastError
-----------------------------------------------------------------------------
\* The two things a step does: a breaker changes, and a request moves on.

\* Provider p's breaker becomes b, with that noted in history and requests.
LEMMA Recorded ==
    ASSUME NEW brks, NEW reqs, NEW hist, Good(brks, reqs, hist),
           NEW p \in Providers, NEW b \in Breaker,
           NEW h \in History, h.cooled = hist[p].cooled,
           NEW note, note = Protocol(p)!NoteTransition(h, brks[p], b)
    PROVE  /\ Good([brks EXCEPT ![p] = b], Seen(reqs, p, brks[p], b), [hist EXCEPT ![p] = note])
           /\ \A r \in Requests : Seen(reqs, p, brks[p], b)[r].pc = reqs[r].pc
<1> DEFINE seen == Seen(reqs, p, brks[p], b)
           brks1 == [brks EXCEPT ![p] = b]
           hist1 == [hist EXCEPT ![p] = note]
<1>1. /\ brks \in [Providers -> Breaker] /\ reqs \in [Requests -> Request]
      /\ hist \in [Providers -> History]
      /\ \A r \in Requests : Sound(reqs[r])
      /\ Quiet(brks, reqs, hist)
  BY DEF Good
<1>2. ASSUME NEW r \in Requests
      PROVE  /\ seen[r] \in Request
             /\ seen[r].pc = reqs[r].pc /\ seen[r].route = reqs[r].route /\ seen[r].i = reqs[r].i
             /\ seen[r].held = reqs[r].held /\ seen[r].left = reqs[r].left
             /\ seen[r].elapsed = reqs[r].elapsed
  <2>1. PICK q \in Request : q = reqs[r]
    BY <1>1
  <2>2. seen[r] = q \/ seen[r] = [q EXCEPT !.fresh = FALSE]
    BY <2>1 DEF Seen
  <2> QED BY <2>1, <2>2 DEF Request
<1>3. seen \in [Requests -> Request]
  <2>1. seen = [r \in Requests |-> seen[r]]
    BY DEF Seen
  <2> HIDE DEF seen
  <2> QED BY <1>2, <2>1
<1>4. note \in History /\ note.cooled = IF b.state = Open /\ brks[p].state # Open THEN 0 ELSE hist[p].cooled
  BY Noted
<1>5. brks1 \in [Providers -> Breaker] /\ hist1 \in [Providers -> History]
  BY <1>1, <1>4
<1>6. \A r \in Requests : Sound(seen[r])
  <2> TAKE r \in Requests
  <2> HIDE DEF seen
  <2> QED BY <1>1, <1>2 DEF Sound
<1>7. Quiet(brks1, seen, hist1)
  <2> SUFFICES ASSUME NEW p1 \in Providers, NEW r \in Requests, brks1[p1].state = Open,
                      seen[r].pc = "backoff", On(seen[r], p1)
               PROVE  hist1[p1].cooled <= seen[r].held
    BY DEF Quiet
  <2>1. reqs[r].pc = "backoff" /\ On(reqs[r], p1) /\ reqs[r].held = seen[r].held
    <3> HIDE DEF seen
    <3> QED BY <1>2 DEF On
  <2>2. CASE p1 # p
    <3>1. brks1[p1] = brks[p1] /\ hist1[p1] = hist[p1]
      BY <1>1, <2>2
    <3> QED BY <1>1, <2>1, <3>1 DEF Quiet
  <2>3. CASE p1 = p
    <3>1. brks1[p1] = b /\ hist1[p1] = note
      BY <1>1, <2>3
    <3>2. CASE brks[p].state = Open
      <4>1. hist[p].cooled <= reqs[r].held
        BY <1>1, <2>1, <2>3, <3>2 DEF Quiet
      <4> QED BY <1>4, <2>1, <3>1, <3>2, <4>1
    <3>3. CASE brks[p].state # Open
      <4>1. note.cooled = 0 /\ reqs[r].held \in Nat
        BY <1>1, <1>4, <3>1, <3>3 DEF Request
      <4> QED BY <2>1, <3>1, <4>1
    <3> QED BY <3>2, <3>3
  <2> QED BY <2>2, <2>3
<1> QED BY <1>2, <1>3, <1>5, <1>6, <1>7 DEF Good

\* Request r becomes q; it does not begin to sleep before an open breaker.
LEMMA Moved ==
    ASSUME NEW brks, NEW reqs, NEW hist, Good(brks, reqs, hist),
           NEW r \in Requests, NEW q \in Request, Sound(q),
           q.pc = "backoff" => brks[q.route[q.i]].state # Open
    PROVE  Good(brks, [reqs EXCEPT ![r] = q], hist)
<1> DEFINE reqs1 == [reqs EXCEPT ![r] = q]
<1>1. reqs \in [Requests -> Request] /\ reqs1 \in [Requests -> Request]
  BY DEF Good
<1>2. reqs1[r] = q /\ \A s \in Requests : s # r => reqs1[s] = reqs[s]
  BY <1>1
<1>3. \A s \in Requests : Sound(reqs1[s])
  <2> HIDE DEF reqs1
  <2> QED BY <1>2 DEF Good
<1>4. Quiet(brks, reqs1, hist)
  <2> SUFFICES ASSUME NEW p \in Providers, NEW s \in Requests, brks[p].state = Open,
                      reqs1[s].pc = "backoff", On(reqs1[s], p)
               PROVE  hist[p].cooled <= reqs1[s].held
    BY DEF Quiet
  <2> HIDE DEF reqs1
  <2>1. s # r
    BY <1>2 DEF On
  <2> QED BY <1>2, <2>1 DEF Good, Quiet
<1> QED BY <1>1, <1>3, <1>4 DEF Good

\* What a request is before execute, and when it is over.
LEMMA IdleIsSound ==
    /\ Idle \in Request /\ Sound(Idle) /\ Idle.pc = "idle" /\ Idle.elapsed = 0
    /\ \A route \in Routes : /\ [Idle EXCEPT !.route = route] \in Request
                            /\ [Idle EXCEPT !.route = route].route = route
<1>1. 0 \in 0 .. Deadline + MaxDelay + LongestCall /\ 0 \in 0 .. MaxDelay + LongestCall
  BY ConstantTypes
<1>2. "none" \in LastError /\ "idle" \in Resting
  BY DEF LastError, Resting
<1>3. Idle \in Request /\ Idle.pc = "idle" /\ Idle.elapsed = 0
  BY <1>1, <1>2 DEF Idle, Request
<1>4. Sound(Idle)
  BY <1>3 DEF Sound, Active
<1> QED BY <1>3, <1>4 DEF Request

LEMMA EndedIsSound ==
    ASSUME NEW outcome \in Resting, NEW err \in LastError
    PROVE  /\ Ended(outcome, err) \in Request /\ Sound(Ended(outcome, err))
           /\ Ended(outcome, err).pc = outcome /\ outcome \notin Active
<1>1. Ended(outcome, err).pc = outcome
  BY DEF Ended, Idle
<1>2. Idle \in Request
  BY IdleIsSound
<1>3. outcome \notin Active
  BY DEF Active, Resting
<1>4. Ended(outcome, err) \in Request
  BY <1>2 DEF Ended, Request
<1> QED BY <1>1, <1>3, <1>4 DEF Sound

\* The request that Continue sends on its way.
Sent(q, k, err, delay, probe) ==
    [q EXCEPT !.pc = IF delay = 0 THEN "calling" ELSE "backoff",
              !.i = k, !.attempts = @ + 1, !.lastError = err,
              !.left = IF delay = 0 THEN LongestCall ELSE delay,
              !.held = 0, !.probe = probe, !.fresh = TRUE]

LEMMA SentIsSound ==
    ASSUME NEW q \in Request, q.route \in Routes, ~ PastDeadline(q),
           NEW k \in 1 .. Len(q.route), NEW err \in LastError,
           NEW delay \in 0 .. MaxDelay, NEW probe \in BOOLEAN
    PROVE  /\ Sent(q, k, err, delay, probe) \in Request
           /\ Sound(Sent(q, k, err, delay, probe))
           /\ Sent(q, k, err, delay, probe).pc \in Active
           /\ Sent(q, k, err, delay, probe).route = q.route
           /\ Sent(q, k, err, delay, probe).i = k
           /\ Sent(q, k, err, delay, probe).attempts = q.attempts + 1
<1> DEFINE sent == Sent(q, k, err, delay, probe)
<1>1. /\ sent.pc = (IF delay = 0 THEN "calling" ELSE "backoff")
      /\ sent.route = q.route /\ sent.i = k /\ sent.attempts = q.attempts + 1
      /\ sent.lastError = err /\ sent.elapsed = q.elapsed
      /\ sent.left = (IF delay = 0 THEN LongestCall ELSE delay) /\ sent.held = 0
  BY DEF Sent, Request
<1>2. q.elapsed \in Nat /\ q.elapsed <= Deadline
  BY ConstantTypes DEF PastDeadline, Request
<1>3. sent.left \in 0 .. MaxDelay + LongestCall /\ 0 \in 0 .. MaxDelay + LongestCall
  <2> HIDE DEF sent
  <2> QED BY <1>1, ConstantTypes
<1>4. sent \in Request
  <2>1. k \in Nat /\ q.attempts + 1 \in Nat
    BY ConstantTypes DEF Request
  <2> QED BY <1>3, <2>1 DEF Sent, Request, Active
<1>5. Sound(sent)
  <2> HIDE DEF sent
  <2> QED BY <1>1, <1>2, ConstantTypes DEF Sound
<1>6. sent.pc \in Active
  BY <1>1 DEF Active
<1> QED BY <1>1, <1>4, <1>5, <1>6
-----------------------------------------------------------------------------
\* What Continue comes to.

\* The loop is left: it is too late, or nothing is left that can be tried.
GivesUp(r, q, j, err, brks, reqs, hist) ==
    /\ PastDeadline(q) \/ \A n \in j .. Len(q.route) : ~ CanTry(q.route, n, brks)
    /\ breakers' = brks /\ history' = hist
    /\ requests' = [reqs EXCEPT ![r] = Ended("exhausted", err)]

\* Target k is tried.
Tries(r, q, k, err, delay, brks, reqs, hist) ==
    LET p     == q.route[k]
        after == AfterGrant(brks[p])
    IN  /\ ~ PastDeadline(q) /\ Grants(brks[p])
        /\ breakers' = [brks EXCEPT ![p] = after]
        /\ history' = [hist EXCEPT ![p] = Protocol(p)!NoteTransition(hist[p], brks[p], after)]
        /\ requests' = [Seen(reqs, p, brks[p], after) EXCEPT
                          ![r] = Sent(q, k, err, delay, brks[p].state # Closed)]

LEMMA Onward ==
    ASSUME NEW brks, NEW reqs, NEW hist, hist \in [Providers -> History],
           NEW r \in Requests, NEW q \in Request, q.route \in Routes,
           NEW j \in 1 .. Len(q.route) + 1, Continue(r, q, j, brks, reqs, hist)
    PROVE  \/ \E err \in LastError : GivesUp(r, q, j, err, brks, reqs, hist)
           \/ \E k \in 1 .. Len(q.route), err \in LastError, delay \in 0 .. MaxDelay :
                 /\ Tries(r, q, k, err, delay, brks, reqs, hist)
                 /\ k >= j /\ \A n \in j .. Len(q.route) : CanTry(q.route, n, brks) => k <= n
                 /\ q.attempts = 0 => delay = 0
<1> DEFINE k == IF PastDeadline(q) THEN Len(q.route) + 1 ELSE NextTarget(q.route, j, brks)
           err == IF PastDeadline(q) THEN q.lastError
                  ELSE ErrorAfterSkips(q.route, j, k, q.lastError)
<1>1. Len(q.route) \in Nat
  BY ConstantTypes
<1>2. err \in LastError
  BY ErrorTypes DEF Request
<1>3. /\ k > Len(q.route) =>
           PastDeadline(q) \/ \A n \in j .. Len(q.route) : ~ CanTry(q.route, n, brks)
      /\ k <= Len(q.route) =>
           /\ ~ PastDeadline(q) /\ k \in 1 .. Len(q.route) /\ CanTry(q.route, k, brks)
           /\ k >= j /\ \A n \in j .. Len(q.route) : CanTry(q.route, n, brks) => k <= n
      /\ k \in Nat
  <2>1. CASE PastDeadline(q)
    BY <1>1, <2>1
  <2>2. CASE ~ PastDeadline(q)
    <3>1. k = NextTarget(q.route, j, brks)
      BY <2>2
    <3> HIDE DEF k
    <3> QED BY <1>1, <2>2, <3>1, NextTargetIsFirst
  <2> QED BY <2>1, <2>2
<1>4. CASE k > Len(q.route)
  <2>1. GivesUp(r, q, j, err, brks, reqs, hist)
    <3>1. /\ breakers' = brks
          /\ requests' = [reqs EXCEPT ![r] = Ended("exhausted", err)]
          /\ history' = hist
      <4>1. ~ (k <= Len(q.route))
        <5> HIDE DEF k
        <5> QED BY <1>1, <1>3, <1>4
      <4> QED BY <4>1 DEF Continue
    <3> HIDE DEF k, err
    <3> QED BY <1>3, <1>4, <3>1 DEF GivesUp
  <2> QED BY <1>2, <2>1
<1>5. CASE k <= Len(q.route)
  <2> DEFINE p == q.route[k]
             after == AfterGrant(brks[p])
  <2>1. /\ breakers' = [brks EXCEPT ![p] = after]
        /\ history' = [hist EXCEPT ![p] = Protocol(p)!NoteTransition(@, brks[p], after)]
        /\ \E delay \in Delays(q.attempts) :
              requests' = [Seen(reqs, p, brks[p], after) EXCEPT
                             ![r] = Sent(q, k, err, delay, brks[p].state # Closed)]
    <3>1. ~ (k > Len(q.route))
      <4> HIDE DEF k
      <4> QED BY <1>1, <1>3, <1>5
    <3> QED BY <3>1 DEF Continue, Sent
  <2>2. PICK delay \in 0 .. MaxDelay :
           /\ requests' = [Seen(reqs, p, brks[p], after) EXCEPT
                             ![r] = Sent(q, k, err, delay, brks[p].state # Closed)]
           /\ q.attempts = 0 => delay = 0
    <3> HIDE DEF k, err, p, after
    <3>1. q.attempts \in Nat
      BY DEF Request
    <3>2. \A delay \in Delays(q.attempts) : delay \in 0 .. MaxDelay
      BY <3>1, DelaysInRange
    <3>3. \A delay \in Delays(q.attempts) : q.attempts = 0 => delay = 0
      BY DEF Delays
    <3> QED BY <2>1, <3>2, <3>3
  <2>3. p \in Providers /\ Grants(brks[p]) /\ ~ PastDeadline(q) /\ k \in 1 .. Len(q.route)
    <3> HIDE DEF k
    <3> QED BY <1>3, <1>5, Targets DEF CanTry
  <2>4. history' = [hist EXCEPT ![p] = Protocol(p)!NoteTransition(hist[p], brks[p], after)]
    <3> HIDE DEF k, err
    <3> QED BY <2>1, <2>3
  <2>5. Tries(r, q, k, err, delay, brks, reqs, hist)
    <3> HIDE DEF k, err
    <3> QED BY <2>1, <2>2, <2>3, <2>4 DEF Tries
  <2>6. k >= j /\ \A n \in j .. Len(q.route) : CanTry(q.route, n, brks) => k <= n
    <3> HIDE DEF k
    <3> QED BY <1>3, <1>5
  <2> HIDE DEF k, err
  <2> QED BY <1>2, <2>2, <2>3, <2>5, <2>6
<1>6. k > Len(q.route) \/ k <= Len(q.route)
  <2> HIDE DEF k
  <2> QED BY <1>1, <1>3
<1> QED BY <1>4, <1>5, <1>6

\* Who tries a target is under way to it.
LEMMA TriesFacts ==
    ASSUME NEW brks, NEW reqs, NEW hist, NEW r \in Requests, NEW q \in Request, q.route \in Routes,
           NEW k \in 1 .. Len(q.route), NEW err \in LastError, NEW delay \in 0 .. MaxDelay,
           Tries(r, q, k, err, delay, brks, reqs, hist)
    PROVE  requests'[r].pc \in Active /\ requests'[r].attempts # q.attempts /\ requests'[r].i = k
<1>1. ~ PastDeadline(q)
  BY DEF Tries
<1>2. requests'[r] = Sent(q, k, err, delay, brks[q.route[k]].state # Closed)
  <2>1. DOMAIN Seen(reqs, q.route[k], brks[q.route[k]], AfterGrant(brks[q.route[k]])) = Requests
    BY DEF Seen
  <2> QED BY <2>1 DEF Tries
<1>3. requests'[r].pc \in Active /\ requests'[r].attempts # q.attempts /\ requests'[r].i = k
  <2>1. PICK probe \in BOOLEAN : requests'[r] = Sent(q, k, err, delay, probe)
    BY <1>2
  <2>2. requests'[r].pc \in Active /\ requests'[r].attempts = q.attempts + 1 /\ requests'[r].i = k
    BY <1>1, <2>1, SentIsSound
  <2>3. q.attempts \in Nat
    BY DEF Request
  <2> QED BY <2>2, <2>3
<1> QED BY <1>3

\* Either way the invariant is kept.
LEMMA ContinueKeeps ==
    ASSUME NEW brks, NEW reqs, NEW hist, Good(brks, reqs, hist),
           NEW r \in Requests, NEW q \in Request, q.route \in Routes,
           NEW j \in 1 .. Len(q.route) + 1, Continue(r, q, j, brks, reqs, hist)
    PROVE  IInv'
<1>1. brks \in [Providers -> Breaker] /\ hist \in [Providers -> History]
  BY DEF Good
<1>2. ASSUME NEW err \in LastError, GivesUp(r, q, j, err, brks, reqs, hist) PROVE IInv'
  <2>1. "exhausted" \in Resting /\ "exhausted" # "backoff"
    BY DEF Resting
  <2>2. Good(brks, [reqs EXCEPT ![r] = Ended("exhausted", err)], hist)
    BY <2>1, EndedIsSound, Moved
  <2> QED BY <1>2, <2>2 DEF GivesUp, IInv
<1>3. ASSUME NEW k \in 1 .. Len(q.route), NEW err \in LastError, NEW delay \in 0 .. MaxDelay,
             Tries(r, q, k, err, delay, brks, reqs, hist)
      PROVE  IInv'
  <2> DEFINE p == q.route[k]
             after == AfterGrant(brks[p])
             note == Protocol(p)!NoteTransition(hist[p], brks[p], after)
             sent == Sent(q, k, err, delay, brks[p].state # Closed)
  <2>1. p \in Providers
    BY Targets
  <2>2. after \in Breaker /\ after.state # Open
    <3>1. brks[p] \in Breaker /\ Grants(brks[p])
      BY <1>1, <1>3, <2>1 DEF Tries
    <3>2. brks[p].state \in CircuitState
      BY <3>1 DEF Breaker
    <3> QED BY <3>1, <3>2, AfterGrantLemma DEF CircuitState, Open, HalfOpen, Closed
  <2>3. Good([brks EXCEPT ![p] = after], Seen(reqs, p, brks[p], after), [hist EXCEPT ![p] = note])
    <3>1. hist[p] \in History
      BY <1>1, <2>1
    <3> HIDE DEF p, after
    <3> QED BY <2>1, <2>2, <3>1, Recorded
  <2>4. sent \in Request /\ Sound(sent) /\ sent.route[sent.i] = p
    <3>1. ~ PastDeadline(q)
      BY <1>3 DEF Tries
    <3>2. PICK probe \in BOOLEAN : sent = Sent(q, k, err, delay, probe)
      <4>1. (brks[p].state # Closed) \in BOOLEAN
        OBVIOUS
      <4> QED BY <4>1
    <3> HIDE DEF p, after, note, sent
    <3>3. LET s == Sent(q, k, err, delay, probe)
          IN  s \in Request /\ Sound(s) /\ s.route = q.route /\ s.i = k
      BY <3>1, SentIsSound
    <3> QED BY <3>2, <3>3 DEF p
  <2>5. [brks EXCEPT ![p] = after][sent.route[sent.i]].state # Open
    <3> HIDE DEF p, after, sent
    <3> QED BY <1>1, <2>1, <2>2, <2>4
  <2>6. /\ breakers' = [brks EXCEPT ![p] = after] /\ history' = [hist EXCEPT ![p] = note]
        /\ requests' = [Seen(reqs, p, brks[p], after) EXCEPT ![r] = sent]
    BY <1>3 DEF Tries
  <2> HIDE DEF p, after, note, sent
  <2> QED BY <2>3, <2>4, <2>5, <2>6, Moved DEF IInv
<1> QED BY <1>1, <1>2, <1>3, Onward
-----------------------------------------------------------------------------
\* Every step keeps the invariant.

\* Nobody is under way at first.
LEMMA InitInv == Init => IInv
<1> SUFFICES ASSUME Init PROVE IInv
  OBVIOUS
<1>1. breakers \in [Providers -> Breaker]
  BY FieldTypes DEF Init, NewBreaker, Breaker
<1>2. Idle \in Request /\ Sound(Idle) /\ Idle.pc = "idle"
  BY IdleIsSound
<1>3. requests \in [Requests -> Request] /\ \A r \in Requests : requests[r] = Idle
  BY <1>2 DEF Init
<1>4. history \in [Providers -> History]
  BY ConstantTypes DEF Init, History
<1>5. Quiet(breakers, requests, history)
  BY <1>2, <1>3 DEF Quiet
<1> QED BY <1>1, <1>2, <1>3, <1>4, <1>5 DEF IInv, Good

\* A request that is calling has a target.
LEMMA Calling ==
    ASSUME IInv, NEW r \in Requests, requests[r].pc = "calling"
    PROVE  /\ requests[r] \in Request /\ requests[r].route \in Routes
           /\ requests[r].i \in 1 .. Len(requests[r].route)
           /\ Len(requests[r].route) \in Nat
           /\ Target(r) \in Providers /\ On(requests[r], Target(r))
           /\ breakers[Target(r)] \in Breaker /\ history[Target(r)] \in History
<1>1. requests[r] \in Request /\ requests[r].route \in Routes
      /\ requests[r].i \in 1 .. Len(requests[r].route)
  BY DEF IInv, Good, Sound, Active
<1>2. Target(r) \in Providers
  BY <1>1, Targets DEF Target
<1> QED BY <1>1, <1>2, ConstantTypes DEF IInv, Good, On, Target, Active

LEMMA StartStep == ASSUME IInv, NEW r \in Requests, Start(r) PROVE IInv'
<1>1. PICK route \in Routes :
         Continue(r, [Idle EXCEPT !.route = route], 1, breakers, requests, history)
  BY DEF Start
<1>2. PICK q \in Request : q = [Idle EXCEPT !.route = route] /\ q.route = route
  BY IdleIsSound
<1>3. 1 \in 1 .. Len(q.route) + 1
  BY <1>2, ConstantTypes
<1>4. Continue(r, q, 1, breakers, requests, history)
  BY <1>1, <1>2
<1>5. Good(breakers, requests, history)
  BY DEF IInv
<1> QED BY <1>2, <1>3, <1>4, <1>5, ContinueKeeps

LEMMA WakeStep == ASSUME IInv, NEW r \in Requests, Wake(r) PROVE IInv'
<1> DEFINE q == [requests[r] EXCEPT !.pc = "calling", !.left = LongestCall]
<1>1. requests[r] \in Request /\ Sound(requests[r]) /\ requests[r].pc = "backoff"
      /\ requests[r].left = 0 /\ requests \in [Requests -> Request]
  BY DEF IInv, Good, Wake
<1>2. q \in Request /\ q.pc = "calling"
  <2>1. LongestCall \in 0 .. MaxDelay + LongestCall /\ "calling" \in Active
    BY ConstantTypes DEF Active
  <2>2. PICK old \in Request : old = requests[r]
    BY <1>1
  <2> QED BY <2>1, <2>2 DEF Request
<1>3. Sound(q)
  <2>1. /\ q.route = requests[r].route /\ q.i = requests[r].i /\ q.held = requests[r].held
        /\ q.elapsed = requests[r].elapsed /\ q.left = LongestCall
    BY <1>1 DEF Request
  <2>2. requests[r].held \in Nat /\ requests[r].elapsed \in Nat
    BY <1>1, ConstantTypes DEF Request
  <2> HIDE DEF q
  <2> QED BY <1>1, <1>2, <2>1, <2>2, ConstantTypes DEF Sound, Active
<1>4. requests' = [requests EXCEPT ![r] = q] /\ breakers' = breakers /\ history' = history
  BY <1>1 DEF Wake
<1> HIDE DEF q
<1> QED BY <1>2, <1>3, <1>4, Moved DEF IInv

\* An answer that ends the request.
LEMMA FinishStep ==
    ASSUME IInv, NEW r \in Requests, requests[r].pc = "calling",
           NEW outcome \in Resting, NEW b \in Breaker, Finish(r, outcome, b)
    PROVE  IInv'
<1> DEFINE p == Target(r)
           note == Protocol(p)!NoteTransition(history[p], breakers[p], b)
<1>1. p \in Providers /\ history[p] \in History
  BY Calling
<1>2. Good([breakers EXCEPT ![p] = b], Seen(requests, p, breakers[p], b), [history EXCEPT ![p] = note])
  BY <1>1, Recorded DEF IInv
<1>3. "none" \in LastError /\ outcome # "backoff"
  BY DEF LastError, Resting
<1>4. /\ breakers' = [breakers EXCEPT ![p] = b]
      /\ requests' = [Seen(requests, p, breakers[p], b) EXCEPT ![r] = Ended(outcome, "none")]
      /\ history' = [history EXCEPT ![p] = note]
  <2>1. history \in [Providers -> History]
    BY DEF IInv, Good
  <2> QED BY <1>1, <2>1 DEF Finish
<1>5. Ended(outcome, "none") \in Request /\ Sound(Ended(outcome, "none"))
      /\ Ended(outcome, "none").pc = outcome
  BY <1>3, EndedIsSound
<1> HIDE DEF p, note
<1> QED BY <1>2, <1>3, <1>4, <1>5, Moved DEF IInv

\* What Fail leaves for Continue: the failure recorded, the error noted.
Failed(r) == RecordFailure(breakers[Target(r)])

Afterwards(r) ==
    Protocol(Target(r))!NoteTransition(
        Protocol(Target(r))!NoteFailure(history[Target(r)]), breakers[Target(r)], Failed(r))

LEMMA FailedCall ==
    ASSUME IInv, NEW r \in Requests, Fail(r)
    PROVE  /\ requests[r].pc = "calling" /\ Failed(r) \in Breaker
           /\ Good([breakers EXCEPT ![Target(r)] = Failed(r)],
                   Seen(requests, Target(r), breakers[Target(r)], Failed(r)),
                   [history EXCEPT ![Target(r)] = Afterwards(r)])
           /\ \E q \in Request :
                 /\ q.route = requests[r].route /\ q.route \in Routes
                 /\ q.elapsed = requests[r].elapsed /\ q.attempts = requests[r].attempts
                 /\ requests[r].i + 1 \in 1 .. Len(q.route) + 1
                 /\ Continue(r, q, requests[r].i + 1,
                             [breakers EXCEPT ![Target(r)] = Failed(r)],
                             Seen(requests, Target(r), breakers[Target(r)], Failed(r)),
                             [history EXCEPT ![Target(r)] = Afterwards(r)])
<1>1. requests[r].pc = "calling"
  BY DEF Fail
<1>2. /\ requests[r] \in Request /\ requests[r].route \in Routes
      /\ requests[r].i \in 1 .. Len(requests[r].route) /\ Len(requests[r].route) \in Nat
      /\ Target(r) \in Providers
      /\ breakers[Target(r)] \in Breaker /\ history[Target(r)] \in History
  BY <1>1, Calling
<1>3. Failed(r) \in Breaker
  BY <1>2, RecordFailureLemma DEF Failed
<1>4. Good([breakers EXCEPT ![Target(r)] = Failed(r)],
           Seen(requests, Target(r), breakers[Target(r)], Failed(r)),
           [history EXCEPT ![Target(r)] = Afterwards(r)])
  <2>1. PICK h \in History : h = Protocol(Target(r))!NoteFailure(history[Target(r)])
                             /\ h.cooled = history[Target(r)].cooled
    BY <1>2, Noted
  <2>2. Afterwards(r) = Protocol(Target(r))!NoteTransition(h, breakers[Target(r)], Failed(r))
    BY <2>1 DEF Afterwards
  <2> QED BY <1>2, <1>3, <2>1, <2>2, Recorded DEF IInv
<1>5. PICK err \in {"upstream", "transport"} :
         Continue(r, [requests[r] EXCEPT !.lastError = err], requests[r].i + 1,
                  [breakers EXCEPT ![Target(r)] = Failed(r)],
                  Seen(requests, Target(r), breakers[Target(r)], Failed(r)),
                  [history EXCEPT ![Target(r)] = Afterwards(r)])
  <2>1. [history EXCEPT ![Target(r)] = Afterwards(r)] =
        [history EXCEPT ![Target(r)] =
           Protocol(Target(r))!NoteTransition(
              Protocol(Target(r))!NoteFailure(@), breakers[Target(r)], Failed(r))]
    <3>1. history \in [Providers -> History]
      BY DEF IInv, Good
    <3> QED BY <1>2, <3>1 DEF Afterwards
  <2> QED BY <2>1 DEF Fail, Failed
<1>6. PICK q \in Request : /\ q = [requests[r] EXCEPT !.lastError = err]
                           /\ q.route = requests[r].route /\ q.elapsed = requests[r].elapsed
                           /\ q.attempts = requests[r].attempts
  <2> DEFINE q == [requests[r] EXCEPT !.lastError = err]
  <2>1. err \in LastError
    BY DEF LastError
  <2>2. q \in Request
    BY <1>2, <2>1 DEF Request
  <2>3. /\ q.route = requests[r].route /\ q.elapsed = requests[r].elapsed
        /\ q.attempts = requests[r].attempts
    BY <1>2 DEF Request
  <2> QED BY <2>2, <2>3
<1>7. requests[r].i + 1 \in 1 .. Len(q.route) + 1
  BY <1>2, <1>6
<1> QED BY <1>1, <1>2, <1>3, <1>4, <1>5, <1>6, <1>7
\* Time passes for everybody.
LEMMA TickKeeps == ASSUME IInv, Tick PROVE IInv'
<1>1. /\ breakers \in [Providers -> Breaker] /\ requests \in [Requests -> Request]
      /\ history \in [Providers -> History] /\ Quiet(breakers, requests, history)
      /\ \A r \in Requests : Sound(requests[r])
  BY DEF IInv, Good
<1>2. /\ breakers' = [p \in Providers |-> Elapse(breakers[p])]
      /\ \A p \in Providers : breakers'[p].state = breakers[p].state
      /\ breakers' \in [Providers -> Breaker]
  BY <1>1, ElapseLemma DEF Tick
<1>3. ASSUME NEW p \in Providers
      PROVE  history'[p] \in History /\ history'[p].cooled <= history[p].cooled + 1
  <2>1. PICK h \in History : h = history[p]
    BY <1>1
  <2>2. history'[p] = [h EXCEPT !.cooled = IF @ < ResetTimeout THEN @ + 1 ELSE @]
    BY <2>1 DEF Tick
  <2> QED BY <2>1, <2>2, ConstantTypes DEF History
<1>4. history' \in [Providers -> History]
  <2>1. history' = [p \in Providers |-> history'[p]]
    BY DEF Tick
  <2> QED BY <1>3, <2>1
<1>5. ASSUME NEW r \in Requests
      PROVE  /\ requests'[r] \in Request /\ Sound(requests'[r])
             /\ requests'[r].pc = requests[r].pc
             /\ Working(r) => /\ requests'[r].route = requests[r].route
                              /\ requests'[r].i = requests[r].i
                              /\ requests'[r].held = requests[r].held + 1
  <2>1. PICK q \in Request : q = requests[r] /\ Sound(q)
    BY <1>1
  <2>2. CASE ~ Working(r)
    <3>1. requests'[r] = q
      BY <2>1, <2>2 DEF Tick
    <3> QED BY <2>1, <2>2, <3>1
  <2>3. CASE Working(r)
    <3> DEFINE next == [q EXCEPT !.elapsed = @ + 1, !.left = @ - 1, !.held = @ + 1]
    <3>1. requests'[r] = next /\ q.left > 0
      BY <2>1, <2>3 DEF Tick
    <3>2. /\ next.pc = q.pc /\ next.route = q.route /\ next.i = q.i
          /\ next.elapsed = q.elapsed + 1 /\ next.left = q.left - 1 /\ next.held = q.held + 1
      BY <2>1 DEF Request
    <3>3. q.elapsed \in Nat /\ q.left \in Nat /\ q.held \in Nat /\ q.pc \in Active
      BY <2>1, <2>3, ConstantTypes DEF Request, Working
    <3>4. PICK longest \in Nat :
             /\ longest = IF q.pc = "backoff" THEN MaxDelay ELSE MaxDelay + LongestCall
             /\ longest <= MaxDelay + LongestCall
             /\ q.route \in Routes /\ q.i \in 1 .. Len(q.route)
             /\ q.held + q.left <= longest /\ q.elapsed + q.left <= Deadline + longest
      <4>1. CASE q.pc = "backoff"
        BY <2>1, <3>3, <4>1, ConstantTypes DEF Sound
      <4>2. CASE q.pc # "backoff"
        BY <2>1, <3>3, <4>2, ConstantTypes DEF Sound
      <4> QED BY <4>1, <4>2
    <3>5. /\ q.held + 1 + (q.left - 1) <= longest /\ q.elapsed + 1 + (q.left - 1) <= Deadline + longest
      <4>1. Deadline \in Nat
        BY ConstantTypes
      <4>2. q.held + 1 + (q.left - 1) = q.held + q.left /\ q.elapsed + 1 + (q.left - 1) = q.elapsed + q.left
        BY <3>3
      <4> HIDE DEF next
      <4> QED BY <3>4, <4>1, <4>2
    <3>6. Sound(next)
      <4> HIDE DEF next
      <4> QED BY <3>2, <3>4, <3>5 DEF Sound
    <3>7. /\ q.elapsed + 1 \in 0 .. Deadline + MaxDelay + LongestCall
          /\ q.left - 1 \in 0 .. MaxDelay + LongestCall /\ q.held + 1 \in 0 .. MaxDelay + LongestCall
      <4>1. q.left > 0
        BY <3>1
      <4> HIDE DEF next
      <4>2. q.held + q.left <= MaxDelay + LongestCall
        BY <3>3, <3>4, ConstantTypes
      <4>3. q.elapsed + q.left <= Deadline + MaxDelay + LongestCall
        BY <3>3, <3>4, ConstantTypes
      <4> QED BY <3>3, <4>1, <4>2, <4>3, ConstantTypes
    <3>8. next \in Request
      BY <2>1, <3>7 DEF Request
    <3> HIDE DEF next
    <3> QED BY <2>1, <3>1, <3>2, <3>6, <3>8
  <2> QED BY <2>2, <2>3
<1>6. requests' \in [Requests -> Request]
  <2>1. requests' = [r \in Requests |-> requests'[r]]
    BY DEF Tick
  <2> QED BY <1>5, <2>1
<1>7. Quiet(breakers', requests', history')
  <2> SUFFICES ASSUME NEW p \in Providers, NEW r \in Requests, breakers'[p].state = Open,
                      requests'[r].pc = "backoff", On(requests'[r], p)
               PROVE  history'[p].cooled <= requests'[r].held
    BY DEF Quiet
  <2>1. Working(r) /\ requests[r].pc = "backoff"
    BY <1>5 DEF Working, Active
  <2>2. On(requests[r], p) /\ breakers[p].state = Open
    BY <1>2, <1>5, <2>1 DEF On
  <2>3. history[p].cooled <= requests[r].held
    BY <1>1, <2>1, <2>2 DEF Quiet
  <2>4. history[p].cooled \in Nat /\ requests[r].held \in Nat /\ history'[p].cooled \in Nat
    BY <1>1, <1>3, ConstantTypes DEF History, Request
  <2> QED BY <1>3, <1>5, <2>1, <2>3, <2>4
<1> QED BY <1>2, <1>4, <1>5, <1>6, <1>7 DEF IInv, Good

LEMMA StepInv == IInv /\ [Next]_vars => IInv'
<1> SUFFICES ASSUME IInv, [Next]_vars PROVE IInv'
  OBVIOUS
<1>1. CASE Tick
  BY <1>1, TickKeeps
<1>2. ASSUME NEW r \in Requests, Start(r) PROVE IInv'
  BY <1>2, StartStep
<1>3. ASSUME NEW r \in Requests, Wake(r) PROVE IInv'
  BY <1>3, WakeStep
<1>4. ASSUME NEW r \in Requests, Succeed(r) \/ Reject(r) PROVE IInv'
  <2>1. requests[r].pc = "calling"
    BY <1>4 DEF Succeed, Reject
  <2>2. RecordSuccess(breakers[Target(r)]) \in Breaker
    BY <2>1, Calling, RecordSuccessLemma
  <2>3. "served" \in Resting /\ "rejected" \in Resting
    BY DEF Resting
  <2> QED BY <1>4, <2>1, <2>2, <2>3, FinishStep DEF Succeed, Reject
<1>5. ASSUME NEW r \in Requests, Fail(r) PROVE IInv'
  BY <1>5, FailedCall, ContinueKeeps
<1>6. ASSUME NEW r \in Requests, Escape(r) PROVE IInv'
  <2>1. "escaped" \in Resting /\ "escaped" # "backoff" /\ "none" \in LastError
    BY DEF Resting, LastError
  <2>2. /\ Ended("escaped", "none") \in Request /\ Sound(Ended("escaped", "none"))
        /\ Ended("escaped", "none").pc = "escaped"
    BY <2>1, EndedIsSound
  <2>3. /\ requests' = [requests EXCEPT ![r] = Ended("escaped", "none")]
        /\ breakers' = breakers /\ history' = history
    BY <1>6 DEF Escape
  <2> QED BY <2>1, <2>2, <2>3, Moved DEF IInv
<1>7. CASE UNCHANGED vars
  BY <1>7 DEF vars, IInv
<1> QED BY <1>1, <1>2, <1>3, <1>4, <1>5, <1>6, <1>7 DEF Next, Answer

LEMMA Invariant == Spec => []IInv
BY InitInv, StepInv, PTL DEF Spec
-----------------------------------------------------------------------------
\* The action properties.

\* No step that records something else than a failure opens a breaker.
LEMMA NotOpened ==
    ASSUME NEW b \in Breaker, b.state # Open
    PROVE  /\ Grants(b) => AfterGrant(b).state # Open
           /\ RecordSuccess(b).state # Open
<1>1. b.state \in {Closed, HalfOpen}
  BY DEF Breaker, CircuitState
<1>2. Closed # Open /\ HalfOpen # Open
  BY DEF Closed, Open, HalfOpen
<1> QED BY <1>1, <1>2, AfterGrantLemma, RecordSuccessLemma

\* A request that another one's step has moved.
LEMMA OthersStay ==
    ASSUME IInv, NEW r \in Requests, NEW s \in Requests, s # r,
           Start(s) \/ Wake(s) \/ Answer(s)
    PROVE  requests'[r].pc = requests[r].pc
<1>1. requests \in [Requests -> Request]
  BY DEF IInv, Good
<1>2. ASSUME NEW p, NEW from, NEW to PROVE Seen(requests, p, from, to)[r].pc = requests[r].pc
  <2>1. PICK q \in Request : q = requests[r]
    BY <1>1
  <2>2. Seen(requests, p, from, to)[r] \in {q, [q EXCEPT !.fresh = FALSE]}
    BY <2>1 DEF Seen
  <2> QED BY <2>1, <2>2 DEF Request
<1>3. ASSUME NEW brks, NEW reqs, NEW hist, Good(brks, reqs, hist), reqs[r].pc = requests[r].pc,
             NEW q \in Request, q.route \in Routes, NEW j \in 1 .. Len(q.route) + 1,
             Continue(s, q, j, brks, reqs, hist)
      PROVE  requests'[r].pc = requests[r].pc
  <2>1. hist \in [Providers -> History] /\ reqs \in [Requests -> Request]
    BY <1>3 DEF Good
  <2>2. ASSUME NEW err, GivesUp(s, q, j, err, brks, reqs, hist)
        PROVE  requests'[r].pc = requests[r].pc
    BY <1>3, <2>1, <2>2 DEF GivesUp
  <2>3. ASSUME NEW k, NEW err, NEW delay, Tries(s, q, k, err, delay, brks, reqs, hist)
        PROVE  requests'[r].pc = requests[r].pc
    <3> DEFINE p == q.route[k]
               seen == Seen(reqs, p, brks[p], AfterGrant(brks[p]))
    <3>1. PICK old \in Request : old = reqs[r]
      BY <2>1
    <3>2. seen[r] \in {old, [old EXCEPT !.fresh = FALSE]}
      BY <3>1 DEF Seen
    <3>3. seen[r].pc = old.pc
      <4> HIDE DEF seen
      <4> QED BY <3>2 DEF Request
    <3>4. DOMAIN seen = Requests
      BY DEF Seen
    <3>5. requests'[r] = seen[r]
      BY <2>3, <3>4 DEF Tries
    <3> QED BY <1>3, <3>1, <3>3, <3>5
  <2> QED BY <1>3, <2>1, <2>2, <2>3, Onward
<1>4. CASE Start(s)
  <2>1. PICK route \in Routes :
           Continue(s, [Idle EXCEPT !.route = route], 1, breakers, requests, history)
    BY <1>4 DEF Start
  <2>2. PICK q \in Request : q = [Idle EXCEPT !.route = route] /\ q.route = route
    BY IdleIsSound
  <2>3. 1 \in 1 .. Len(q.route) + 1
    BY <2>2, ConstantTypes
  <2>4. Continue(s, q, 1, breakers, requests, history)
    BY <2>1, <2>2
  <2> QED BY <1>3, <2>2, <2>3, <2>4 DEF IInv
<1>5. CASE Wake(s)
  BY <1>1, <1>5 DEF Wake
<1>6. CASE Succeed(s) \/ Reject(s)
  <2>1. PICK outcome, b : requests' = [Seen(requests, Target(s), breakers[Target(s)], b) EXCEPT
                                         ![s] = Ended(outcome, "none")]
    BY <1>6 DEF Succeed, Reject, Finish
  <2>2. DOMAIN Seen(requests, Target(s), breakers[Target(s)], b) = Requests
    BY DEF Seen
  <2> QED BY <1>2, <2>1, <2>2
<1>7. CASE Fail(s)
  <2> DEFINE brks == [breakers EXCEPT ![Target(s)] = Failed(s)]
             reqs == Seen(requests, Target(s), breakers[Target(s)], Failed(s))
             hist == [history EXCEPT ![Target(s)] = Afterwards(s)]
  <2>1. Good(brks, reqs, hist) /\ reqs[r].pc = requests[r].pc
    BY <1>2, <1>7, FailedCall
  <2>2. PICK q \in Request :
           /\ q.route \in Routes /\ requests[s].i + 1 \in 1 .. Len(q.route) + 1
           /\ Continue(s, q, requests[s].i + 1, brks, reqs, hist)
    BY <1>7, FailedCall
  <2> HIDE DEF brks, reqs, hist
  <2> QED BY <1>3, <2>1, <2>2
<1>8. CASE Escape(s)
  BY <1>1, <1>8 DEF Escape
<1> QED BY <1>4, <1>5, <1>6, <1>7, <1>8 DEF Answer
\* A failure that ends the request leaves no later target that could be tried.
LEMMA PassedOverStep ==
    ASSUME IInv, [Next]_vars, NEW r \in Requests, Working(r), requests'[r].pc = "exhausted",
           requests[r].elapsed <= Deadline,
           NEW j \in requests[r].i + 1 .. Len(requests[r].route)
    PROVE  requests[r].route[j] \in Configured => ~ Grants(breakers'[requests[r].route[j]])
<1>1. requests \in [Requests -> Request] /\ requests[r].pc # "exhausted"
  BY DEF IInv, Good, Working, Active
<1>2. ~ Tick /\ ~ UNCHANGED vars
  <2>1. PICK q \in Request : q = requests[r]
    BY <1>1
  <2>2. Tick => requests'[r] = [q EXCEPT !.elapsed = @ + 1, !.left = @ - 1, !.held = @ + 1]
    BY <2>1 DEF Tick
  <2>3. Tick => requests'[r].pc = q.pc
    BY <2>2 DEF Request
  <2> QED BY <1>1, <2>1, <2>3 DEF vars
<1>3. Start(r) \/ Wake(r) \/ Answer(r)
  BY <1>1, <1>2, OthersStay DEF Next
<1>4. ~ Start(r) /\ ~ Wake(r) /\ ~ Escape(r)
  <2>1. ~ Start(r)
    BY DEF Start
  <2>2. Wake(r) => requests'[r].pc = "calling"
    <3>1. PICK q \in Request : q = requests[r]
      BY <1>1
    <3>2. Wake(r) => requests'[r] = [q EXCEPT !.pc = "calling", !.left = LongestCall]
      BY <1>1, <3>1 DEF Wake
    <3> QED BY <3>2 DEF Request
  <2>3. ~ Escape(r)
    BY <1>1 DEF Escape, Ended, Idle
  <2> QED BY <2>1, <2>2, <2>3
<1>5. ~ Succeed(r) /\ ~ Reject(r)
  <2>1. ASSUME NEW outcome, NEW b, Finish(r, outcome, b) PROVE requests'[r].pc = outcome
    <3>1. DOMAIN Seen(requests, Target(r), breakers[Target(r)], b) = Requests
      BY DEF Seen
    <3> QED BY <2>1, <3>1 DEF Finish, Ended, Idle
  <2> QED BY <2>1 DEF Succeed, Reject
<1>6. Fail(r)
  BY <1>3, <1>4, <1>5 DEF Answer
<1> DEFINE brks == [breakers EXCEPT ![Target(r)] = Failed(r)]
           reqs == Seen(requests, Target(r), breakers[Target(r)], Failed(r))
           hist == [history EXCEPT ![Target(r)] = Afterwards(r)]
<1>7. Good(brks, reqs, hist)
  BY <1>6, FailedCall
<1>8. PICK q \in Request :
         /\ q.route = requests[r].route /\ q.route \in Routes /\ q.elapsed = requests[r].elapsed
         /\ requests[r].i + 1 \in 1 .. Len(q.route) + 1
         /\ Continue(r, q, requests[r].i + 1, brks, reqs, hist)
  BY <1>6, FailedCall
<1>9. hist \in [Providers -> History] /\ DOMAIN reqs = Requests
  BY <1>7 DEF Good
<1> HIDE DEF brks, reqs, hist
<1>10. CASE \E err \in LastError : GivesUp(r, q, requests[r].i + 1, err, brks, reqs, hist)
  <2>1. breakers' = brks /\ ~ CanTry(q.route, j, brks)
    BY <1>8, <1>10, ConstantTypes DEF GivesUp, PastDeadline, Request
  <2> QED BY <1>8, <2>1 DEF CanTry
<1>11. CASE \E k \in 1 .. Len(q.route), err \in LastError, delay \in 0 .. MaxDelay :
               Tries(r, q, k, err, delay, brks, reqs, hist)
  <2>1. PICK k \in 1 .. Len(q.route), err \in LastError, delay \in 0 .. MaxDelay :
           Tries(r, q, k, err, delay, brks, reqs, hist)
    BY <1>11
  <2>2. requests'[r].pc \in Active
    BY <1>8, <2>1, TriesFacts
  <2> QED BY <2>2 DEF Active
<1> QED BY <1>8, <1>9, <1>10, <1>11, Onward

\* What opens a breaker.
LEMMA OpeningStep ==
    ASSUME IInv, [Next]_vars, NEW p \in Providers,
           breakers[p].state # Open, breakers'[p].state = Open
    PROVE  \E r \in Requests : /\ requests[r].pc = "calling" /\ Target(r) = p
                               /\ requests'[r].pc \notin {"served", "rejected", "escaped"}
                               /\ requests'[r].i # requests[r].i
<1>1. breakers \in [Providers -> Breaker] /\ breakers[p] \in Breaker
      /\ requests \in [Requests -> Request]
  BY DEF IInv, Good
<1>2. ~ Tick /\ ~ UNCHANGED vars
  <2>1. Tick => breakers'[p] = Elapse(breakers[p])
    BY DEF Tick
  <2> QED BY <1>1, <2>1, ElapseLemma DEF vars
<1>3. ASSUME NEW brks, NEW reqs, NEW hist, Good(brks, reqs, hist),
             NEW r \in Requests, NEW q \in Request, q.route \in Routes,
             NEW j \in 1 .. Len(q.route) + 1, Continue(r, q, j, brks, reqs, hist)
      PROVE  /\ brks[p].state = Open /\ breakers'[p] = brks[p]
             /\ \/ requests'[r].pc = "exhausted" /\ requests'[r].i = 0
                \/ requests'[r].pc \in Active /\ requests'[r].i \in j .. Len(q.route)
  <2>1. hist \in [Providers -> History] /\ DOMAIN reqs = Requests
        /\ brks \in [Providers -> Breaker] /\ brks[p] \in Breaker
    BY <1>3 DEF Good
  <2>2. ASSUME NEW err \in LastError, GivesUp(r, q, j, err, brks, reqs, hist)
        PROVE  /\ brks[p].state = Open /\ breakers'[p] = brks[p]
               /\ requests'[r].pc = "exhausted" /\ requests'[r].i = 0
    <3>1. requests'[r] = Ended("exhausted", err) /\ breakers' = brks
      BY <2>1, <2>2 DEF GivesUp
    <3> QED BY <3>1 DEF Ended, Idle
  <2>3. ASSUME NEW k \in 1 .. Len(q.route), NEW err \in LastError, NEW delay \in 0 .. MaxDelay,
               k >= j, Tries(r, q, k, err, delay, brks, reqs, hist)
        PROVE  /\ brks[p].state = Open /\ breakers'[p] = brks[p]
               /\ requests'[r].pc \in Active /\ requests'[r].i \in j .. Len(q.route)
    <3> DEFINE p1 == q.route[k]
               after == AfterGrant(brks[p1])
    <3>1. /\ p1 \in Providers /\ Grants(brks[p1]) /\ breakers' = [brks EXCEPT ![p1] = after]
          /\ requests'[r].pc \in Active /\ requests'[r].i = k
      <4>1. q.route \in Routes
        BY <1>3
      <4>2. requests'[r].pc \in Active /\ requests'[r].i = k
        BY <2>3, <4>1, TriesFacts
      <4>3. p1 \in Providers
        BY <4>1, Targets
      <4>4. Grants(brks[p1]) /\ breakers' = [brks EXCEPT ![p1] = after]
        BY <2>3 DEF Tries
      <4> QED BY <4>2, <4>3, <4>4
    <3>2. p # p1
      <4>1. CASE brks[p1].state # Open
        <5>1. after.state # Open
          BY <2>1, <3>1, <4>1, NotOpened
        <5> HIDE DEF p1, after
        <5> QED BY <2>1, <3>1, <5>1
      <4>2. CASE brks[p1].state = Open
        <5>1. after.state = HalfOpen
          BY <2>1, <3>1, <4>2, AfterGrantLemma
        <5> HIDE DEF p1, after
        <5> QED BY <2>1, <3>1, <5>1 DEF Open, HalfOpen
      <4> QED BY <4>1, <4>2
    <3>3. breakers'[p] = brks[p]
      <4> HIDE DEF p1, after
      <4> QED BY <2>1, <3>1, <3>2
    <3>4. brks[p].state = Open
      BY <3>3
    <3>5. k \in j .. Len(q.route)
      BY <2>3
    <3> QED BY <3>1, <3>3, <3>4, <3>5
  <2> QED BY <1>3, <2>1, <2>2, <2>3, Onward
<1>4. ASSUME NEW r \in Requests PROVE ~ Start(r) /\ ~ Wake(r) /\ ~ Escape(r)
  <2>1. ~ Start(r)
    <3> SUFFICES ASSUME Start(r) PROVE FALSE
      OBVIOUS
    <3>1. PICK route \in Routes :
             Continue(r, [Idle EXCEPT !.route = route], 1, breakers, requests, history)
      BY DEF Start
    <3>2. PICK q \in Request : q = [Idle EXCEPT !.route = route] /\ q.route = route
      BY IdleIsSound
    <3>3. 1 \in 1 .. Len(q.route) + 1 /\ Continue(r, q, 1, breakers, requests, history)
      BY <3>1, <3>2, ConstantTypes
    <3> QED BY <1>3, <3>2, <3>3 DEF IInv
  <2> QED BY <2>1 DEF Wake, Escape
<1>5. ASSUME NEW r \in Requests PROVE ~ Succeed(r) /\ ~ Reject(r)
  <2>1. ASSUME NEW outcome, Finish(r, outcome, RecordSuccess(breakers[Target(r)])) PROVE FALSE
    <3>1. breakers' = [breakers EXCEPT ![Target(r)] = RecordSuccess(breakers[Target(r)])]
      BY <2>1 DEF Finish
    <3>2. RecordSuccess(breakers[p]).state # Open
      BY <1>1, NotOpened
    <3> QED BY <1>1, <3>1, <3>2
  <2> QED BY <2>1 DEF Succeed, Reject
<1>6. PICK r \in Requests : Fail(r)
  BY <1>2, <1>4, <1>5 DEF Next, Answer
<1> DEFINE brks == [breakers EXCEPT ![Target(r)] = Failed(r)]
           reqs == Seen(requests, Target(r), breakers[Target(r)], Failed(r))
           hist == [history EXCEPT ![Target(r)] = Afterwards(r)]
<1>7. Good(brks, reqs, hist) /\ requests[r].pc = "calling"
  BY <1>6, FailedCall
<1>8. PICK q \in Request :
         /\ q.route \in Routes
         /\ requests[r].i + 1 \in 1 .. Len(q.route) + 1
         /\ Continue(r, q, requests[r].i + 1, brks, reqs, hist)
  BY <1>6, FailedCall
<1>9. /\ brks[p].state = Open
      /\ \/ requests'[r].pc = "exhausted" /\ requests'[r].i = 0
         \/ requests'[r].pc \in Active /\ requests'[r].i \in requests[r].i + 1 .. Len(q.route)
  <2> HIDE DEF brks, reqs, hist
  <2> QED BY <1>3, <1>7, <1>8
<1>10. Target(r) = p
  BY <1>1, <1>9
<1>11. requests'[r].i # requests[r].i
  <2>1. requests[r].i \in 1 .. Len(requests[r].route)
    BY <1>7, Calling DEF IInv, Good
  <2> QED BY <1>9, <2>1
<1>12. requests'[r].pc \notin {"served", "rejected", "escaped"}
  BY <1>9 DEF Active
<1> QED BY <1>7, <1>10, <1>11, <1>12
-----------------------------------------------------------------------------
\* The attempts on one provider.

Nobody == [phase |-> "none", probe |-> FALSE, fresh |-> FALSE, held |-> 0]

\* The attempt that request q makes on provider p.
Attempt(q, p) ==
    IF On(q, p)
    THEN [phase |-> IF q.pc = "backoff" THEN "granted" ELSE "calling",
          probe |-> q.probe, fresh |-> q.fresh, held |-> q.held]
    ELSE Nobody

AttemptsOf(reqs, p) == [r \in Requests |-> Attempt(reqs[r], p)]

Stale(a) == [phase |-> a.phase, probe |-> a.probe, fresh |-> FALSE, held |-> a.held]

\* Attempts as a breaker transition leaves them.
SeenBy(as, from, to) ==
    IF to.state = from.state THEN as
    ELSE [r \in Requests |-> Stale(as[r])]

\* That is what AttemptsOn says, now and after a step.
LEMMA Mapped ==
    ASSUME NEW p \in Providers
    PROVE  AttemptsOn(p) = AttemptsOf(requests, p) /\ AttemptsOn(p)' = AttemptsOf(requests', p)
BY DEF AttemptsOn, AttemptsOf, Attempt, On, Working, Target, Nobody

\* A transition of p's breaker is seen by the attempts on p, and by no others.
LEMMA AttemptsSeen ==
    ASSUME NEW reqs, reqs \in [Requests -> Request], NEW p, NEW from, NEW to
    PROVE  /\ AttemptsOf(Seen(reqs, p, from, to), p) = SeenBy(AttemptsOf(reqs, p), from, to)
           /\ \A p1 : p1 # p => AttemptsOf(Seen(reqs, p, from, to), p1) = AttemptsOf(reqs, p1)
<1> DEFINE seen == Seen(reqs, p, from, to)
<1>1. ASSUME NEW r \in Requests
      PROVE  /\ to.state = from.state => Attempt(seen[r], p) = Attempt(reqs[r], p)
             /\ to.state # from.state =>
                   Attempt(seen[r], p) = Stale(Attempt(reqs[r], p))
             /\ \A p1 : p1 # p => Attempt(seen[r], p1) = Attempt(reqs[r], p1)
  <2>1. PICK q \in Request : q = reqs[r]
    OBVIOUS
  <2>2. seen[r] = IF to.state # from.state /\ On(q, p) THEN [q EXCEPT !.fresh = FALSE] ELSE q
    BY <2>1 DEF Seen, On
  <2>3. CASE to.state # from.state /\ On(q, p)
    <3>1. PICK q1 \in Request : q1 = seen[r] /\ q1 = [q EXCEPT !.fresh = FALSE]
      BY <2>2, <2>3 DEF Request
    <3>2. /\ q1.pc = q.pc /\ q1.route = q.route /\ q1.i = q.i
          /\ q1.probe = q.probe /\ q1.held = q.held /\ q1.fresh = FALSE
      BY <3>1 DEF Request
    <3>3. \A p1 : On(q1, p1) <=> On(q, p1)
      BY <3>2 DEF On
    <3>4. Attempt(q1, p) = Stale(Attempt(q, p))
      BY <2>3, <3>2, <3>3 DEF Attempt, Stale
    <3>5. \A p1 : p1 # p => ~ On(q, p1)
      BY <2>3 DEF On
    <3>6. \A p1 : p1 # p => Attempt(q1, p1) = Attempt(q, p1)
      BY <3>3, <3>5 DEF Attempt
    <3> QED BY <2>1, <2>3, <3>1, <3>4, <3>6
  <2>4. CASE to.state = from.state
    BY <2>1, <2>2, <2>4
  <2>5. CASE to.state # from.state /\ ~ On(q, p)
    <3>1. Attempt(q, p) = Nobody /\ seen[r] = q
      BY <2>2, <2>5 DEF Attempt
    <3>2. Nobody = Stale(Nobody)
      BY DEF Nobody, Stale
    <3> QED BY <2>1, <2>5, <3>1, <3>2
  <2> QED BY <2>3, <2>4, <2>5
<1> HIDE DEF seen
<1>2. AttemptsOf(seen, p) = SeenBy(AttemptsOf(reqs, p), from, to)
  <2>1. CASE to.state = from.state
    BY <1>1, <2>1 DEF AttemptsOf, SeenBy
  <2>2. CASE to.state # from.state
    <3>1. SeenBy(AttemptsOf(reqs, p), from, to) = [r \in Requests |-> Stale(Attempt(reqs[r], p))]
      BY <2>2 DEF AttemptsOf, SeenBy
    <3> QED BY <1>1, <2>2, <3>1 DEF AttemptsOf
  <2> QED BY <2>1, <2>2
<1>3. ASSUME NEW p1, p1 # p
      PROVE  AttemptsOf(seen, p1) = AttemptsOf(reqs, p1)
  BY <1>1, <1>3 DEF AttemptsOf
<1> QED BY <1>2, <1>3 DEF seen

\* A request that moves takes its attempt with it.
LEMMA AttemptsMoved ==
    ASSUME NEW reqs, DOMAIN reqs = Requests, NEW r \in Requests, NEW q, NEW p,
           NEW reqs1, reqs1 = [reqs EXCEPT ![r] = q], NEW as, as = AttemptsOf(reqs, p),
           NEW a, a = Attempt(q, p)
    PROVE  /\ AttemptsOf(reqs1, p) = [as EXCEPT ![r] = a]
           /\ as[r] = a => AttemptsOf(reqs1, p) = as
<1>1. reqs1[r] = q /\ \A s \in Requests : s # r => reqs1[s] = reqs[s]
  OBVIOUS
<1>2. AttemptsOf(reqs1, p) = [as EXCEPT ![r] = a]
  BY <1>1 DEF AttemptsOf
<1>3. as[r] = a => AttemptsOf(reqs1, p) = as
  BY <1>1 DEF AttemptsOf
<1> QED BY <1>2, <1>3

\* BreakerCalls' breaker for p has the methods of this one.
LEMMA SameMethods ==
    ASSUME NEW p \in Providers, NEW b
    PROVE  /\ Protocol(p)!Grants(b) = Grants(b)
           /\ Protocol(p)!AfterGrant(b) = AfterGrant(b)
           /\ Protocol(p)!RecordSuccess(b) = RecordSuccess(b)
           /\ Protocol(p)!RecordFailure(b) = RecordFailure(b)
           /\ Protocol(p)!Elapse(b) = Elapse(b)
<1> USE DEF Protocol!Closed, Closed, Protocol!Open, Open, Protocol!HalfOpen, HalfOpen,
            Protocol!Remember, Remember
<1>1. Protocol(p)!Grants(b) = Grants(b)
  BY DEF Protocol!Grants, Grants, Protocol!Due, Due
<1>2. Protocol(p)!AfterGrant(b) = AfterGrant(b)
  BY DEF Protocol!AfterGrant, AfterGrant, Protocol!TakeSlot, TakeSlot,
         Protocol!ToHalfOpen, ToHalfOpen
<1>3. Protocol(p)!RecordSuccess(b) = RecordSuccess(b)
  BY DEF Protocol!RecordSuccess, RecordSuccess, Protocol!ToClosed, ToClosed
<1>4. Protocol(p)!RecordFailure(b) = RecordFailure(b)
  BY DEF Protocol!RecordFailure, RecordFailure, Protocol!ToOpen, ToOpen,
         Protocol!TooManyFailures, TooManyFailures, Protocol!Failures, Failures, Protocol!Cardinality,
         Cardinality
<1>5. Protocol(p)!Elapse(b) = Elapse(b)
  BY DEF Protocol!Elapse, Elapse
<1> QED BY <1>1, <1>2, <1>3, <1>4, <1>5

\* What an attempt on one provider may be, and that it always is one.
Standing ==
    [phase : {"none", "granted", "calling"}, probe : BOOLEAN, fresh : BOOLEAN, held : Nat]

LEMMA AttemptTypes ==
    ASSUME NEW reqs \in [Requests -> Request], NEW p
    PROVE  AttemptsOf(reqs, p) \in [Requests -> Standing]
<1>1. ASSUME NEW q \in Request
      PROVE  Attempt(q, p) \in Standing
  <2>1. q.probe \in BOOLEAN /\ q.fresh \in BOOLEAN /\ q.held \in Nat
    BY ConstantTypes DEF Request
  <2> QED BY <2>1 DEF Attempt, Standing, Nobody
<1> QED BY <1>1 DEF AttemptsOf

\* BreakerCalls' bookkeeping on attempts is the one above.
LEMMA SameNotes ==
    ASSUME NEW p \in Providers, NEW as \in [Requests -> Standing], NEW from, NEW to
    PROVE  /\ Protocol(p)!Seen(as, from, to) = SeenBy(as, from, to)
           /\ SeenBy(as, from, to) \in [Requests -> Standing]
<1>1. ASSUME NEW r \in Requests
      PROVE  /\ [as[r] EXCEPT !.fresh = FALSE] = Stale(as[r])
             /\ Stale(as[r]) \in Standing
  <2>1. PICK a \in Standing : a = as[r]
    OBVIOUS
  <2>2. PICK b \in Standing : b = Stale(a)
    BY DEF Stale, Standing
  <2>3. b.phase = a.phase /\ b.probe = a.probe /\ b.fresh = FALSE /\ b.held = a.held
    BY <2>2 DEF Stale
  <2>4. b = [a EXCEPT !.fresh = FALSE]
    BY <2>3 DEF Standing
  <2> QED BY <2>1, <2>2, <2>4
<1>2. [r \in Requests |-> [as[r] EXCEPT !.fresh = FALSE]] = [r \in Requests |-> Stale(as[r])]
  BY <1>1
<1>3. [r \in Requests |-> Stale(as[r])] \in [Requests -> Standing]
  BY <1>1
<1> QED BY <1>2, <1>3 DEF Protocol!Seen, SeenBy

\* An attempt that allow() has just admitted.
Fresh(from, phase) ==
    [phase |-> phase, probe |-> from.state # Closed, fresh |-> TRUE, held |-> 0]

LEMMA SameGrants ==
    ASSUME NEW p \in Providers, NEW from, NEW phase
    PROVE  /\ Protocol(p)!NoAttempt = Nobody
           /\ Protocol(p)!Granted(from, phase) = Fresh(from, phase)
<1>1. Protocol(p)!NoAttempt = Nobody
  BY DEF Protocol!NoAttempt, Nobody
<1>2. Protocol(p)!Granted(from, phase) = Fresh(from, phase)
  BY DEF Protocol!Granted, Protocol!Closed, Closed, Fresh
<1> QED BY <1>1, <1>2

-----------------------------------------------------------------------------
\* What a step of a request is to the provider p: it leaves p, or asks for it,
\* its previous outcome there having made of p's breaker, attempts and history
\* b, as and h.

Leaves(r, p, b, as, h) ==
    /\ breakers'[p] = b /\ history'[p] = h
    /\ AttemptsOf(requests', p) = [as EXCEPT ![r] = Nobody]

Asks(r, p, b, as, h) ==
    /\ Grants(b)
    /\ breakers'[p] = AfterGrant(b)
    /\ history'[p] = Protocol(p)!NoteTransition(h, b, AfterGrant(b))
    /\ \E phase \in {"granted", "calling"} :
          AttemptsOf(requests', p) = [SeenBy(as, b, AfterGrant(b)) EXCEPT ![r] = Fresh(b, phase)]

\* A request that is not under way is nobody's attempt.
LEMMA EndedIsNobody ==
    ASSUME NEW p
    PROVE  /\ \A q : q.pc \notin Active => Attempt(q, p) = Nobody
           /\ \A outcome \in Resting, err \in LastError : Attempt(Ended(outcome, err), p) = Nobody
<1>1. \A q : q.pc \notin Active => Attempt(q, p) = Nobody
  BY DEF Attempt, On
<1> QED BY <1>1, EndedIsSound

\* Continue leaves every provider, or asks for one and leaves the others.
LEMMA ContinueMapped ==
    ASSUME NEW brks, NEW reqs, NEW hist, Good(brks, reqs, hist),
           NEW r \in Requests, NEW q \in Request, q.route \in Routes,
           NEW j \in 1 .. Len(q.route) + 1, Continue(r, q, j, brks, reqs, hist)
    PROVE  \/ \A p \in Providers : Leaves(r, p, brks[p], AttemptsOf(reqs, p), hist[p])
           \/ \E p1 \in Providers :
                 /\ Asks(r, p1, brks[p1], AttemptsOf(reqs, p1), hist[p1])
                 /\ \A p \in Providers : p # p1 =>
                       Leaves(r, p, brks[p], AttemptsOf(reqs, p), hist[p])
<1>1. /\ brks \in [Providers -> Breaker] /\ hist \in [Providers -> History]
      /\ reqs \in [Requests -> Request]
  BY DEF Good
<1>2. ASSUME NEW err \in LastError, GivesUp(r, q, j, err, brks, reqs, hist), NEW p \in Providers
      PROVE  Leaves(r, p, brks[p], AttemptsOf(reqs, p), hist[p])
  <2>1. Attempt(Ended("exhausted", err), p) = Nobody
    BY EndedIsNobody DEF Resting
  <2>2. /\ breakers' = brks /\ history' = hist
        /\ requests' = [reqs EXCEPT ![r] = Ended("exhausted", err)]
    BY <1>2 DEF GivesUp
  <2>3. AttemptsOf(requests', p) = [AttemptsOf(reqs, p) EXCEPT ![r] = Nobody]
    <3>1. \A s \in Requests : requests'[s] = IF s = r THEN Ended("exhausted", err) ELSE reqs[s]
      BY <1>1, <2>2
    <3>2. \A s \in Requests : Attempt(requests'[s], p) = IF s = r THEN Nobody ELSE Attempt(reqs[s], p)
      BY <2>1, <3>1
    <3> QED BY <3>2 DEF AttemptsOf
  <2> QED BY <2>2, <2>3 DEF Leaves
<1>3. ASSUME NEW k \in 1 .. Len(q.route), NEW err \in LastError, NEW delay \in 0 .. MaxDelay,
             Tries(r, q, k, err, delay, brks, reqs, hist)
      PROVE  \E p1 \in Providers :
                /\ Asks(r, p1, brks[p1], AttemptsOf(reqs, p1), hist[p1])
                /\ \A p \in Providers : p # p1 =>
                      Leaves(r, p, brks[p], AttemptsOf(reqs, p), hist[p])
  <2> DEFINE p1 == q.route[k]
             after == AfterGrant(brks[p1])
             seen == Seen(reqs, p1, brks[p1], after)
             sent == Sent(q, k, err, delay, brks[p1].state # Closed)
             phase == IF delay = 0 THEN "calling" ELSE "granted"
  <2>1. p1 \in Providers
    BY Targets
  <2>2. /\ Grants(brks[p1]) /\ ~ PastDeadline(q)
        /\ breakers' = [brks EXCEPT ![p1] = after]
        /\ history' = [hist EXCEPT ![p1] = Protocol(p1)!NoteTransition(hist[p1], brks[p1], after)]
        /\ requests' = [seen EXCEPT ![r] = sent]
    BY <1>3 DEF Tries
  <2>3. /\ sent.pc = (IF delay = 0 THEN "calling" ELSE "backoff") /\ sent.pc \in Active
        /\ sent.route[sent.i] = p1 /\ sent.held = 0 /\ sent.fresh = TRUE
        /\ sent.probe = (brks[p1].state # Closed)
    BY DEF Sent, Request, Active
  <2>4. DOMAIN seen = Requests /\ seen = [s \in Requests |-> seen[s]]
    BY DEF Seen
  <2>5. Attempt(sent, p1) = Fresh(brks[p1], phase)
    <3> HIDE DEF sent, p1
    <3> QED BY <2>3 DEF Attempt, On, Fresh
  <2>6. \A p : p # p1 => Attempt(sent, p) = Nobody
    <3> HIDE DEF sent, p1
    <3> QED BY <2>3 DEF Attempt, On
  <2>7. /\ AttemptsOf(seen, p1) = SeenBy(AttemptsOf(reqs, p1), brks[p1], after)
        /\ \A p : p # p1 => AttemptsOf(seen, p) = AttemptsOf(reqs, p)
    <3> HIDE DEF p1, after
    <3> QED BY <1>1, AttemptsSeen
  <2> HIDE DEF p1, after, seen, sent
  <2>8. ASSUME NEW p
        PROVE  AttemptsOf(requests', p) = [AttemptsOf(seen, p) EXCEPT ![r] = Attempt(sent, p)]
    <3> DEFINE as == AttemptsOf(seen, p)
               a == Attempt(sent, p)
    <3> HIDE DEF as, a
    <3>1. as = AttemptsOf(seen, p) /\ a = Attempt(sent, p)
      BY DEF as, a
    <3>2. AttemptsOf(requests', p) = [as EXCEPT ![r] = a]
      BY <2>2, <2>4, <3>1, AttemptsMoved
    <3> QED BY <3>1, <3>2
  <2>9. Asks(r, p1, brks[p1], AttemptsOf(reqs, p1), hist[p1])
    <3>1. phase \in {"granted", "calling"}
      OBVIOUS
    <3>2. AttemptsOf(requests', p1) =
             [SeenBy(AttemptsOf(reqs, p1), brks[p1], after) EXCEPT ![r] = Fresh(brks[p1], phase)]
      BY <2>5, <2>7, <2>8
    <3>3. /\ breakers'[p1] = after
          /\ history'[p1] = Protocol(p1)!NoteTransition(hist[p1], brks[p1], after)
      BY <1>1, <2>1, <2>2
    <3> HIDE DEF phase
    <3> QED BY <2>2, <3>1, <3>2, <3>3 DEF Asks, after
  <2>10. ASSUME NEW p \in Providers, p # p1
         PROVE  Leaves(r, p, brks[p], AttemptsOf(reqs, p), hist[p])
    <3>1. breakers'[p] = brks[p] /\ history'[p] = hist[p]
      BY <1>1, <2>2, <2>10
    <3>2. AttemptsOf(requests', p) = [AttemptsOf(reqs, p) EXCEPT ![r] = Nobody]
      BY <2>6, <2>7, <2>8, <2>10
    <3> QED BY <3>1, <3>2 DEF Leaves
  <2> QED BY <2>1, <2>9, <2>10
<1> QED BY <1>1, <1>2, <1>3, Onward
-----------------------------------------------------------------------------
\* What that is to the protocol on p.

\* Breaker and attempts of p as BreakerCalls has them.
LEMMA Standings ==
    ASSUME IInv, NEW p \in Providers
    PROVE  /\ AttemptsOf(requests, p) \in [Requests -> Standing]
           /\ AttemptsOn(p) = AttemptsOf(requests, p)
           /\ AttemptsOn(p)' = AttemptsOf(requests', p)
           /\ \A from, to :
                 /\ SeenBy(AttemptsOf(requests, p), from, to) \in [Requests -> Standing]
                 /\ Protocol(p)!Seen(AttemptsOf(requests, p), from, to) =
                       SeenBy(AttemptsOf(requests, p), from, to)
<1>1. AttemptsOf(requests, p) \in [Requests -> Standing]
  BY AttemptTypes DEF IInv, Good
<1> QED BY <1>1, Mapped, SameNotes

\* Who was not on p and leaves it changes nothing there.
LEMMA LeavesIdle ==
    ASSUME IInv, NEW p \in Providers, NEW r \in Requests, Attempt(requests[r], p) = Nobody,
           Leaves(r, p, breakers[p], AttemptsOf(requests, p), history[p])
    PROVE  UNCHANGED Protocol(p)!vars
<1> DEFINE as == AttemptsOf(requests, p)
<1>1. as[r] = Nobody /\ as \in [Requests -> Standing]
  BY Standings DEF AttemptsOf
<1>2. AttemptsOf(requests', p) = as
  <2>1. AttemptsOf(requests', p) = [as EXCEPT ![r] = Nobody]
    BY DEF Leaves
  <2> HIDE DEF as
  <2> QED BY <1>1, <2>1
<1> QED BY <1>2, Standings DEF Leaves, Protocol!vars

\* Who was not on p and asks for it is an Ask.
LEMMA AsksIsAsk ==
    ASSUME IInv, NEW p \in Providers, NEW r \in Requests, Attempt(requests[r], p) = Nobody,
           Asks(r, p, breakers[p], AttemptsOf(requests, p), history[p])
    PROVE  Protocol(p)!Next
<1> DEFINE as == AttemptsOf(requests, p)
           b == breakers[p]
           after == AfterGrant(b)
<1>1. as[r].phase = "none" /\ as \in [Requests -> Standing]
  BY Standings DEF AttemptsOf, Nobody
<1>2. PICK phase \in {"granted", "calling"} :
         AttemptsOf(requests', p) = [SeenBy(as, b, after) EXCEPT ![r] = Fresh(b, phase)]
  BY DEF Asks
<1>3. /\ Grants(b) /\ breakers'[p] = after
      /\ history'[p] = Protocol(p)!NoteTransition(history[p], b, after)
  BY DEF Asks
<1>4. Protocol(p)!Grants(b) = Grants(b) /\ Protocol(p)!AfterGrant(b) = after
  BY SameMethods
<1>5. Protocol(p)!Seen(as, b, after) = SeenBy(as, b, after)
  BY Standings
<1>6. Protocol(p)!Granted(b, phase) = Fresh(b, phase)
  BY SameGrants
<1>7. AttemptsOn(p) = as /\ AttemptsOn(p)' = AttemptsOf(requests', p)
  BY Standings
<1>8. Protocol(p)!Ask(r)
  <2>1. breakers[p] = b /\ breakers'[p] = after
    BY <1>3
  <2> HIDE DEF as, b, after
  <2> QED BY <1>1, <1>2, <1>3, <1>4, <1>5, <1>6, <1>7, <2>1 DEF Protocol!Ask
<1> QED BY <1>8 DEF Protocol!Next

\* A request under way is an attempt on its target and on no other provider.
LEMMA UnderWay ==
    ASSUME NEW r \in Requests, Working(r)
    PROVE  /\ Attempt(requests[r], Target(r)).phase =
                 IF requests[r].pc = "backoff" THEN "granted" ELSE "calling"
           /\ \A p : p # Target(r) => Attempt(requests[r], p) = Nobody
BY DEF Working, Target, Attempt, On

\* Who leaves p on a failure there is a Fail.
LEMMA LeavesIsFail ==
    ASSUME IInv, NEW p \in Providers, NEW r \in Requests,
           requests[r].pc = "calling", Target(r) = p,
           NEW failed, failed = RecordFailure(breakers[p]),
           NEW h, h = Protocol(p)!NoteTransition(
                         Protocol(p)!NoteFailure(history[p]), breakers[p], failed),
           Leaves(r, p, failed, SeenBy(AttemptsOf(requests, p), breakers[p], failed), h)
    PROVE  Protocol(p)!Next
<1> DEFINE as == AttemptsOf(requests, p)
           b == breakers[p]
<1>1. as[r].phase = "calling" /\ as \in [Requests -> Standing]
  BY UnderWay, Standings DEF AttemptsOf, Working, Active
<1>2. /\ breakers'[p] = failed /\ history'[p] = h
      /\ AttemptsOf(requests', p) = [SeenBy(as, b, failed) EXCEPT ![r] = Nobody]
  BY DEF Leaves
<1>3. Protocol(p)!RecordFailure(b) = failed /\ Protocol(p)!NoAttempt = Nobody
  BY SameMethods, SameGrants
<1>4. Protocol(p)!Seen(as, b, failed) = SeenBy(as, b, failed)
  BY Standings
<1>5. AttemptsOn(p) = as /\ AttemptsOn(p)' = AttemptsOf(requests', p)
  BY Standings
<1>6. Protocol(p)!Fail(r)
  <2>1. breakers[p] = b
    OBVIOUS
  <2> HIDE DEF as, b
  <2> QED BY <1>1, <1>2, <1>3, <1>4, <1>5, <2>1 DEF Protocol!Fail
<1> QED BY <1>6 DEF Protocol!Next

\* Who asks for p again on a failure there is a FailAndAsk.
LEMMA AsksIsFailAndAsk ==
    ASSUME IInv, NEW p \in Providers, NEW r \in Requests,
           requests[r].pc = "calling", Target(r) = p,
           NEW failed, failed = RecordFailure(breakers[p]),
           NEW h, h = Protocol(p)!NoteTransition(
                         Protocol(p)!NoteFailure(history[p]), breakers[p], failed),
           Asks(r, p, failed, SeenBy(AttemptsOf(requests, p), breakers[p], failed), h)
    PROVE  Protocol(p)!Next
<1> DEFINE as == AttemptsOf(requests, p)
           b == breakers[p]
           as1 == SeenBy(as, b, failed)
           after == AfterGrant(failed)
<1>1. as[r].phase = "calling" /\ as \in [Requests -> Standing]
  BY UnderWay, Standings DEF AttemptsOf, Working, Active
<1>2. PICK phase \in {"granted", "calling"} :
         AttemptsOf(requests', p) = [SeenBy(as1, failed, after) EXCEPT ![r] = Fresh(failed, phase)]
  BY DEF Asks
<1>3. /\ Grants(failed) /\ breakers'[p] = after
      /\ history'[p] = Protocol(p)!NoteTransition(h, failed, after)
  BY DEF Asks
<1>4. /\ Protocol(p)!Grants(failed) = Grants(failed) /\ Protocol(p)!AfterGrant(failed) = after
      /\ Protocol(p)!RecordFailure(b) = failed
  BY SameMethods
<1>5. Protocol(p)!Seen(as, b, failed) = as1 /\ as1 \in [Requests -> Standing]
  BY Standings
<1>6. Protocol(p)!Seen(as1, failed, after) = SeenBy(as1, failed, after)
  <2> HIDE DEF as, as1, b, after
  <2> QED BY <1>5, SameNotes
<1>7. Protocol(p)!Granted(failed, phase) = Fresh(failed, phase)
  BY SameGrants
<1>8. AttemptsOn(p) = as /\ AttemptsOn(p)' = AttemptsOf(requests', p)
  BY Standings
<1>9. Protocol(p)!FailAndAsk(r)
  <2>1. breakers[p] = b
    OBVIOUS
  <2> HIDE DEF as, as1, b, after
  <2>2. /\ AttemptsOn(p)[r].phase = "calling" /\ Protocol(p)!RecordFailure(breakers[p]) = failed
        /\ Protocol(p)!Grants(failed) /\ breakers'[p] = Protocol(p)!AfterGrant(failed)
    BY <1>1, <1>3, <1>4, <1>8, <2>1
  <2>3. AttemptsOn(p)' =
           [Protocol(p)!Seen(Protocol(p)!Seen(AttemptsOn(p), breakers[p], failed), failed, breakers'[p])
               EXCEPT ![r] = Protocol(p)!Granted(failed, phase)]
    BY <1>2, <1>3, <1>5, <1>6, <1>7, <1>8, <2>1
  <2>4. history'[p] = Protocol(p)!NoteTransition(
                         Protocol(p)!NoteTransition(
                            Protocol(p)!NoteFailure(history[p]), breakers[p], failed),
                         failed, breakers'[p])
    BY <1>3
  <2> QED BY <2>2, <2>3, <2>4 DEF Protocol!FailAndAsk
<1> QED BY <1>9 DEF Protocol!Next

\* An answer that ends the request is a Succeed.
LEMMA FinishIsSucceed ==
    ASSUME IInv, NEW r \in Requests, requests[r].pc = "calling", NEW outcome \in Resting,
           Finish(r, outcome, RecordSuccess(breakers[Target(r)])), NEW p \in Providers
    PROVE  Protocol(p)!Next \/ UNCHANGED Protocol(p)!vars
<1> DEFINE p1 == Target(r)
           b == breakers[p1]
           b1 == RecordSuccess(b)
           seen == Seen(requests, p1, b, b1)
           q == Ended(outcome, "none")
           note == Protocol(p1)!NoteTransition(history[p1], b, b1)
<1>1. /\ requests \in [Requests -> Request] /\ breakers \in [Providers -> Breaker]
      /\ history \in [Providers -> History] /\ p1 \in Providers
  BY Calling DEF IInv, Good
<1>2. /\ breakers' = [breakers EXCEPT ![p1] = b1]
      /\ requests' = [seen EXCEPT ![r] = q]
      /\ history' = [history EXCEPT ![p1] = note]
  BY <1>1 DEF Finish
<1>3. /\ AttemptsOf(seen, p1) = SeenBy(AttemptsOf(requests, p1), b, b1)
      /\ \A p2 : p2 # p1 => AttemptsOf(seen, p2) = AttemptsOf(requests, p2)
  <2> HIDE DEF p1, b, b1
  <2> QED BY <1>1, AttemptsSeen
<1>4. Attempt(q, p) = Nobody
  BY EndedIsNobody DEF LastError
<1>5. AttemptsOf(requests', p) = [AttemptsOf(seen, p) EXCEPT ![r] = Nobody]
  <2>1. DOMAIN seen = Requests
    BY DEF Seen
  <2> HIDE DEF seen, q
  <2>2. \A s \in Requests : requests'[s] = IF s = r THEN q ELSE seen[s]
    BY <1>2, <2>1
  <2>3. \A s \in Requests : Attempt(requests'[s], p) = IF s = r THEN Nobody ELSE Attempt(seen[s], p)
    BY <1>4, <2>2
  <2> QED BY <2>3 DEF AttemptsOf
<1>6. Working(r)
  BY DEF Working, Active
<1>7. CASE p # p1
  <2>1. Attempt(requests[r], p) = Nobody
    BY <1>6, <1>7, UnderWay
  <2>2. Leaves(r, p, breakers[p], AttemptsOf(requests, p), history[p])
    <3> HIDE DEF p1, b, b1, seen, q, note
    <3> QED BY <1>1, <1>2, <1>3, <1>5, <1>7 DEF Leaves
  <2> QED BY <2>1, <2>2, LeavesIdle
<1>8. CASE p = p1
  <2> DEFINE as == AttemptsOf(requests, p)
  <2>1. as[r].phase = "calling" /\ as \in [Requests -> Standing]
    BY <1>6, <1>8, UnderWay, Standings DEF AttemptsOf
  <2>2. /\ breakers[p] = b /\ breakers'[p] = b1
        /\ history'[p] = Protocol(p)!NoteTransition(history[p], b, b1)
    BY <1>1, <1>2, <1>8
  <2>3. Protocol(p)!RecordSuccess(b) = b1 /\ Protocol(p)!NoAttempt = Nobody
    BY SameMethods, SameGrants
  <2>4. Protocol(p)!Seen(as, b, b1) = SeenBy(as, b, b1)
    BY Standings
  <2>5. AttemptsOn(p) = as /\ AttemptsOn(p)' = AttemptsOf(requests', p)
    BY Standings
  <2>6. AttemptsOf(requests', p) = [SeenBy(as, b, b1) EXCEPT ![r] = Nobody]
    BY <1>3, <1>5, <1>8
  <2>7. Protocol(p)!Succeed(r)
    <3> HIDE DEF as, p1, b, b1, seen, q, note
    <3> QED BY <2>1, <2>2, <2>3, <2>4, <2>5, <2>6 DEF Protocol!Succeed
  <2> QED BY <2>7 DEF Protocol!Next
<1> QED BY <1>7, <1>8

\* The end of a sleep is a Send, and a call that escapes an Escape.
LEMMA WakeIsSend ==
    ASSUME IInv, NEW r \in Requests, Wake(r), NEW p \in Providers
    PROVE  Protocol(p)!Next \/ UNCHANGED Protocol(p)!vars
<1> DEFINE as == AttemptsOf(requests, p)
<1>1. /\ requests \in [Requests -> Request] /\ Working(r) /\ requests[r].pc = "backoff"
      /\ breakers' = breakers /\ history' = history
  BY DEF IInv, Good, Wake, Working, Active
<1>2. PICK q \in Request : q = requests[r]
  BY <1>1
<1>3. PICK q1 : q1 = [q EXCEPT !.pc = "calling", !.left = LongestCall]
  OBVIOUS
<1>4. \A s \in Requests : requests'[s] = IF s = r THEN q1 ELSE requests[s]
  BY <1>1, <1>2, <1>3 DEF Wake
<1>5. /\ q1.pc = "calling" /\ q1.route = q.route /\ q1.i = q.i
      /\ q1.probe = q.probe /\ q1.fresh = q.fresh /\ q1.held = q.held
  BY <1>3 DEF Request
<1>6. AttemptsOn(p) = as /\ AttemptsOn(p)' = AttemptsOf(requests', p)
      /\ as \in [Requests -> Standing]
  BY Standings
<1>7. CASE Target(r) # p
  <2>1. Attempt(q1, p) = Nobody /\ Attempt(q, p) = Nobody
    BY <1>2, <1>5, <1>7 DEF Attempt, On, Target
  <2>2. \A s \in Requests : Attempt(requests'[s], p) = Attempt(requests[s], p)
    BY <1>2, <1>4, <2>1
  <2>3. AttemptsOf(requests', p) = as
    BY <2>2 DEF AttemptsOf
  <2> QED BY <1>1, <1>6, <2>3 DEF Protocol!vars
<1>8. CASE Target(r) = p
  <2>1. /\ Attempt(q, p) = [phase |-> "granted", probe |-> q.probe, fresh |-> q.fresh, held |-> q.held]
        /\ Attempt(q1, p) = [phase |-> "calling", probe |-> q.probe, fresh |-> q.fresh, held |-> q.held]
    BY <1>1, <1>2, <1>5, <1>8 DEF Attempt, On, Target, Active
  <2>2. PICK a \in Standing : a = as[r] /\ a = Attempt(q, p)
    BY <1>2, <1>6 DEF AttemptsOf
  <2>3. PICK a1 \in Standing : a1 = Attempt(q1, p)
    BY <2>1, <2>2 DEF Standing
  <2>4. a.phase = "granted" /\ a1.phase = "calling" /\ a1.probe = a.probe /\ a1.fresh = a.fresh
        /\ a1.held = a.held
    BY <2>1, <2>2, <2>3
  <2>5. a1 = [a EXCEPT !.phase = "calling"]
    BY <2>4 DEF Standing
  <2>6. \A s \in Requests : Attempt(requests'[s], p) = IF s = r THEN a1 ELSE Attempt(requests[s], p)
    BY <1>2, <1>4, <2>3
  <2>7. AttemptsOf(requests', p) = [as EXCEPT ![r] = a1]
    BY <2>6 DEF AttemptsOf
  <2>8. AttemptsOf(requests', p) = [as EXCEPT ![r].phase = "calling"]
    BY <1>6, <2>2, <2>5, <2>7
  <2>9. Protocol(p)!Send(r)
    <3> HIDE DEF as
    <3> QED BY <1>1, <1>6, <2>2, <2>4, <2>8 DEF Protocol!Send
  <2> QED BY <2>9 DEF Protocol!Next
<1> QED BY <1>7, <1>8

LEMMA EscapeIsEscape ==
    ASSUME IInv, NEW r \in Requests, Escape(r), NEW p \in Providers
    PROVE  Protocol(p)!Next \/ UNCHANGED Protocol(p)!vars
<1> DEFINE as == AttemptsOf(requests, p)
           q == Ended("escaped", "none")
<1>1. /\ requests \in [Requests -> Request] /\ Working(r) /\ requests[r].pc = "calling" /\ MayEscape
      /\ breakers' = breakers /\ history' = history
      /\ requests' = [requests EXCEPT ![r] = q]
  BY DEF IInv, Good, Escape, Working, Active
<1>2. Attempt(q, p) = Nobody
  BY EndedIsNobody DEF LastError, Resting
<1>3. AttemptsOf(requests', p) = [as EXCEPT ![r] = Nobody]
  <2> HIDE DEF q
  <2>1. \A s \in Requests : requests'[s] = IF s = r THEN q ELSE requests[s]
    BY <1>1
  <2>2. \A s \in Requests : Attempt(requests'[s], p) = IF s = r THEN Nobody ELSE Attempt(requests[s], p)
    BY <1>2, <2>1
  <2> QED BY <2>2 DEF AttemptsOf
<1>4. CASE Target(r) # p
  <2>1. Attempt(requests[r], p) = Nobody
    BY <1>1, <1>4, UnderWay
  <2>2. Leaves(r, p, breakers[p], as, history[p])
    <3> HIDE DEF as
    <3> QED BY <1>1, <1>3 DEF Leaves
  <2> QED BY <2>1, <2>2, LeavesIdle
<1>5. CASE Target(r) = p
  <2>1. as[r].phase = "calling"
    BY <1>1, <1>5, UnderWay DEF AttemptsOf
  <2>2. AttemptsOn(p) = as /\ AttemptsOn(p)' = AttemptsOf(requests', p)
    BY Standings
  <2>3. Protocol(p)!NoAttempt = Nobody
    BY SameGrants
  <2>4. Protocol(p)!Escape(r)
    <3> HIDE DEF as
    <3> QED BY <1>1, <1>3, <2>1, <2>2, <2>3 DEF Protocol!Escape
  <2> QED BY <2>4 DEF Protocol!Next
<1> QED BY <1>4, <1>5

\* A tick is a Tick for every provider: none of its attempts is held too long.
LEMMA TickIsTick ==
    ASSUME IInv, Tick, NEW p \in Providers
    PROVE  Protocol(p)!Next
<1> DEFINE as == AttemptsOf(requests, p)
<1>1. requests \in [Requests -> Request]
  BY DEF IInv, Good
<1>2. AttemptsOn(p) = as /\ AttemptsOn(p)' = AttemptsOf(requests', p)
      /\ as \in [Requests -> Standing]
  BY Standings
<1>3. ASSUME NEW r \in Requests
      PROVE  /\ as[r].phase # "none" => as[r].held < MaxDelay + LongestCall
             /\ Attempt(requests'[r], p) =
                   IF as[r].phase = "none" THEN as[r] ELSE [as[r] EXCEPT !.held = @ + 1]
  <2>1. PICK q \in Request : q = requests[r] /\ Sound(q)
    BY DEF IInv, Good
  <2>2. as[r] = Attempt(q, p)
    BY <2>1 DEF AttemptsOf
  <2>3. CASE ~ On(q, p)
    <3>1. as[r] = Nobody /\ Nobody.phase = "none"
      BY <2>2, <2>3 DEF Attempt, Nobody
    <3>2. Attempt(requests'[r], p) = Nobody
      <4>1. CASE ~ Working(r)
        BY <2>1, <2>3, <4>1 DEF Tick, Attempt
      <4>2. CASE Working(r)
        <5>1. requests'[r] = [q EXCEPT !.elapsed = @ + 1, !.left = @ - 1, !.held = @ + 1]
          BY <2>1, <4>2 DEF Tick
        <5>2. requests'[r].pc = q.pc /\ requests'[r].route = q.route /\ requests'[r].i = q.i
          BY <5>1 DEF Request
        <5> QED BY <2>3, <5>2 DEF Attempt, On
      <4> QED BY <4>1, <4>2
    <3> QED BY <3>1, <3>2
  <2>4. CASE On(q, p)
    <3>1. Working(r)
      BY <2>1, <2>4 DEF On, Working
    <3>2. q.left > 0 /\ q.left \in Nat /\ q.held \in Nat
      <4>1. requests[r].left > 0
        BY <3>1 DEF Tick
      <4> QED BY <2>1, <4>1, ConstantTypes DEF Request
    <3>3. q.held < MaxDelay + LongestCall
      <4>1. CASE q.pc = "backoff"
        BY <2>1, <2>4, <3>2, <4>1, ConstantTypes DEF Sound, On
      <4>2. CASE q.pc # "backoff"
        BY <2>1, <2>4, <3>2, <4>2, ConstantTypes DEF Sound, On
      <4> QED BY <4>1, <4>2
    <3>4. PICK q1 : q1 = requests'[r] /\ q1 = [q EXCEPT !.elapsed = @ + 1, !.left = @ - 1, !.held = @ + 1]
      BY <2>1, <3>1 DEF Tick
    <3>5. /\ q1.pc = q.pc /\ q1.route = q.route /\ q1.i = q.i
          /\ q1.probe = q.probe /\ q1.fresh = q.fresh /\ q1.held = q.held + 1
      BY <3>4 DEF Request
    <3>6. PICK a \in Standing : a = as[r] /\ a = Attempt(q, p)
      BY <1>2, <2>2
    <3>7. /\ a.phase = (IF q.pc = "backoff" THEN "granted" ELSE "calling") /\ a.held = q.held
          /\ a.probe = q.probe /\ a.fresh = q.fresh
      BY <2>4, <3>6 DEF Attempt
    <3>8. On(q1, p)
      BY <2>4, <3>5 DEF On
    <3>9. /\ Attempt(q1, p).phase = a.phase /\ Attempt(q1, p).held = a.held + 1
          /\ Attempt(q1, p).probe = a.probe /\ Attempt(q1, p).fresh = a.fresh
      BY <3>5, <3>7, <3>8 DEF Attempt
    <3>10. PICK a1 \in Standing : a1 = Attempt(q1, p)
      <4>1. q1.probe \in BOOLEAN /\ q1.fresh \in BOOLEAN /\ q1.held \in Nat
        BY <3>2, <3>5 DEF Request
      <4> QED BY <3>8, <4>1 DEF Attempt, Standing
    <3>11. a1 = [a EXCEPT !.held = @ + 1]
      BY <3>9, <3>10 DEF Standing
    <3> QED BY <3>3, <3>4, <3>6, <3>7, <3>10, <3>11
  <2> QED BY <2>3, <2>4
<1>4. AttemptsOf(requests', p) =
         [r \in Requests |-> IF as[r].phase = "none" THEN as[r] ELSE [as[r] EXCEPT !.held = @ + 1]]
  <2> HIDE DEF as
  <2> QED BY <1>3 DEF AttemptsOf
<1>5. breakers'[p] = Elapse(breakers[p]) /\ Protocol(p)!Elapse(breakers[p]) = Elapse(breakers[p])
  BY SameMethods DEF Tick
<1>6. history'[p] = [history[p] EXCEPT !.cooled = IF @ < ResetTimeout THEN @ + 1 ELSE @]
  BY DEF Tick
<1>7. Protocol(p)!Tick
  <2> HIDE DEF as
  <2>1. \A r \in Protocol(p)!Outstanding : as[r].held < MaxDelay + LongestCall
    BY <1>2, <1>3 DEF Protocol!Outstanding
  <2> QED BY <1>2, <1>4, <1>5, <1>6, <2>1 DEF Protocol!Tick
<1> QED BY <1>7 DEF Protocol!Next

\* On to the next target: for the provider that failed it is a Fail or a
\* FailAndAsk, for another that is asked an Ask.
LEMMA FailMapped ==
    ASSUME IInv, NEW r \in Requests, Fail(r), NEW p \in Providers
    PROVE  Protocol(p)!Next \/ UNCHANGED Protocol(p)!vars
<1> DEFINE p0 == Target(r)
           brks == [breakers EXCEPT ![p0] = Failed(r)]
           reqs == Seen(requests, p0, breakers[p0], Failed(r))
           hist == [history EXCEPT ![p0] = Afterwards(r)]
<1>1. Good(brks, reqs, hist) /\ requests[r].pc = "calling"
  BY FailedCall
<1>2. PICK q \in Request :
         /\ q.route \in Routes /\ requests[r].i + 1 \in 1 .. Len(q.route) + 1
         /\ Continue(r, q, requests[r].i + 1, brks, reqs, hist)
  BY FailedCall
<1>3. /\ breakers \in [Providers -> Breaker] /\ requests \in [Requests -> Request]
      /\ history \in [Providers -> History] /\ p0 \in Providers
  BY <1>1, Calling DEF IInv, Good
<1>4. /\ AttemptsOf(reqs, p0) = SeenBy(AttemptsOf(requests, p0), breakers[p0], Failed(r))
      /\ \A p1 : p1 # p0 => AttemptsOf(reqs, p1) = AttemptsOf(requests, p1)
  <2> HIDE DEF p0
  <2> QED BY <1>3, AttemptsSeen
<1>5. /\ brks[p0] = Failed(r) /\ hist[p0] = Afterwards(r)
      /\ \A p1 \in Providers : p1 # p0 => brks[p1] = breakers[p1] /\ hist[p1] = history[p1]
  BY <1>3
<1>6. \/ Leaves(r, p, brks[p], AttemptsOf(reqs, p), hist[p])
      \/ Asks(r, p, brks[p], AttemptsOf(reqs, p), hist[p])
  <2> HIDE DEF brks, reqs, hist
  <2> QED BY <1>1, <1>2, ContinueMapped
<1>7. CASE p # p0
  <2>1. Attempt(requests[r], p) = Nobody
    BY <1>1, <1>7, UnderWay DEF Working, Active
  <2>2. \/ Leaves(r, p, breakers[p], AttemptsOf(requests, p), history[p])
        \/ Asks(r, p, breakers[p], AttemptsOf(requests, p), history[p])
    <3> HIDE DEF brks, reqs, hist, p0
    <3> QED BY <1>4, <1>5, <1>6, <1>7
  <2> QED BY <2>1, <2>2, LeavesIdle, AsksIsAsk
<1>8. CASE p = p0
  <2>1. \/ Leaves(r, p, Failed(r), SeenBy(AttemptsOf(requests, p), breakers[p], Failed(r)), Afterwards(r))
        \/ Asks(r, p, Failed(r), SeenBy(AttemptsOf(requests, p), breakers[p], Failed(r)), Afterwards(r))
    <3> HIDE DEF brks, reqs, hist, p0
    <3> QED BY <1>4, <1>5, <1>6, <1>8
  <2>2. Failed(r) = RecordFailure(breakers[p])
    BY <1>8 DEF Failed
  <2>3. Afterwards(r) = Protocol(p)!NoteTransition(
                           Protocol(p)!NoteFailure(history[p]), breakers[p], Failed(r))
    BY <1>8 DEF Afterwards
  <2> QED BY <1>1, <1>8, <2>1, <2>2, <2>3, LeavesIsFail, AsksIsFailAndAsk
<1> QED BY <1>7, <1>8

\* A request that starts is an Ask for its first target.
LEMMA StartMapped ==
    ASSUME IInv, NEW r \in Requests, Start(r), NEW p \in Providers
    PROVE  Protocol(p)!Next \/ UNCHANGED Protocol(p)!vars
<1>1. PICK route \in Routes :
         Continue(r, [Idle EXCEPT !.route = route], 1, breakers, requests, history)
  BY DEF Start
<1>2. PICK q \in Request : q = [Idle EXCEPT !.route = route] /\ q.route = route
  BY IdleIsSound
<1>3. 1 \in 1 .. Len(q.route) + 1 /\ Continue(r, q, 1, breakers, requests, history)
  BY <1>1, <1>2, ConstantTypes
<1>4. \/ Leaves(r, p, breakers[p], AttemptsOf(requests, p), history[p])
      \/ Asks(r, p, breakers[p], AttemptsOf(requests, p), history[p])
  BY <1>2, <1>3, ContinueMapped DEF IInv
<1>5. Attempt(requests[r], p) = Nobody
  BY EndedIsNobody DEF Start, Working
<1> QED BY <1>4, <1>5, LeavesIdle, AsksIsAsk

LEMMA StepMapped ==
    IInv /\ [Next]_vars =>
        [\A p \in Providers : Protocol(p)!Next \/ UNCHANGED Protocol(p)!vars]_vars
<1> SUFFICES ASSUME IInv, [Next]_vars, ~ UNCHANGED vars, NEW p \in Providers
             PROVE  Protocol(p)!Next \/ UNCHANGED Protocol(p)!vars
  OBVIOUS
<1>1. CASE Tick
  BY <1>1, TickIsTick
<1>2. ASSUME NEW r \in Requests, Start(r)
      PROVE  Protocol(p)!Next \/ UNCHANGED Protocol(p)!vars
  BY <1>2, StartMapped
<1>3. ASSUME NEW r \in Requests, Wake(r)
      PROVE  Protocol(p)!Next \/ UNCHANGED Protocol(p)!vars
  BY <1>3, WakeIsSend
<1>4. ASSUME NEW r \in Requests, Succeed(r) \/ Reject(r)
      PROVE  Protocol(p)!Next \/ UNCHANGED Protocol(p)!vars
  BY <1>4, FinishIsSucceed DEF Succeed, Reject, Resting
<1>5. ASSUME NEW r \in Requests, Fail(r)
      PROVE  Protocol(p)!Next \/ UNCHANGED Protocol(p)!vars
  BY <1>5, FailMapped
<1>6. ASSUME NEW r \in Requests, Escape(r)
      PROVE  Protocol(p)!Next \/ UNCHANGED Protocol(p)!vars
  BY <1>6, EscapeIsEscape
<1> QED BY <1>1, <1>2, <1>3, <1>4, <1>5, <1>6 DEF Next, Answer

\* The breakers start closed with nobody on the way.
LEMMA InitMapped == Init => \A p \in Providers : Protocol(p)!Init
BY DEF Init, Protocol!Init, AttemptsOn, Protocol!NoAttempt, Working, Idle, Active, NewBreaker,
       Protocol!NewBreaker, Closed, Protocol!Closed
-----------------------------------------------------------------------------
\* Fallback.

\* With this route a healthy provider's turn comes within the deadline, however
\* long the attempts before it and the sleeps between them take.
Rescued(route) ==
    \E h \in 1 .. Len(route) :
        route[h] \in Healthy /\ (h - 1) * (MaxDelay + LongestCall) <= Deadline + MaxDelay

\* The longest that n attempts, with the sleeps between them, can take.
Longest(n) == n * (MaxDelay + LongestCall) - MaxDelay

\* Target j is not behind a healthy one.
NotPast(route, j) == \A h \in 1 .. Len(route) : route[h] \in Healthy => j <= h

\* A request under way has made as many attempts as it has passed targets, at
\* most, and is in time.
InTime(q) ==
    q.pc \in Active =>
        /\ NotPast(q.route, q.i)
        /\ 0 < q.attempts /\ q.attempts <= q.i
        /\ q.elapsed + q.left + (IF q.pc = "backoff" THEN LongestCall ELSE 0) <= Longest(q.attempts)

\* The breaker of a healthy provider never has a reason to open.
Upright(brks) == \A p \in Healthy : brks[p].state = Closed

\* The ends that no request may come to.
Unserved == {"exhausted"} \cup (IF MayEscape THEN {} ELSE {"escaped"})

Served(brks, reqs) ==
    Upright(brks) /\ \A r \in Requests : InTime(reqs[r]) /\ reqs[r].pc \notin Unserved

ServedInv == IInv /\ Served(breakers, requests)

\* More attempts take longer.
LEMMA LongestGrows ==
    /\ \A n \in Nat : Longest(n) \in Int
    /\ \A m, n \in Nat : m <= n => Longest(m) <= Longest(n)
    /\ \A n \in Nat : Longest(n + 1) = Longest(n) + MaxDelay + LongestCall
    /\ Longest(1) = LongestCall
<1> DEFINE K == MaxDelay + LongestCall
<1>1. K \in Nat /\ MaxDelay \in Nat /\ LongestCall \in Nat
  BY ConstantTypes
<1>2. Longest(1) = LongestCall
  BY <1>1 DEF Longest
<1> SUFFICES ASSUME NEW n \in Nat
             PROVE  /\ Longest(n) \in Int /\ Longest(n + 1) = Longest(n) + MaxDelay + LongestCall
                    /\ \A m \in Nat : m <= n => Longest(m) <= Longest(n)
  BY <1>2
<1> HIDE DEF K
<1>3. \A m \in Nat : m * K \in Nat
  BY <1>1
<1>4. (n + 1) * K = n * K + K
  BY <1>1
<1>5. ASSUME NEW m \in Nat, m <= n PROVE m * K <= n * K
  <2>1. PICK d \in Nat : n = m + d
    BY <1>5, n - m \in Nat /\ n = m + (n - m)
  <2>2. n * K = m * K + d * K
    BY <1>1, <2>1
  <2> QED BY <1>3, <2>2
<1> QED BY <1>1, <1>3, <1>4, <1>5 DEF Longest, K

\* Who is healthy has an adapter.
LEMMA HealthyProviders == Healthy \subseteq Providers /\ Healthy \subseteq Configured
BY ExecutorAssumption DEF ExecutorAssumption

\* A transition of a breaker is noted without touching what counts here.
LEMMA SeenInTime ==
    ASSUME NEW brks, NEW reqs \in [Requests -> Request], Served(brks, reqs),
           NEW p \in Providers, NEW b, p \in Healthy => b.state = Closed,
           brks \in [Providers -> Breaker]
    PROVE  Served([brks EXCEPT ![p] = b], Seen(reqs, p, brks[p], b))
<1> DEFINE seen == Seen(reqs, p, brks[p], b)
<1>1. ASSUME NEW r \in Requests
      PROVE  InTime(seen[r]) /\ seen[r].pc \notin Unserved
  <2>1. PICK q \in Request : q = reqs[r]
    OBVIOUS
  <2>2. seen[r] = q \/ seen[r] = [q EXCEPT !.fresh = FALSE]
    BY <2>1 DEF Seen
  <2>3. /\ seen[r].pc = q.pc /\ seen[r].route = q.route /\ seen[r].i = q.i
        /\ seen[r].attempts = q.attempts /\ seen[r].elapsed = q.elapsed /\ seen[r].left = q.left
    <3> HIDE DEF seen
    <3>1. CASE seen[r] = q
      BY <3>1
    <3>2. CASE seen[r] = [q EXCEPT !.fresh = FALSE]
      BY <3>2 DEF Request
    <3> QED BY <2>2, <3>1, <3>2
  <2>4. InTime(q) /\ q.pc \notin Unserved
    BY <2>1 DEF Served
  <2> HIDE DEF seen
  <2> QED BY <2>3, <2>4 DEF InTime
<1>2. Upright([brks EXCEPT ![p] = b])
  BY HealthyProviders DEF Upright, Served
<1> QED BY <1>1, <1>2 DEF Served

\* The breakers as they were, and one request that has moved on.
LEMMA MovedInTime ==
    ASSUME NEW brks, NEW reqs \in [Requests -> Request], Served(brks, reqs),
           NEW r \in Requests, NEW q, InTime(q), q.pc \notin Unserved
    PROVE  Served(brks, [reqs EXCEPT ![r] = q])
BY DEF Served

\* Of the targets from j on, none of which is behind a healthy one, a healthy one
\* is found at the latest.
LEMMA ContinueServes ==
    ASSUME NEW brks, NEW reqs, NEW hist, Good(brks, reqs, hist), Served(brks, reqs),
           NEW r \in Requests, NEW q \in Request, q.route \in Routes, Rescued(q.route),
           NEW j \in 1 .. Len(q.route) + 1, Continue(r, q, j, brks, reqs, hist),
           NotPast(q.route, j), q.attempts < j,
           IF q.attempts = 0 THEN q.elapsed = 0 ELSE q.elapsed <= Longest(q.attempts)
    PROVE  Served(breakers', requests')
<1>1. PICK h \in 1 .. Len(q.route) :
         q.route[h] \in Healthy /\ (h - 1) * (MaxDelay + LongestCall) <= Deadline + MaxDelay
  BY DEF Rescued
<1>2. /\ brks \in [Providers -> Breaker] /\ hist \in [Providers -> History]
      /\ reqs \in [Requests -> Request]
  BY DEF Good
<1>3. q.attempts \in Nat /\ q.elapsed \in Nat /\ Len(q.route) \in Nat
  BY ConstantTypes DEF Request
<1>4. ~ PastDeadline(q)
  <2>1. CASE q.attempts = 0
    BY <1>3, <2>1, ConstantTypes DEF PastDeadline
  <2>2. CASE q.attempts # 0
    <3>1. j <= h /\ h \in Nat /\ h - 1 \in Nat /\ q.attempts <= h - 1
      BY <1>1, <1>3 DEF NotPast
    <3>2. Longest(q.attempts) <= Longest(h - 1) /\ Longest(q.attempts) \in Int
      BY <1>3, <3>1, LongestGrows
    <3>3. Longest(h - 1) <= Deadline
      <4>1. (h - 1) * (MaxDelay + LongestCall) \in Int
        BY <3>1, ConstantTypes
      <4> QED BY <1>1, <4>1, ConstantTypes DEF Longest
    <3>4. Longest(h - 1) \in Int
      BY <1>3, <3>1, LongestGrows
    <3> QED BY <1>3, <2>2, <3>2, <3>3, <3>4, ConstantTypes DEF PastDeadline
  <2> QED BY <2>1, <2>2
<1>5. ASSUME NEW n \in 1 .. Len(q.route), q.route[n] \in Healthy
      PROVE  n \in j .. Len(q.route) /\ CanTry(q.route, n, brks)
  <2>1. j <= n
    BY <1>5 DEF NotPast
  <2>2. brks[q.route[n]].state = Closed
    BY <1>5 DEF Served, Upright
  <2> QED BY <1>5, <2>1, <2>2, HealthyProviders DEF CanTry, Grants
<1>6. ASSUME NEW err \in LastError, GivesUp(r, q, j, err, brks, reqs, hist) PROVE FALSE
  BY <1>1, <1>4, <1>5, <1>6 DEF GivesUp
<1>7. ASSUME NEW k \in 1 .. Len(q.route), NEW err \in LastError, NEW delay \in 0 .. MaxDelay,
             Tries(r, q, k, err, delay, brks, reqs, hist),
             \A n \in j .. Len(q.route) : CanTry(q.route, n, brks) => k <= n,
             q.attempts = 0 => delay = 0,
             k >= j
      PROVE  Served(breakers', requests')
  <2> DEFINE p == q.route[k]
             after == AfterGrant(brks[p])
             sent == Sent(q, k, err, delay, brks[p].state # Closed)
  <2>1. p \in Providers /\ brks[p] \in Breaker /\ Grants(brks[p])
    BY <1>2, <1>7, Targets DEF Tries
  <2>2. p \in Healthy => after.state = Closed
    <3>1. p \in Healthy => brks[p].state = Closed
      BY DEF Served, Upright
    <3> QED BY <2>1, <3>1, AfterGrantLemma
  <2>3. Served([brks EXCEPT ![p] = after], Seen(reqs, p, brks[p], after))
    <3> HIDE DEF p, after
    <3> QED BY <1>2, <2>1, <2>2, SeenInTime
  <2>4. /\ sent.pc = (IF delay = 0 THEN "calling" ELSE "backoff")
        /\ sent.route = q.route /\ sent.i = k /\ sent.attempts = q.attempts + 1
        /\ sent.elapsed = q.elapsed /\ sent.left = IF delay = 0 THEN LongestCall ELSE delay
    BY DEF Sent, Request
  <2>5. NotPast(q.route, k)
    BY <1>5, <1>7 DEF NotPast
  <2>6. q.attempts + 1 \in Nat /\ 0 < q.attempts + 1 /\ q.attempts + 1 <= k
    BY <1>3, <1>7
  <2>7. q.elapsed + (IF delay = 0 THEN LongestCall ELSE delay)
           + (IF delay = 0 THEN 0 ELSE LongestCall) <= Longest(q.attempts + 1)
    <3>1. CASE q.attempts = 0
      <4>1. delay = 0 /\ Longest(q.attempts + 1) = LongestCall
        BY <1>7, <3>1, LongestGrows
      <4> QED BY <3>1, <4>1, ConstantTypes
    <3>2. CASE q.attempts # 0
      <4>1. /\ q.elapsed <= Longest(q.attempts) /\ Longest(q.attempts) \in Int
            /\ Longest(q.attempts + 1) = Longest(q.attempts) + MaxDelay + LongestCall
        BY <1>3, <3>2, LongestGrows
      <4> QED BY <1>3, <4>1, ConstantTypes
    <3> QED BY <3>1, <3>2
  <2>8. InTime(sent) /\ sent.pc \notin Unserved
    <3> HIDE DEF sent, p
    <3> QED BY <2>4, <2>5, <2>6, <2>7 DEF InTime, Unserved
  <2>9. /\ breakers' = [brks EXCEPT ![p] = after]
        /\ requests' = [Seen(reqs, p, brks[p], after) EXCEPT ![r] = sent]
    BY <1>7 DEF Tries
  <2>10. Seen(reqs, p, brks[p], after) \in [Requests -> Request]
    <3>1. ASSUME NEW x \in Requests PROVE Seen(reqs, p, brks[p], after)[x] \in Request
      <4>1. PICK old \in Request : old = reqs[x]
        BY <1>2
      <4>2. Seen(reqs, p, brks[p], after)[x] \in {old, [old EXCEPT !.fresh = FALSE]}
        BY <4>1 DEF Seen
      <4> HIDE DEF p, after
      <4> QED BY <4>2 DEF Request
    <3> HIDE DEF p, after
    <3> QED BY <3>1 DEF Seen
  <2> HIDE DEF p, after, sent
  <2> QED BY <2>3, <2>8, <2>9, <2>10, MovedInTime
<1> QED BY <1>2, <1>6, <1>7, Onward

\* The healthy breakers start closed.
LEMMA InitServes == Init => ServedInv
<1> SUFFICES ASSUME Init PROVE ServedInv
  OBVIOUS
<1>1. \A r \in Requests : requests[r].pc = "idle"
  BY IdleIsSound DEF Init
<1>2. Upright(breakers)
  BY HealthyProviders DEF Init, Upright, NewBreaker
<1> QED BY <1>1, <1>2, InitInv DEF ServedInv, Served, InTime, Active, Unserved

\* A request sets out with nothing behind it.
LEMMA StartServes ==
    ASSUME ServedInv, \A route \in Routes : Rescued(route), NEW r \in Requests, Start(r)
    PROVE  Served(breakers', requests')
<1>1. PICK route \in Routes :
         Continue(r, [Idle EXCEPT !.route = route], 1, breakers, requests, history)
  BY DEF Start
<1>2. PICK q \in Request : /\ q = [Idle EXCEPT !.route = route] /\ q.route = route
                           /\ q.attempts = 0 /\ q.elapsed = 0
  <2>1. [Idle EXCEPT !.route = route].attempts = 0 /\ [Idle EXCEPT !.route = route].elapsed = 0
    BY DEF Idle
  <2> QED BY <2>1, IdleIsSound
<1>3. 1 \in 1 .. Len(q.route) + 1
  BY <1>2, ConstantTypes
<1>4. Continue(r, q, 1, breakers, requests, history) /\ Rescued(q.route)
  BY <1>1, <1>2
<1>5. NotPast(q.route, 1) /\ q.attempts < 1
  BY <1>2 DEF NotPast
<1> QED BY <1>2, <1>3, <1>4, <1>5, ContinueServes DEF ServedInv, IInv

\* A failure is another provider's, so the healthy ones are all still to come.
LEMMA FailServes ==
    ASSUME ServedInv, \A route \in Routes : Rescued(route), NEW r \in Requests, Fail(r)
    PROVE  Served(breakers', requests')
<1> DEFINE p == Target(r)
           brks == [breakers EXCEPT ![p] = Failed(r)]
           reqs == Seen(requests, p, breakers[p], Failed(r))
           hist == [history EXCEPT ![p] = Afterwards(r)]
<1>1. requests[r].pc = "calling" /\ p \notin Healthy
  BY DEF Fail
<1>2. /\ requests \in [Requests -> Request] /\ breakers \in [Providers -> Breaker]
      /\ p \in Providers /\ requests[r] \in Request
      /\ requests[r].i \in 1 .. Len(requests[r].route) /\ Len(requests[r].route) \in Nat
  BY <1>1, Calling DEF ServedInv, IInv, Good
<1>3. Served(brks, reqs)
  <2> HIDE DEF p
  <2> QED BY <1>1, <1>2, SeenInTime DEF ServedInv
<1>4. PICK q \in Request :
         /\ q.route = requests[r].route /\ q.route \in Routes
         /\ q.elapsed = requests[r].elapsed /\ q.attempts = requests[r].attempts
         /\ requests[r].i + 1 \in 1 .. Len(q.route) + 1
         /\ Continue(r, q, requests[r].i + 1, brks, reqs, hist)
  BY FailedCall DEF ServedInv
<1>5. Good(brks, reqs, hist)
  BY FailedCall DEF ServedInv
<1>6. InTime(requests[r]) /\ requests[r].pc \in Active
  BY <1>1 DEF ServedInv, Served, Active
<1>7. NotPast(q.route, requests[r].i + 1)
  <2> SUFFICES ASSUME NEW h \in 1 .. Len(q.route), q.route[h] \in Healthy
               PROVE  requests[r].i + 1 <= h
    BY DEF NotPast
  <2>1. requests[r].i <= h
    BY <1>4, <1>6 DEF InTime, NotPast
  <2>2. requests[r].i # h
    BY <1>1, <1>4 DEF Target
  <2> QED BY <1>2, <2>1, <2>2
<1>8. /\ q.attempts < requests[r].i + 1 /\ q.attempts # 0
      /\ q.elapsed <= Longest(q.attempts)
  <2>1. /\ 0 < q.attempts /\ q.attempts <= requests[r].i
        /\ q.elapsed + requests[r].left <= Longest(q.attempts)
    <3>1. q.elapsed \in Nat /\ requests[r].left \in Nat
      BY <1>2, ConstantTypes DEF Request
    <3>2. /\ 0 < q.attempts /\ q.attempts <= requests[r].i
          /\ q.elapsed + requests[r].left + 0 <= Longest(q.attempts)
      BY <1>1, <1>4, <1>6 DEF InTime
    <3> QED BY <3>1, <3>2
  <2>2. q.attempts \in Nat /\ q.elapsed \in Nat /\ requests[r].left \in Nat
    BY <1>2, ConstantTypes DEF Request
  <2>3. Longest(q.attempts) \in Int
    BY <2>2, LongestGrows
  <2>4. requests[r].i \in Nat
    BY <1>2 DEF Request
  <2> HIDE DEF p, brks, reqs, hist
  <2> QED BY <2>1, <2>2, <2>3, <2>4
<1> HIDE DEF p, brks, reqs, hist
<1> QED BY <1>3, <1>4, <1>5, <1>7, <1>8, ContinueServes

\* The answer that a healthy provider gives is a success, which leaves its
\* breaker closed.
LEMMA FinishServes ==
    ASSUME ServedInv, NEW r \in Requests, Succeed(r) \/ Reject(r)
    PROVE  Served(breakers', requests')
<1> DEFINE p == Target(r)
           b == RecordSuccess(breakers[p])
<1>1. PICK outcome \in {"served", "rejected"} : Finish(r, outcome, b)
  BY DEF Succeed, Reject
<1>2. requests[r].pc = "calling"
  BY DEF Succeed, Reject
<1>3. /\ p \in Providers /\ breakers[p] \in Breaker /\ breakers \in [Providers -> Breaker]
      /\ requests \in [Requests -> Request]
  BY <1>2, Calling DEF ServedInv, IInv, Good
<1>4. p \in Healthy => b.state = Closed
  <2>1. p \in Healthy => breakers[p].state = Closed
    BY DEF ServedInv, Served, Upright
  <2> QED BY <1>3, <2>1, RecordSuccessLemma DEF Closed, HalfOpen
<1>5. /\ breakers' = [breakers EXCEPT ![p] = b]
      /\ requests' = [Seen(requests, p, breakers[p], b) EXCEPT ![r] = Ended(outcome, "none")]
  BY <1>1 DEF Finish
<1>6. Ended(outcome, "none").pc = outcome /\ outcome \notin Active /\ outcome \notin Unserved
  BY DEF Ended, Idle, Active, Unserved
<1>7. InTime(Ended(outcome, "none"))
  BY <1>6 DEF InTime
<1>8. DOMAIN Seen(requests, p, breakers[p], b) = Requests
  BY DEF Seen
<1> HIDE DEF p, b
<1>9. Served([breakers EXCEPT ![p] = b], Seen(requests, p, breakers[p], b))
  BY <1>3, <1>4, SeenInTime DEF ServedInv
<1> QED BY <1>5, <1>6, <1>7, <1>8, <1>9 DEF Served

\* The time of a call was allowed for when its backoff began.
LEMMA WakeServes ==
    ASSUME ServedInv, NEW r \in Requests, Wake(r)
    PROVE  Served(breakers', requests')
<1> DEFINE q == requests[r]
           woken == [q EXCEPT !.pc = "calling", !.left = LongestCall]
<1>1. q \in Request /\ requests \in [Requests -> Request] /\ InTime(q)
  BY DEF ServedInv, Served, IInv, Good
<1>2. /\ q.pc = "backoff" /\ q.left = 0
      /\ breakers' = breakers /\ requests' = [requests EXCEPT ![r] = woken]
  BY <1>1 DEF Wake
<1>3. /\ woken.pc = "calling" /\ woken.left = LongestCall /\ woken.route = q.route
      /\ woken.i = q.i /\ woken.attempts = q.attempts /\ woken.elapsed = q.elapsed
  BY <1>1 DEF Request
<1>4. q.elapsed \in Nat
  BY <1>1, ConstantTypes DEF Request
<1> HIDE DEF q, woken
<1>5. q.elapsed + 0 + LongestCall <= Longest(q.attempts)
  BY <1>1, <1>2 DEF InTime, Active
<1>6. woken.elapsed + woken.left + 0 <= Longest(woken.attempts)
  BY <1>3, <1>4, <1>5, ConstantTypes
<1>7. InTime(woken) /\ woken.pc \notin Unserved
  BY <1>1, <1>2, <1>3, <1>6 DEF InTime, Active, Unserved
<1> QED BY <1>1, <1>2, <1>7, MovedInTime DEF ServedInv

\* What has elapsed of a sleep or a call is no longer left of it.
LEMMA TickServes == ASSUME ServedInv, Tick PROVE Served(breakers', requests')
<1>1. breakers \in [Providers -> Breaker] /\ requests \in [Requests -> Request]
  BY DEF ServedInv, IInv, Good
<1>2. Upright(breakers')
  <2>1. \A p \in Providers : breakers'[p].state = breakers[p].state
    BY <1>1, ElapseLemma DEF Tick
  <2> QED BY <2>1, HealthyProviders DEF ServedInv, Served, Upright
<1>3. ASSUME NEW r \in Requests
      PROVE  InTime(requests'[r]) /\ requests'[r].pc \notin Unserved
  <2>1. PICK q \in Request : q = requests[r]
    BY <1>1
  <2>2. InTime(q) /\ q.pc \notin Unserved
    BY <2>1 DEF ServedInv, Served
  <2>3. CASE ~ Working(r)
    BY <2>1, <2>2, <2>3 DEF Tick
  <2>4. CASE Working(r)
    <3> DEFINE next == [q EXCEPT !.elapsed = @ + 1, !.left = @ - 1, !.held = @ + 1]
    <3>1. requests'[r] = next
      BY <2>1, <2>4 DEF Tick
    <3>2. /\ next.pc = q.pc /\ next.route = q.route /\ next.i = q.i /\ next.attempts = q.attempts
          /\ next.elapsed = q.elapsed + 1 /\ next.left = q.left - 1
      BY DEF Request
    <3>3. q.elapsed \in Nat /\ q.left \in Nat
      BY ConstantTypes DEF Request
    <3> HIDE DEF next
    <3>4. next.elapsed + next.left = q.elapsed + q.left
      BY <3>2, <3>3
    <3> QED BY <2>2, <3>1, <3>2, <3>4 DEF InTime
  <2> QED BY <2>3, <2>4
<1> QED BY <1>2, <1>3 DEF Served

\* Every step keeps requests in time for their healthy target.
LEMMA StepServes ==
    ASSUME ServedInv, \A route \in Routes : Rescued(route), [Next]_vars
    PROVE  ServedInv'
<1>1. IInv'
  BY StepInv DEF ServedInv
<1>2. CASE Tick
  BY <1>1, <1>2, TickServes DEF ServedInv
<1>3. ASSUME NEW r \in Requests, Start(r) \/ Fail(r) PROVE ServedInv'
  BY <1>1, <1>3, StartServes, FailServes DEF ServedInv
<1>4. ASSUME NEW r \in Requests, Wake(r) \/ Succeed(r) \/ Reject(r) PROVE ServedInv'
  BY <1>1, <1>4, WakeServes, FinishServes DEF ServedInv
<1>5. ASSUME NEW r \in Requests, Escape(r) PROVE ServedInv'
  <2> DEFINE over == Ended("escaped", "none")
  <2>1. breakers' = breakers /\ requests' = [requests EXCEPT ![r] = over]
    BY <1>5 DEF Escape
  <2>2. over.pc = "escaped" /\ MayEscape
    BY <1>5 DEF Escape, Ended, Idle
  <2>3. InTime(over) /\ over.pc \notin Unserved
    BY <2>2 DEF InTime, Active, Unserved
  <2> HIDE DEF over
  <2>4. requests \in [Requests -> Request]
    BY DEF ServedInv, IInv, Good
  <2> QED BY <1>1, <2>1, <2>3, <2>4, MovedInTime DEF ServedInv
<1>6. CASE UNCHANGED vars
  BY <1>1, <1>6 DEF ServedInv, vars
<1> QED BY <1>2, <1>3, <1>4, <1>5, <1>6 DEF Next, Answer

-----------------------------------------------------------------------------
\* BreakerCalls' theorems, of the breaker of any one provider.

CONSTANT One    \* the provider

Single ==
    INSTANCE BreakerCallsProofs WITH
        Attempts <- Requests, MaxHold <- MaxDelay + LongestCall,
        breaker <- breakers[One], attempts <- AttemptsOn(One), history <- history[One]

\* What BreakerCalls assumes of its constants is true of the executor's.
LEMMA OneAssumption == Single!BreakerAssumption /\ Single!AttemptAssumption
BY BreakerAssumption, ExecutorAssumption DEF Single!BreakerAssumption, Single!AttemptAssumption

\* Its breaker has the methods of this one,
LEMMA OneMethods ==
    ASSUME NEW b
    PROVE  /\ Single!Grants(b) = Grants(b)
           /\ Single!AfterGrant(b) = AfterGrant(b)
           /\ Single!RecordSuccess(b) = RecordSuccess(b)
           /\ Single!RecordFailure(b) = RecordFailure(b)
           /\ Single!Elapse(b) = Elapse(b)
<1> USE DEF Single!Closed, Closed, Single!Open, Open, Single!HalfOpen, HalfOpen,
            Single!Remember, Remember
<1>1. Single!Grants(b) = Grants(b)
  BY DEF Single!Grants, Grants, Single!Due, Due
<1>2. Single!AfterGrant(b) = AfterGrant(b)
  BY DEF Single!AfterGrant, AfterGrant, Single!TakeSlot, TakeSlot, Single!ToHalfOpen, ToHalfOpen
<1>3. Single!RecordSuccess(b) = RecordSuccess(b)
  BY DEF Single!RecordSuccess, RecordSuccess, Single!ToClosed, ToClosed
<1>4. Single!RecordFailure(b) = RecordFailure(b)
  BY DEF Single!RecordFailure, RecordFailure, Single!ToOpen, ToOpen,
         Single!TooManyFailures, TooManyFailures, Single!Failures, Failures, Single!Cardinality, Cardinality
<1>5. Single!Elapse(b) = Elapse(b)
  BY DEF Single!Elapse, Elapse
<1> QED BY <1>1, <1>2, <1>3, <1>4, <1>5

\* and its bookkeeping is the one that Protocol stands for,
LEMMA OneNotes ==
    /\ \A h, from, to : /\ Protocol(One)!NoteTransition(h, from, to) = Single!NoteTransition(h, from, to)
                        /\ Protocol(One)!NoteFailure(h) = Single!NoteFailure(h)
    /\ \A as, from, to : Protocol(One)!Seen(as, from, to) = Single!Seen(as, from, to)
    /\ \A from, phase : Protocol(One)!Granted(from, phase) = Single!Granted(from, phase)
    /\ Protocol(One)!NoAttempt = Single!NoAttempt
    /\ Protocol(One)!Outstanding = Single!Outstanding
BY DEF Protocol!NoteTransition, Protocol!NoteFailure, Protocol!Seen, Protocol!Granted,
       Protocol!NoAttempt, Single!NoteTransition, Single!NoteFailure, Single!Seen,
       Single!Granted, Single!NoAttempt,
       Protocol!Outstanding, Single!Outstanding,
       Protocol!Closed, Single!Closed, Protocol!Open, Single!Open

\* so that what Protocol allows of the one provider is a step there.
LEMMA OneStep ==
    ASSUME One \in Providers, Protocol(One)!Next \/ UNCHANGED Protocol(One)!vars
    PROVE  [Single!Next]_(Single!vars)
<1>1. ASSUME NEW a \in Requests, Protocol(One)!Ask(a) PROVE Single!Ask(a)
  BY <1>1, SameMethods, OneMethods, OneNotes DEF Protocol!Ask, Single!Ask
<1>2. ASSUME NEW a \in Requests, Protocol(One)!Send(a) PROVE Single!Send(a)
  BY <1>2 DEF Protocol!Send, Single!Send
<1>3. ASSUME NEW a \in Requests, Protocol(One)!Succeed(a) PROVE Single!Succeed(a)
  BY <1>3, SameMethods, OneMethods, OneNotes DEF Protocol!Succeed, Single!Succeed
<1>4. ASSUME NEW a \in Requests, Protocol(One)!Fail(a) PROVE Single!Fail(a)
  BY <1>4, SameMethods, OneMethods, OneNotes DEF Protocol!Fail, Single!Fail
<1>5. ASSUME NEW a \in Requests, Protocol(One)!FailAndAsk(a) PROVE Single!FailAndAsk(a)
  BY <1>5, SameMethods, OneMethods, OneNotes DEF Protocol!FailAndAsk, Single!FailAndAsk
<1>6. ASSUME NEW a \in Requests, Protocol(One)!Escape(a) PROVE Single!Escape(a)
  BY <1>6, OneNotes DEF Protocol!Escape, Single!Escape
<1>7. ASSUME Protocol(One)!Tick PROVE Single!Tick
  BY <1>7, SameMethods, OneMethods, OneNotes DEF Protocol!Tick, Single!Tick
<1>8. ASSUME UNCHANGED Protocol(One)!vars PROVE UNCHANGED Single!vars
  BY <1>8 DEF Protocol!vars, Single!vars
<1> QED BY <1>1, <1>2, <1>3, <1>4, <1>5, <1>6, <1>7, <1>8 DEF Protocol!Next, Single!Next

\* Nobody is on the way to it at first.
LEMMA OneInit == ASSUME One \in Providers, Init PROVE Single!Init
<1>1. Protocol(One)!Init
  BY InitMapped
<1> QED BY <1>1, OneNotes
        DEF Protocol!Init, Single!Init, Protocol!NewBreaker, Single!NewBreaker,
            Protocol!Closed, Single!Closed

\* What the requests do with the one provider is a behaviour of BreakerCalls.
LEMMA OneSpec == ASSUME One \in Providers PROVE Spec => Single!Spec
<1>1. Init => Single!Init
  BY OneInit
<1>2. IInv /\ [Next]_vars => [Single!Next]_(Single!vars)
  <2>1. IInv /\ [Next]_vars =>
        [\A p \in Providers : Protocol(p)!Next \/ UNCHANGED Protocol(p)!vars]_vars
    BY StepMapped
  <2>2. UNCHANGED vars => UNCHANGED Single!vars
    BY DEF vars, Single!vars, AttemptsOn, Working, Target
  <2> QED BY <2>1, <2>2, OneStep
<1> QED BY <1>1, <1>2, Invariant, PTL DEF Spec, Single!Spec

-----------------------------------------------------------------------------
\* The theorems.

\* The state of the executor, its breakers and their histories keep their types:
\* in particular no request is under way, and no attempt held, for longer than
\* deadline_s, max_delay_s and request_timeout_s allow.
THEOREM TypeCorrect == Spec => []TypeOK
<1>1. IInv => TypeOK
  BY DEF IInv, Good, TypeOK, History
<1> QED BY <1>1, Invariant, PTL

\* The deadline bounds a request although it is only looked at between targets:
\* no call is made later than one backoff after it.
THEOREM DeadlineHolds == Spec => []DeadlineBoundsCalls
<1>1. IInv => DeadlineBoundsCalls
  <2> SUFFICES ASSUME IInv, NEW r \in Requests, requests[r].pc = "calling"
               PROVE  requests[r].elapsed - (LongestCall - requests[r].left) <= Deadline + MaxDelay
    BY DEF DeadlineBoundsCalls
  <2>1. PICK q \in Request : q = requests[r] /\ Sound(q)
    BY DEF IInv, Good
  <2>2. q.elapsed \in Nat /\ q.left \in Nat
    BY ConstantTypes DEF Request
  <2>3. q.elapsed + q.left <= Deadline + (MaxDelay + LongestCall)
    BY <2>1, ConstantTypes DEF Sound, Active
  <2> QED BY <2>1, <2>2, <2>3, ConstantTypes
<1> QED BY <1>1, Invariant, PTL

\* Once a breaker has been open for max_delay_s nobody is on the way to its
\* provider: who sleeps before a call there was admitted before it opened.
THEOREM GoesQuiet == Spec => []OpenGoesQuiet
<1>1. IInv => OpenGoesQuiet
  <2> SUFFICES ASSUME IInv, NEW p \in Providers, breakers[p].state = Open,
                      history[p].cooled > MaxDelay,
                      NEW r \in Requests, requests[r].pc = "backoff", Target(r) = p
               PROVE  FALSE
    BY DEF OpenGoesQuiet
  <2>1. PICK q \in Request : q = requests[r] /\ Sound(q)
    BY DEF IInv, Good
  <2>2. history[p] \in History
    BY DEF IInv, Good
  <2>3. q.held \in Nat /\ q.left \in Nat /\ history[p].cooled \in Nat
    BY <2>1, <2>2, ConstantTypes DEF Request, History
  <2>4. history[p].cooled <= q.held
    BY <2>1 DEF IInv, Good, Quiet, On, Active, Target
  <2>5. q.held + q.left <= MaxDelay
    BY <2>1 DEF Sound, Active
  <2> QED BY <2>3, <2>4, <2>5, ConstantTypes
<1> QED BY <1>1, Invariant, PTL

\* A request within its deadline gives up only when every later target of its
\* list is without an adapter or refused by its breaker.
THEOREM NobodyPassedOver == Spec => NoTargetPassedOver
<1>1. IInv /\ [Next]_vars =>
         [\A r \in Requests :
            /\ Working(r) /\ requests'[r].pc = "exhausted"
            /\ requests[r].elapsed <= Deadline
            => \A j \in requests[r].i + 1 .. Len(requests[r].route) :
                  LET p == requests[r].route[j]
                  IN  p \in Configured => ~ Grants(breakers'[p])]_vars
  BY PassedOverStep
<1> QED BY <1>1, Invariant, PTL DEF Spec, NoTargetPassedOver

\* A breaker opens in a step in which a request that was calling its provider
\* records a failure and goes on to a later target or gives up.
THEOREM OwnFailureOpens == Spec => OpenedByOwnFailure
<1>1. IInv /\ [Next]_vars =>
         [\A p \in Providers :
            breakers[p].state # Open /\ breakers'[p].state = Open =>
               \E r \in Requests :
                  /\ requests[r].pc = "calling" /\ Target(r) = p
                  /\ requests'[r].pc \notin {"served", "rejected", "escaped"}
                  /\ requests'[r].i # requests[r].i]_vars
  BY OpeningStep
<1> QED BY <1>1, Invariant, PTL DEF Spec, OpenedByOwnFailure

\* What the executor does to each provider is the protocol of BreakerCalls, so
\* the safety proved there holds for the breaker of every provider.
THEOREM Implements == Spec => ImplementsBreakerCalls
BY InitMapped, StepMapped, Invariant, PTL DEF Spec, ImplementsBreakerCalls

\* If every target list has a healthy provider whose turn comes before the
\* deadline has passed, no request ends in AllTargetsFailed: all that the other
\* providers and requests do, raising what nobody names included, can neither open
\* that provider's breaker nor use up the time.
THEOREM HealthyTargetIsReached ==
    ASSUME \A route \in Routes : Rescued(route)
    PROVE  Spec => [](\A r \in Requests : requests[r].pc # "exhausted")
<1>1. ServedInv /\ [Next]_vars => ServedInv'
  BY StepServes
<1>2. ServedInv => \A r \in Requests : requests[r].pc # "exhausted"
  BY DEF ServedInv, Served, Unserved
<1> QED BY <1>1, <1>2, InitServes, PTL DEF Spec

\* If moreover every call ends in a way that execute names, every request that
\* ends is served or has its own 4xx passed on.
THEOREM FallbackHolds ==
    ASSUME \A route \in Routes : Rescued(route), ~ MayEscape
    PROVE  Spec => []FallbackServes
<1>1. ServedInv /\ [Next]_vars => ServedInv'
  BY StepServes
<1>2. ServedInv => FallbackServes
  BY DEF ServedInv, Served, FallbackServes, Unserved
<1> QED BY <1>1, <1>2, InitServes, PTL DEF Spec

\* However requests and their targets meet at it, no provider's breaker invents or
\* loses a probe slot, trips without fresh evidence, leaves its open period early,
\* or stays closed on a failure that is one too many.
THEOREM EveryBreakerHolds ==
    ASSUME One \in Providers
    PROVE  Spec => /\ []Single!ProbesAccounted
                   /\ []Single!OverThresholdOnlyAfterSuccess
                   /\ Single!TripNeedsEvidence
                   /\ Single!CoolingOff
<1>1. Single!Spec => []Single!ProbesAccounted
  BY OneAssumption, Single!SlotsAccounted
<1>2. Single!Spec => []Single!OverThresholdOnlyAfterSuccess
  BY OneAssumption, Single!OverThresholdOnSuccess
<1>3. Single!Spec => Single!TripNeedsEvidence
  BY OneAssumption, Single!TripsOnEvidence
<1>4. Single!Spec => Single!CoolingOff
  BY OneAssumption, Single!CoolsOff
<1> QED BY <1>1, <1>2, <1>3, <1>4, OneSpec, PTL

\* When the longest sleep and the longest call together end before the reset
\* timeout, every half-open provider hears from its own probes only and has no
\* more of them than half_open_max.
THEOREM EveryHalfOpenPeriod ==
    ASSUME One \in Providers, MaxDelay + LongestCall < ResetTimeout
    PROVE  Spec => /\ []Single!OnlyProbesInHalfOpen
                   /\ []Single!ProbeCap
<1>1. Single!Spec => []Single!OnlyProbesInHalfOpen
  BY OneAssumption, Single!HalfOpenHearsOnlyItsProbes
<1>2. Single!Spec => []Single!ProbeCap
  BY OneAssumption, Single!ProbesCapped
<1> QED BY <1>1, <1>2, OneSpec, PTL

\* If moreover every call ends in an outcome that is recorded, a provider's
\* half-open period keeps its probes while it lasts, and the answer of one of
\* them, a success or a failure, is what ends it.
THEOREM EveryHalfOpenPeriodIsItsProbes ==
    ASSUME One \in Providers, MaxDelay + LongestCall < ResetTimeout, ~ MayEscape
    PROVE  Spec => Single!PeriodOfItsProbes
<1>1. Single!Spec => Single!PeriodOfItsProbes
  BY OneAssumption, Single!PeriodBelongsToItsProbes
<1> QED BY <1>1, OneSpec, PTL

\* As long as every call ends in an outcome that is recorded, a half-open provider
\* has a probe of that period out.
THEOREM EveryHalfOpenIsProbed ==
    ASSUME One \in Providers, ~ MayEscape
    PROVE  Spec => [](breakers[One].state = HalfOpen => Single!Probes # {})
<1>1. Single!Spec => [](breakers[One].state = Single!HalfOpen => Single!Probes # {})
  BY OneAssumption, Single!ProbeStaysOut
<1>2. (breakers[One].state = Single!HalfOpen => Single!Probes # {}) =>
      (breakers[One].state = HalfOpen => Single!Probes # {})
  BY DEF Single!HalfOpen, HalfOpen
<1> QED BY <1>1, <1>2, OneSpec, PTL

\* A provider that is half-open with every slot taken and no request on the way to
\* it is never sent a request again.
THEOREM StuckProviderStaysStuck ==
    ASSUME One \in Providers
    PROVE  Spec => [](Single!Stuck => []Single!Stuck)
<1>1. Single!Spec => [](Single!Stuck => []Single!Stuck)
  BY OneAssumption, Single!StuckForGood
<1> QED BY <1>1, OneSpec, PTL
=============================================================================
