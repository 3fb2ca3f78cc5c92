---------------------------- MODULE RoutingProofs ----------------------------
(***************************************************************************)
(* Theorems about Routing, for any targets, weights, prices and latencies, *)
(* any smoothing factor and any number of overlapping requests: what was   *)
(* measured or priced decides the order in which targets have their turn.  *)
(*                                                                         *)
(* That a smoothed latency lies between the least and the largest sample   *)
(* is arithmetic on a rounded weighted mean; that an order exists and is   *)
(* the only one is counting; everything else is about two targets.         *)
(***************************************************************************)
EXTENDS Routing, FiniteSetTheorems, TLAPS

-----------------------------------------------------------------------------
\* The inductive invariant.

\* A provider without a sample is cold; the average of one that has some is
\* between two of them.
Between(p) == \E lo, hi \in Took(p) : lo * Scale <= latency[p] /\ latency[p] <= hi * Scale

Measured ==
    \A p \in Providers : /\ Took(p) = {} => latency[p] = Cold
                         /\ Took(p) # {} => latency[p] \in Nat /\ Between(p)

\* An order that is being walked is still the one its policy made.
ColdAfter(q) ==
    \A i, j \in Targets : i < j /\ Provider[q.order[i]] \notin q.known =>
        Provider[q.order[j]] \notin q.known

CostsRise(q) == \A i, j \in Targets : i < j => UnitCost(q.order[i]) <= UnitCost(q.order[j])

Sorted ==
    \A r \in Requests : requests[r].at # 0 =>
        /\ policy = "latency-aware" => ColdAfter(requests[r])
        /\ policy = "cost-aware" => CostsRise(requests[r])

IInv == TypeOK /\ Measured /\ Sorted

-----------------------------------------------------------------------------
\* Targets and orders.

LEMMA TargetTypes ==
    /\ \A t \in Targets : t \in Nat \ {0} /\ Provider[t] \in Providers
    /\ 0 \notin Targets /\ 1 \in Targets
    /\ \A t \in Targets : UnitCost(t) \in Nat
<1>1. Targets = 1 .. Cardinality(Targets) /\ Targets # {} /\ Cardinality(Targets) \in Nat
  BY RoutingAssumption, FS_CardinalityType
<1>2. \A t \in Targets : t \in Nat \ {0}
  BY <1>1
<1>3. 0 \notin Targets /\ 1 \in Targets
  BY <1>1
<1>4. \A t \in Targets : Provider[t] \in Providers
  BY RoutingAssumption
<1>5. \A t \in Targets : UnitCost(t) \in Nat
  <2> TAKE t \in Targets
  <2>1. Price[t] \in Nat \cup {Unpriced}
    BY RoutingAssumption
  <2>2. CASE Price[t] = Unpriced
    BY <2>2 DEF UnitCost
  <2>3. CASE Price[t] # Unpriced
    <3>1. Price[t] \in Nat
      BY <2>1, <2>3
    <3> QED BY <2>3, <3>1 DEF UnitCost
  <2> QED BY <2>2, <2>3
<1> QED BY <1>2, <1>3, <1>4, <1>5

LEMMA OrderTypes ==
    ASSUME NEW order \in Orders
    PROVE  \A i \in Targets : order[i] \in Targets
<1> QED BY DEF Orders

LEMMA AtRestTypes == AtRest \in Request /\ AtRest.at = 0
<1>1. [t \in Targets |-> t] \in Orders
  BY DEF Orders
<1> QED BY <1>1 DEF AtRest, Request

-----------------------------------------------------------------------------
\* The average.

\* A mean with weights a and d - a, rounded down, lies between its parts.
LEMMA MeanBounds ==
    ASSUME NEW a \in Nat, NEW d \in Nat, 0 < a, a <= d, NEW x \in Nat, NEW y \in Nat,
           NEW lo \in Nat, NEW hi \in Nat, lo <= x, lo <= y, x <= hi, y <= hi
    PROVE  LET mean == (a * x + (d - a) * y) \div d
           IN  mean \in Nat /\ lo <= mean /\ mean <= hi
<1> DEFINE b == d - a
           n == a * x + b * y
<1>1. b \in Nat /\ d = a + b /\ d > 0
  OBVIOUS
<1> HIDE DEF b
<1>2. a * lo <= a * x /\ a * x <= a * hi /\ a * lo \in Nat /\ a * x \in Nat /\ a * hi \in Nat
  OBVIOUS
<1>3. b * lo <= b * y /\ b * y <= b * hi /\ b * lo \in Nat /\ b * y \in Nat /\ b * hi \in Nat
  BY <1>1
<1>4. d * lo = a * lo + b * lo /\ d * hi = a * hi + b * hi
  BY <1>1
<1>5. d * lo <= n /\ n <= d * hi /\ n \in Nat
  BY <1>2, <1>3, <1>4
<1> HIDE DEF n
<1>6. n \div d \in Nat /\ d * (n \div d) <= n /\ n < d * (n \div d) + d
  BY <1>1, <1>5
<1>7. PICK m \in Nat : m = n \div d
  BY <1>6
<1>8. d * m <= d * hi /\ d * lo < d * m + d
  BY <1>5, <1>6, <1>7, <1>1
<1>9. m <= hi
  <2> SUFFICES ASSUME m >= hi + 1 PROVE FALSE
    OBVIOUS
  <2>1. d * m >= d * (hi + 1)
    BY <1>1
  <2>2. d * (hi + 1) = d * hi + d
    BY <1>1
  <2> QED BY <1>1, <1>8, <2>1, <2>2
<1>10. lo <= m
  <2> SUFFICES ASSUME lo >= m + 1 PROVE FALSE
    OBVIOUS
  <2>1. d * lo >= d * (m + 1)
    BY <1>1
  <2>2. d * (m + 1) = d * m + d
    BY <1>1
  <2> QED BY <1>1, <1>8, <2>1, <2>2
<1> QED BY <1>7, <1>9, <1>10 DEF n, b

\* A new sample moves the average no further than itself.
LEMMA SmoothedBounds ==
    ASSUME NEW prev \in Nat, NEW ms \in Nat, NEW lo \in Nat, NEW hi \in Nat,
           lo * Scale <= prev, prev <= hi * Scale, lo <= ms, ms <= hi
    PROVE  /\ Smoothed(prev, ms) \in Nat
           /\ lo * Scale <= Smoothed(prev, ms) /\ Smoothed(prev, ms) <= hi * Scale
<1>1. AlphaNum \in Nat /\ AlphaDen \in Nat /\ 0 < AlphaNum /\ AlphaNum <= AlphaDen /\ Scale \in Nat
  BY RoutingAssumption
<1>2. lo * Scale \in Nat /\ hi * Scale \in Nat /\ ms * Scale \in Nat
      /\ lo * Scale <= ms * Scale /\ ms * Scale <= hi * Scale
  BY <1>1
<1>3. prev # Cold
  BY DEF Cold
<1>4. AlphaNum * ms * Scale = AlphaNum * (ms * Scale)
  BY <1>1
<1>5. Smoothed(prev, ms) = (AlphaNum * (ms * Scale) + (AlphaDen - AlphaNum) * prev) \div AlphaDen
  BY <1>3, <1>4 DEF Smoothed
<1>6. PICK l \in Nat, h \in Nat, x \in Nat : l = lo * Scale /\ h = hi * Scale /\ x = ms * Scale
  BY <1>2
<1>7. LET mean == (AlphaNum * x + (AlphaDen - AlphaNum) * prev) \div AlphaDen
      IN  mean \in Nat /\ l <= mean /\ mean <= h
  BY <1>1, <1>2, <1>6, MeanBounds
<1> QED BY <1>5, <1>6, <1>7

-----------------------------------------------------------------------------
\* The policies.

\* Among cold and warm targets, and among cheap and dear ones, an order that is
\* resolved keeps to its policy.
LEMMA ResolvedIsSorted ==
    ASSUME TypeOK, NEW order \in Resolve, NEW at,
           NEW q, q = [order |-> order, at |-> at, known |-> {p \in Providers : latency[p] # Cold}]
    PROVE  /\ policy = "latency-aware" => ColdAfter(q)
           /\ policy = "cost-aware" => CostsRise(q)
<1>1. /\ order \in Orders /\ q.order = order /\ q.known = {p \in Providers : latency[p] # Cold}
      /\ \A i, j \in Targets : i < j => MayPrecede(order[i], order[j])
  BY DEF Resolve
<1>2. ASSUME policy = "latency-aware", NEW i \in Targets, NEW j \in Targets, i < j,
             Provider[order[i]] \notin q.known
      PROVE  Provider[order[j]] \notin q.known
  <2>1. order[i] \in Targets /\ order[j] \in Targets
    BY <1>1, OrderTypes
  <2>2. PICK a \in Targets, b \in Targets : a = order[i] /\ b = order[j]
    BY <2>1
  <2>3. Faster(a, b)
    BY <1>1, <1>2, <2>2 DEF MayPrecede
  <2>4. IsCold(a)
    BY <1>1, <1>2, <2>2, TargetTypes DEF IsCold
  <2>5. IsCold(b)
    BY <2>3, <2>4 DEF Faster, IsCold
  <2> QED BY <1>1, <2>2, <2>5 DEF IsCold
<1>3. ASSUME policy = "cost-aware", NEW i \in Targets, NEW j \in Targets, i < j
      PROVE  UnitCost(order[i]) <= UnitCost(order[j])
  <2>1. order[i] \in Targets /\ order[j] \in Targets
    BY <1>1, OrderTypes
  <2>2. Cheaper(order[i], order[j])
    BY <1>1, <1>3 DEF MayPrecede
  <2>3. UnitCost(order[i]) \in Nat /\ UnitCost(order[j]) \in Nat
    BY <2>1, TargetTypes
  <2> QED BY <2>2, <2>3 DEF Cheaper, Before
<1> QED BY <1>1, <1>2, <1>3 DEF ColdAfter, CostsRise

\* Whose samples are all below another's has the lower average.
LEMMA FasterIsLower ==
    ASSUME IInv, NEW p \in Providers, NEW o \in Providers, Took(p) # {}, Took(o) # {},
           \A ms \in Took(p), other \in Took(o) : ms < other
    PROVE  /\ latency[p] \in Nat /\ latency[o] \in Nat /\ latency[p] < latency[o]
           /\ latency[p] # Cold /\ latency[o] # Cold
<1>1. /\ latency[p] \in Nat /\ latency[o] \in Nat /\ Between(p) /\ Between(o)
  BY DEF IInv, Measured
<1>2. PICK hi \in Took(p) : latency[p] <= hi * Scale
  BY <1>1 DEF Between
<1>3. PICK lo \in Took(o) : lo * Scale <= latency[o]
  BY <1>1 DEF Between
<1>4. hi \in Nat /\ lo \in Nat /\ Scale \in Nat \ {0} /\ hi + 1 <= lo
  BY RoutingAssumption DEF Took
<1>5. hi * Scale < lo * Scale
  <2>1. (hi + 1) * Scale <= lo * Scale
    BY <1>4
  <2>2. (hi + 1) * Scale = hi * Scale + Scale
    BY <1>4
  <2>3. hi * Scale \in Nat /\ lo * Scale \in Nat
    BY <1>4
  <2> QED BY <1>4, <2>1, <2>2, <2>3
<1>6. hi * Scale \in Nat /\ lo * Scale \in Nat
  BY <1>4
<1> QED BY <1>1, <1>2, <1>3, <1>5, <1>6 DEF Cold

\* So it is put first.
LEMMA ArriveSortsByLatency ==
    ASSUME IInv, NEW r \in Requests, requests[r].at = 0, requests'[r].at # 0, Next,
           policy = "latency-aware", NEW i \in Targets, NEW j \in Targets,
           LET p == Provider[requests'[r].order[i]]
               q == Provider[requests'[r].order[j]]
           IN  /\ Took(p) # {} /\ Took(q) # {}
               /\ \A ms \in Took(p), other \in Took(q) : ms < other
    PROVE  i < j
<1>1. requests \in [Requests -> Request]
  BY DEF IInv, TypeOK
<1>2. PICK order \in Resolve : requests'[r].order = order
  <2>1. ASSUME NEW s \in Requests, Arrive(s) PROVE \E order \in Resolve : requests'[r].order = order
    <3>1. s = r
      BY <1>1, <2>1 DEF Arrive
    <3> QED BY <1>1, <2>1, <3>1 DEF Arrive
  <2>2. ASSUME NEW s \in Requests, Serve(s) \/ Abandon(s) PROVE FALSE
    <3>1. requests' = [requests EXCEPT ![s] = AtRest]
      BY <2>2 DEF Serve, Abandon, Over
    <3> QED BY <1>1, <3>1, AtRestTypes
  <2>3. ASSUME NEW s \in Requests, Advance(s) PROVE FALSE
    <3>1. CASE requests' = [requests EXCEPT ![s] = AtRest]
      BY <1>1, <3>1, AtRestTypes
    <3>2. CASE requests' = [requests EXCEPT ![s].at = @ + 1]
      <4>1. s # r
        BY <2>3 DEF Advance
      <4> QED BY <1>1, <3>2, <4>1
    <3> QED BY <2>3, <3>1, <3>2 DEF Advance, Over
  <2> QED BY <2>1, <2>2, <2>3 DEF Next
<1>3. /\ order \in Orders
      /\ \A m, n \in Targets : m < n => MayPrecede(order[m], order[n])
  BY DEF Resolve
<1>4. PICK a \in Targets, b \in Targets : a = order[i] /\ b = order[j]
  BY <1>3, OrderTypes
<1> DEFINE p == Provider[a]
           o == Provider[b]
<1>5. /\ p \in Providers /\ o \in Providers /\ Took(p) # {} /\ Took(o) # {}
      /\ \A ms \in Took(p), other \in Took(o) : ms < other
  BY <1>2, <1>4, TargetTypes
<1> HIDE DEF p, o
<1>6. /\ latency[p] \in Nat /\ latency[o] \in Nat /\ latency[p] < latency[o]
      /\ latency[p] # Cold /\ latency[o] # Cold
  BY <1>5, FasterIsLower
<1>7. ~ Faster(b, a)
  BY <1>6 DEF Faster, IsCold, Before, p, o
<1>8. ~ (j < i)
  BY <1>3, <1>4, <1>7 DEF MayPrecede
<1>9. i # j
  BY <1>4, <1>6 DEF p, o
<1> QED BY <1>8, <1>9, TargetTypes

-----------------------------------------------------------------------------
\* Every step keeps the invariant.

LEMMA InitInv == Init => IInv
<1> SUFFICES ASSUME Init PROVE IInv
  OBVIOUS
<1>1. TypeOK
  BY AtRestTypes DEF Init, TypeOK
<1>2. Measured
  BY DEF Init, Measured, Took
<1>3. Sorted
  BY AtRestTypes DEF Init, Sorted
<1> QED BY <1>1, <1>2, <1>3 DEF IInv

\* A request that goes back to rest, or on in its order.
LEMMA OverKeeps ==
    ASSUME IInv, NEW r \in Requests, Over(r), policy' = policy
    PROVE  requests' \in [Requests -> Request] /\ Sorted'
<1>1. requests \in [Requests -> Request] /\ requests' = [requests EXCEPT ![r] = AtRest]
  BY DEF IInv, TypeOK, Over
<1>2. requests' \in [Requests -> Request]
  BY <1>1, AtRestTypes
<1>3. \A s \in Requests : requests'[s] = IF s = r THEN AtRest ELSE requests[s]
  BY <1>1
<1> QED BY <1>2, <1>3, AtRestTypes DEF IInv, Sorted

LEMMA ArriveStep == ASSUME IInv, NEW r \in Requests, Arrive(r) PROVE IInv'
<1>1. PICK order \in Resolve : requests' = [requests EXCEPT ![r] =
         [order |-> order, at |-> 1, known |-> {p \in Providers : latency[p] # Cold}]]
  BY DEF Arrive
<1>2. PICK q : q = [order |-> order, at |-> 1, known |-> {p \in Providers : latency[p] # Cold}]
  OBVIOUS
<1>3. q \in Request
  BY <1>2, TargetTypes DEF Request, Resolve
<1>4. requests \in [Requests -> Request] /\ requests' = [requests EXCEPT ![r] = q]
  BY <1>1, <1>2 DEF IInv, TypeOK
<1>5. UNCHANGED <<policy, latency, observed>>
  BY DEF Arrive
<1>6. TypeOK'
  BY <1>3, <1>4, <1>5 DEF IInv, TypeOK
<1>7. Measured'
  BY <1>5 DEF IInv, Measured, Between, Took
<1>8. /\ policy = "latency-aware" => ColdAfter(q)
      /\ policy = "cost-aware" => CostsRise(q)
  BY <1>2, ResolvedIsSorted DEF IInv
<1>9. Sorted'
  <2>1. \A s \in Requests : requests'[s] = IF s = r THEN q ELSE requests[s]
    BY <1>4
  <2> QED BY <1>5, <1>8, <2>1 DEF IInv, Sorted
<1> QED BY <1>6, <1>7, <1>9 DEF IInv

LEMMA AdvanceStep == ASSUME IInv, NEW r \in Requests, Advance(r) PROVE IInv'
<1>1. UNCHANGED <<policy, latency, observed>> /\ requests \in [Requests -> Request]
  BY DEF Advance, IInv, TypeOK
<1>2. Measured'
  BY <1>1 DEF IInv, Measured, Between, Took
<1>3. CASE Over(r)
  BY <1>1, <1>2, <1>3, OverKeeps DEF IInv, TypeOK
<1>4. CASE requests[r].at + 1 \in Targets /\ requests' = [requests EXCEPT ![r].at = @ + 1]
  <2>1. PICK q \in Request : q = [requests[r] EXCEPT !.at = @ + 1]
    <3>1. PICK old \in Request : old = requests[r]
      BY <1>1
    <3>2. [old EXCEPT !.at = @ + 1] \in Request
      BY <1>4, <3>1 DEF Request
    <3> QED BY <3>1, <3>2
  <2>2. requests' = [requests EXCEPT ![r] = q]
    BY <1>4, <2>1
  <2>3. q.order = requests[r].order /\ q.known = requests[r].known
    BY <1>1, <2>1 DEF Request
  <2>4. \A s \in Requests : requests'[s] = IF s = r THEN q ELSE requests[s]
    BY <1>1, <2>2
  <2>5. requests[r].at # 0
    BY DEF Advance
  <2>6. /\ policy = "latency-aware" => ColdAfter(q)
        /\ policy = "cost-aware" => CostsRise(q)
    BY <2>3, <2>5 DEF IInv, Sorted, ColdAfter, CostsRise
  <2>7. Sorted'
    BY <1>1, <2>4, <2>6 DEF IInv, Sorted
  <2>8. TypeOK'
    BY <1>1, <2>2 DEF IInv, TypeOK
  <2> QED BY <1>2, <2>7, <2>8 DEF IInv
<1> QED BY <1>3, <1>4 DEF Advance

LEMMA AbandonStep == ASSUME IInv, NEW r \in Requests, Abandon(r) PROVE IInv'
<1>1. UNCHANGED <<policy, latency, observed>> /\ Over(r)
  BY DEF Abandon
<1>2. Measured'
  BY <1>1 DEF IInv, Measured, Between, Took
<1> QED BY <1>1, <1>2, OverKeeps DEF IInv, TypeOK

\* A sample is added to those of its provider.
LEMMA SampleNoted ==
    ASSUME TypeOK, NEW p \in Providers, NEW ms \in Latencies,
           observed' = [observed EXCEPT ![p][ms] = @ + 1]
    PROVE  /\ observed' \in [Providers -> [Latencies -> Nat]]
           /\ Took(p)' = Took(p) \cup {ms}
           /\ \A o \in Providers : o # p => Took(o)' = Took(o)
<1>1. observed \in [Providers -> [Latencies -> Nat]]
  BY DEF TypeOK
<1>2. PICK f \in [Latencies -> Nat] : f = observed[p]
  BY <1>1
<1>3. PICK g \in [Latencies -> Nat] : g = [f EXCEPT ![ms] = @ + 1]
  <2>1. [f EXCEPT ![ms] = @ + 1] \in [Latencies -> Nat]
    OBVIOUS
  <2> QED BY <2>1
<1>4. observed' = [observed EXCEPT ![p] = g]
  BY <1>2, <1>3
<1>5. observed' \in [Providers -> [Latencies -> Nat]] /\ observed'[p] = g
  BY <1>1, <1>4
<1>6. \A x \in Latencies : g[x] > 0 <=> f[x] > 0 \/ x = ms
  BY <1>3
<1>7. Took(p)' = Took(p) \cup {ms}
  BY <1>2, <1>5, <1>6 DEF Took
<1>8. \A o \in Providers : o # p => Took(o)' = Took(o)
  BY <1>1, <1>4 DEF Took
<1> QED BY <1>5, <1>7, <1>8

\* The average stays between two samples, the new one being one of them or not.
LEMMA SampleMeasured ==
    ASSUME IInv, NEW p \in Providers, NEW ms \in Latencies,
           Took(p)' = Took(p) \cup {ms}, latency'[p] = Smoothed(latency[p], ms)
    PROVE  latency'[p] \in Nat /\ Between(p)'
<1>1. ms \in Nat /\ Scale \in Nat /\ ms * Scale \in Nat
  <2>1. ms \in Nat /\ Scale \in Nat
    BY RoutingAssumption
  <2> QED BY <2>1
<1>2. CASE Took(p) = {}
  <2>1. latency'[p] = ms * Scale
    BY <1>2 DEF IInv, Measured, Smoothed
  <2> QED BY <1>1, <2>1 DEF Between
<1>3. CASE Took(p) # {}
  <2>1. PICK lo \in Took(p), hi \in Took(p) :
           lo * Scale <= latency[p] /\ latency[p] <= hi * Scale
    BY <1>3 DEF IInv, Measured, Between
  <2>2. latency[p] \in Nat /\ lo \in Nat /\ hi \in Nat
    BY <1>3, RoutingAssumption DEF IInv, Measured, Took
  <2>3. PICK l \in Took(p) \cup {ms} : l \in Nat /\ l <= lo /\ l <= ms
    <3>1. CASE lo <= ms
      BY <2>2, <3>1
    <3>2. CASE ms <= lo
      BY <1>1, <3>2
    <3> QED BY <1>1, <2>2, <3>1, <3>2
  <2>4. PICK h \in Took(p) \cup {ms} : h \in Nat /\ hi <= h /\ ms <= h
    <3>1. CASE ms <= hi
      BY <2>2, <3>1
    <3>2. CASE hi <= ms
      BY <1>1, <3>2
    <3> QED BY <1>1, <2>2, <3>1, <3>2
  <2>5. l * Scale <= latency[p] /\ latency[p] <= h * Scale
    <3>1. l * Scale <= lo * Scale /\ hi * Scale <= h * Scale
      BY <1>1, <2>2, <2>3, <2>4
    <3>2. /\ l * Scale \in Nat /\ lo * Scale \in Nat
          /\ hi * Scale \in Nat /\ h * Scale \in Nat
      BY <1>1, <2>2, <2>3, <2>4
    <3> QED BY <2>1, <2>2, <3>1, <3>2
  <2>6. /\ Smoothed(latency[p], ms) \in Nat
        /\ l * Scale <= Smoothed(latency[p], ms) /\ Smoothed(latency[p], ms) <= h * Scale
    BY <1>1, <2>2, <2>3, <2>4, <2>5, SmoothedBounds
  <2> QED BY <2>3, <2>4, <2>6 DEF Between
<1> QED BY <1>2, <1>3

LEMMA ServeStep == ASSUME IInv, NEW r \in Requests, Serve(r) PROVE IInv'
<1>1. PICK p \in Providers : p = Current(r)
  <2>1. PICK q \in Request : q = requests[r]
    BY DEF IInv, TypeOK
  <2>2. q.order \in Orders /\ q.at \in Targets
    BY <2>1 DEF Request, Serve
  <2>3. q.order[q.at] \in Targets
    BY <2>2, OrderTypes
  <2> QED BY <2>1, <2>3, TargetTypes DEF Current
<1>2. PICK ms \in Latencies : /\ latency' = [latency EXCEPT ![p] = Smoothed(@, ms)]
                               /\ observed' = [observed EXCEPT ![p][ms] = @ + 1]
  BY <1>1 DEF Serve
<1>3. policy' = policy /\ Over(r) /\ TypeOK
  BY DEF Serve, IInv
<1>4. /\ observed' \in [Providers -> [Latencies -> Nat]]
      /\ Took(p)' = Took(p) \cup {ms}
      /\ \A o \in Providers : o # p => Took(o)' = Took(o)
  BY <1>1, <1>2, <1>3, SampleNoted
<1>5. /\ latency \in [Providers -> Nat \cup {Cold}]
      /\ latency'[p] = Smoothed(latency[p], ms)
      /\ \A o \in Providers : o # p => latency'[o] = latency[o]
  BY <1>1, <1>2, <1>3 DEF TypeOK
<1>6. latency'[p] \in Nat /\ Between(p)'
  BY <1>1, <1>4, <1>5, SampleMeasured
<1>7. latency' \in [Providers -> Nat \cup {Cold}]
  BY <1>1, <1>2, <1>5, <1>6
<1>8. Measured'
  <2>1. ASSUME NEW o \in Providers
        PROVE  /\ Took(o)' = {} => latency'[o] = Cold
               /\ Took(o)' # {} => latency'[o] \in Nat /\ Between(o)'
    <3>1. CASE o = p
      <4>1. Took(o)' # {} /\ latency'[o] \in Nat /\ Between(o)'
        BY <1>4, <1>6, <3>1
      <4> QED BY <4>1
    <3>2. CASE o # p
      <4>1. Took(o)' = Took(o) /\ latency'[o] = latency[o]
        BY <1>4, <1>5, <3>2
      <4>2. Between(o) => Between(o)'
        BY <4>1 DEF Between
      <4> QED BY <4>1, <4>2 DEF IInv, Measured
    <3> QED BY <3>1, <3>2
  <2> QED BY <2>1 DEF Measured
<1>9. requests' \in [Requests -> Request] /\ Sorted'
  BY <1>3, OverKeeps
<1>10. TypeOK'
  BY <1>3, <1>4, <1>7, <1>9 DEF TypeOK
<1> QED BY <1>8, <1>9, <1>10 DEF IInv

LEMMA NextInv == IInv /\ [Next]_vars => IInv'
<1> SUFFICES ASSUME IInv, [Next]_vars PROVE IInv'
  OBVIOUS
<1>1. ASSUME NEW r \in Requests, Arrive(r) \/ Serve(r) \/ Advance(r) \/ Abandon(r) PROVE IInv'
  BY <1>1, ArriveStep, ServeStep, AdvanceStep, AbandonStep
<1>2. CASE UNCHANGED vars
  <2>1. UNCHANGED <<policy, latency, observed, requests>>
    BY <1>2 DEF vars
  <2> QED BY <2>1 DEF IInv, TypeOK, Measured, Between, Took, Sorted
<1> QED BY <1>1, <1>2 DEF Next

\* The invariant holds of every behaviour.
THEOREM Inductive == Spec => []IInv
BY InitInv, NextInv, PTL DEF Spec

-----------------------------------------------------------------------------
\* What a policy resolves to.

\* All policies but the draw put any two targets in one order or the other, and
\* never contradict themselves.
LEMMA MayPrecedeStrict ==
    ASSUME TypeOK, policy # "weighted"
    PROVE  \A a, b, c \in Targets :
              /\ ~ MayPrecede(a, a)
              /\ a # b => MayPrecede(a, b) \/ MayPrecede(b, a)
              /\ MayPrecede(a, b) => ~ MayPrecede(b, a)
              /\ MayPrecede(a, b) /\ MayPrecede(b, c) => MayPrecede(a, c)
<1> SUFFICES ASSUME NEW a \in Targets, NEW b \in Targets, NEW c \in Targets
             PROVE  /\ ~ MayPrecede(a, a)
                    /\ a # b => MayPrecede(a, b) \/ MayPrecede(b, a)
                    /\ MayPrecede(a, b) => ~ MayPrecede(b, a)
                    /\ MayPrecede(a, b) /\ MayPrecede(b, c) => MayPrecede(a, c)
  OBVIOUS
<1>1. a \in Int /\ b \in Int /\ c \in Int
  BY TargetTypes
<1>2. CASE policy = "priority"
  BY <1>1, <1>2 DEF MayPrecede
<1>3. CASE policy = "cost-aware"
  <2>1. PICK x \in Int, y \in Int, z \in Int : x = UnitCost(a) /\ y = UnitCost(b) /\ z = UnitCost(c)
    BY TargetTypes
  <2>2. \A s, t \in Targets : MayPrecede(s, t) <=> Cheaper(s, t)
    BY <1>3 DEF MayPrecede
  <2>3. /\ Cheaper(a, b) <=> Before(x, y, a, b)
        /\ Cheaper(b, a) <=> Before(y, x, b, a)
        /\ Cheaper(a, a) <=> Before(x, x, a, a)
        /\ Cheaper(b, c) <=> Before(y, z, b, c)
        /\ Cheaper(a, c) <=> Before(x, z, a, c)
    BY <2>1 DEF Cheaper
  <2> QED BY <1>1, <2>2, <2>3 DEF Before
<1>4. CASE policy = "latency-aware"
  <2>1. \A t \in Targets : latency[Provider[t]] \in Int
    BY TargetTypes DEF TypeOK, Cold
  <2>2. PICK x \in Int, y \in Int, z \in Int :
           x = latency[Provider[a]] /\ y = latency[Provider[b]] /\ z = latency[Provider[c]]
    BY <2>1
  <2>3. \A s, t \in Targets : MayPrecede(s, t) <=> Faster(s, t)
    BY <1>4 DEF MayPrecede
  <2> DEFINE faster(u, v, s, t) ==
                \/ u # Cold /\ v = Cold
                \/ (u = Cold <=> v = Cold) /\ (u < v \/ (u = v /\ s < t))
  <2>4. /\ Faster(a, b) <=> faster(x, y, a, b)
        /\ Faster(b, a) <=> faster(y, x, b, a)
        /\ Faster(a, a) <=> faster(x, x, a, a)
        /\ Faster(b, c) <=> faster(y, z, b, c)
        /\ Faster(a, c) <=> faster(x, z, a, c)
    BY <2>2 DEF Faster, IsCold, Before
  <2> QED BY <1>1, <2>3, <2>4
<1> QED BY <1>2, <1>3, <1>4 DEF TypeOK, Policies

\* The targets that precede one, and its place in the order.
Behind(t) == {u \in Targets : MayPrecede(u, t)}

Rank == [t \in Targets |-> Cardinality(Behind(t)) + 1]

\* Each target has a place of its own, and those that precede it an earlier one.
LEMMA RankIsPlace ==
    ASSUME TypeOK, policy # "weighted"
    PROVE  /\ Rank \in [Targets -> Targets]
           /\ \A a, b \in Targets : MayPrecede(a, b) <=> Rank[a] < Rank[b]
           /\ \A a, b \in Targets : Rank[a] = Rank[b] => a = b
<1>1. IsFiniteSet(Targets) /\ Targets = 1 .. Cardinality(Targets) /\ Cardinality(Targets) \in Nat
  BY RoutingAssumption, FS_CardinalityType
<1>2. ASSUME NEW t \in Targets
      PROVE  /\ IsFiniteSet(Behind(t)) /\ Cardinality(Behind(t)) \in Nat
             /\ Cardinality(Behind(t)) < Cardinality(Targets)
  <2>1. Behind(t) \in SUBSET Targets /\ Behind(t) # Targets
    BY MayPrecedeStrict DEF Behind
  <2>2. IsFiniteSet(Behind(t)) /\ Cardinality(Behind(t)) \in Nat
    BY <1>1, <2>1, FS_Subset, FS_CardinalityType
  <2>3. /\ Cardinality(Behind(t)) <= Cardinality(Targets)
        /\ Cardinality(Behind(t)) # Cardinality(Targets)
    BY <1>1, <2>1, FS_Subset
  <2> QED BY <1>1, <2>2, <2>3
<1>3. Rank \in [Targets -> Targets]
  <2> SUFFICES ASSUME NEW t \in Targets PROVE Cardinality(Behind(t)) + 1 \in Targets
    BY DEF Rank
  <2>1. PICK n \in Nat, k \in Nat : n = Cardinality(Targets) /\ k = Cardinality(Behind(t)) /\ k < n
    BY <1>1, <1>2
  <2>2. k + 1 \in 1 .. n
    BY <2>1
  <2> QED BY <1>1, <2>1, <2>2
<1>4. ASSUME NEW a \in Targets, NEW b \in Targets, MayPrecede(a, b)
      PROVE  Rank[a] < Rank[b]
  <2>1. Behind(a) \in SUBSET Behind(b) /\ a \in Behind(b) /\ a \notin Behind(a)
    BY <1>4, MayPrecedeStrict DEF Behind
  <2>2. /\ Cardinality(Behind(a)) <= Cardinality(Behind(b))
        /\ Cardinality(Behind(a)) # Cardinality(Behind(b))
    BY <1>2, <2>1, FS_Subset
  <2>3. Cardinality(Behind(a)) \in Nat /\ Cardinality(Behind(b)) \in Nat
    BY <1>2
  <2> QED BY <2>2, <2>3 DEF Rank
<1>5. \A t \in Targets : Rank[t] \in Nat
  BY <1>3, TargetTypes
<1>6. ASSUME NEW a \in Targets, NEW b \in Targets, ~ MayPrecede(a, b)
      PROVE  Rank[b] <= Rank[a] /\ (Rank[a] = Rank[b] => a = b)
  <2>1. CASE a = b
    BY <1>5, <2>1
  <2>2. CASE a # b
    <3>1. Rank[b] < Rank[a]
      BY <1>4, <1>6, <2>2, MayPrecedeStrict
    <3> QED BY <1>5, <3>1
  <2> QED BY <2>1, <2>2
<1>7. \A a, b \in Targets : MayPrecede(a, b) <=> Rank[a] < Rank[b]
  BY <1>4, <1>5, <1>6
<1>8. \A a, b \in Targets : Rank[a] = Rank[b] => a = b
  BY <1>4, <1>5, <1>6
<1> QED BY <1>3, <1>7, <1>8

\* An injection of the targets into themselves leaves none out.
LEMMA AllPlacesTaken ==
    ASSUME NEW f \in [Targets -> Targets], \A a, b \in Targets : f[a] = f[b] => a = b
    PROVE  \A i \in Targets : \E t \in Targets : f[t] = i
<1>1. f \in Injection(Targets, Targets)
  BY DEF Injection, IsInjective
<1>2. f \in Surjection(Targets, Targets)
  BY <1>1, RoutingAssumption, FS_Injection
<1> QED BY <1>2 DEF Surjection

\* An order that is resolved has each target at its place.
LEMMA ResolvedAtItsPlace ==
    ASSUME TypeOK, policy # "weighted", NEW order \in Resolve, NEW i \in Targets
    PROVE  Rank[order[i]] = i
<1>1. /\ order \in [Targets -> Targets]
      /\ \A j, k \in Targets : order[j] = order[k] => j = k
      /\ \A j, k \in Targets : j < k => MayPrecede(order[j], order[k])
  BY DEF Resolve, Orders
<1>2. \A u \in Targets : \E j \in Targets : order[j] = u
  BY <1>1, AllPlacesTaken
<1>3. Targets = 1 .. Cardinality(Targets) /\ Cardinality(Targets) \in Nat /\ i \in Nat /\ i >= 1
  BY RoutingAssumption, FS_CardinalityType
<1>4. 1 .. i - 1 \subseteq Targets /\ \A j \in Targets : j < i <=> j \in 1 .. i - 1
  BY <1>3
<1>5. Behind(order[i]) = {order[j] : j \in 1 .. i - 1}
  <2>1. ASSUME NEW j \in 1 .. i - 1 PROVE order[j] \in Behind(order[i])
    BY <1>1, <1>4, <2>1 DEF Behind
  <2>2. ASSUME NEW u \in Behind(order[i]) PROVE \E j \in 1 .. i - 1 : u = order[j]
    <3>1. u \in Targets /\ MayPrecede(u, order[i])
      BY DEF Behind
    <3>2. PICK j \in Targets : order[j] = u
      BY <1>2, <3>1
    <3>3. j # i
      BY <1>1, <3>1, <3>2, MayPrecedeStrict
    <3>4. ~ (i < j)
      BY <1>1, <3>1, <3>2, MayPrecedeStrict
    <3>5. j < i
      <4>1. i \in Int /\ j \in Int
        BY TargetTypes
      <4> QED BY <3>3, <3>4, <4>1
    <3> QED BY <1>4, <3>2, <3>5
  <2> QED BY <2>1, <2>2
<1>6. Cardinality(Behind(order[i])) = i - 1
  <2> DEFINE S == 1 .. i - 1
             g == [j \in S |-> order[j]]
  <2>1. g \in Bijection(S, Behind(order[i]))
    <3>1. /\ g \in [S -> Behind(order[i])]
          /\ \A u \in Behind(order[i]) : \E j \in S : g[j] = u
      BY <1>5
    <3>2. \A j, k \in S : g[j] = g[k] => j = k
      BY <1>1, <1>4
    <3> HIDE DEF g, S
    <3> QED BY <3>1, <3>2 DEF Bijection, Injection, IsInjective, Surjection
  <2>2. IsFiniteSet(S) /\ Cardinality(S) = i - 1
    <3>1. i \in Nat /\ i >= 1
      BY <1>3, Zenon
    <3>2. PICK n \in Int : n = i - 1 /\ ~ (1 > n + 1) /\ (1 > n => n = 0)
      BY <3>1
    <3>3. IsFiniteSet(1 .. n) /\ Cardinality(1 .. n) = IF 1 > n THEN 0 ELSE n - 1 + 1
      BY FS_Interval
    <3> QED BY <3>2, <3>3
  <2>3. ExistsBijection(S, Behind(order[i]))
    BY <2>1 DEF ExistsBijection
  <2> QED BY <2>2, <2>3, FS_Bijection
<1> QED BY <1>1, <1>3, <1>6 DEF Rank

\* So there is one such order.
LEMMA ResolvedOnce ==
    ASSUME TypeOK, policy # "weighted"
    PROVE  \E order \in Orders : Resolve = {order}
<1>1. /\ Rank \in [Targets -> Targets]
      /\ \A a, b \in Targets : MayPrecede(a, b) <=> Rank[a] < Rank[b]
      /\ \A a, b \in Targets : Rank[a] = Rank[b] => a = b
  BY RankIsPlace
<1>2. \A i \in Targets : \E t \in Targets : Rank[t] = i
  BY <1>1, AllPlacesTaken
<1> DEFINE placed == [i \in Targets |-> CHOOSE t \in Targets : Rank[t] = i]
<1>3. /\ placed \in [Targets -> Targets]
      /\ \A i \in Targets : Rank[placed[i]] = i
  BY <1>2
<1> HIDE DEF placed
<1>4. placed \in Orders
  BY <1>3 DEF Orders
<1>5. placed \in Resolve
  BY <1>1, <1>3, <1>4 DEF Resolve
<1>6. ASSUME NEW order \in Resolve PROVE order = placed
  <2>1. order \in [Targets -> Targets]
    BY DEF Resolve, Orders
  <2>2. \A i \in Targets : Rank[order[i]] = Rank[placed[i]]
    BY <1>3, ResolvedAtItsPlace
  <2>3. \A i \in Targets : order[i] = placed[i]
    BY <1>1, <1>3, <2>1, <2>2
  <2> QED BY <1>3, <2>1, <2>3
<1>7. Resolve = {placed}
  BY <1>5, <1>6
<1> QED BY <1>4, <1>7

\* The draw may leave everything as configured.
LEMMA DrawnAsConfigured ==
    ASSUME policy = "weighted"
    PROVE  AtRest.order \in Resolve
<1>1. [t \in Targets |-> t] \in Orders
  BY DEF Orders
<1>2. \A i, j \in Targets : i < j => MayPrecede(i, j)
  BY DEF MayPrecede, MayBeDrawn
<1> QED BY <1>1, <1>2 DEF AtRest, Resolve

-----------------------------------------------------------------------------
\* The theorems.

\* An order stays a permutation of the targets, and whose turn it is one of them.
THEOREM TypeCorrect == Spec => []TypeOK
<1>1. IInv => TypeOK
  BY DEF IInv
<1> QED BY <1>1, Inductive, PTL

\* A provider nobody has measured is a fallback only, however long the requests
\* that walk an older order take.
THEOREM ColdLast == Spec => []ColdIsLast
<1>1. IInv => ColdIsLast
  <2> SUFFICES ASSUME IInv, NEW r \in Requests, policy = "latency-aware", requests[r].at # 0,
                      Current(r) \notin requests[r].known, NEW j \in Targets, j > requests[r].at
               PROVE  Provider[requests[r].order[j]] \notin requests[r].known
    BY DEF ColdIsLast
  <2>1. requests[r].at \in Targets
    BY DEF IInv, TypeOK, Request
  <2>2. requests[r].at < j
    BY <2>1, TargetTypes
  <2> QED BY <2>1, <2>2 DEF IInv, Sorted, ColdAfter, Current
<1> QED BY <1>1, Inductive, PTL

\* Cost-aware routing has a paid target only after all that cost less.
THEOREM CheapFirst == Spec => []CheaperTriedFirst
<1>1. IInv => CheaperTriedFirst
  <2> SUFFICES ASSUME IInv, NEW r \in Requests, policy = "cost-aware", requests[r].at # 0,
                      NEW j \in Targets, j > requests[r].at,
                      Price[requests[r].order[requests[r].at]] \notin {Unpriced, 0}
               PROVE  /\ Price[requests[r].order[j]] # Unpriced
                      /\ Price[requests[r].order[requests[r].at]] <= Price[requests[r].order[j]]
    BY DEF CheaperTriedFirst
  <2>1. requests[r].at \in Targets /\ requests[r].order \in Orders
    BY DEF IInv, TypeOK, Request
  <2>2. PICK t \in Targets, u \in Targets :
           t = requests[r].order[requests[r].at] /\ u = requests[r].order[j]
    BY <2>1, OrderTypes
  <2>3. requests[r].at < j
    BY <2>1, TargetTypes
  <2>4. UnitCost(t) <= UnitCost(u)
    BY <2>1, <2>2, <2>3 DEF IInv, Sorted, CostsRise
  <2>5. Price[t] \in Nat /\ Price[t] # 0 /\ Price[t] # Unpriced
    BY <2>2, RoutingAssumption
  <2>6. UnitCost(t) = 2 * Price[t]
    BY <2>5 DEF UnitCost
  <2>7. Price[u] # Unpriced
    BY <2>4, <2>5, <2>6 DEF UnitCost
  <2>8. Price[u] \in Nat /\ UnitCost(u) = 2 * Price[u]
    BY <2>7, RoutingAssumption DEF UnitCost
  <2> QED BY <2>2, <2>4, <2>5, <2>6, <2>7, <2>8
<1> QED BY <1>1, Inductive, PTL

\* Whatever the smoothing, a provider that was always faster than another is put
\* before it.
THEOREM FasterFirst == Spec => FasterComesFirst
<1>1. IInv /\ [Next]_vars =>
        [\A r \in Requests : requests[r].at = 0 /\ requests'[r].at # 0 /\ policy = "latency-aware" =>
          \A i, j \in Targets :
             LET p == Provider[requests'[r].order[i]]
                 q == Provider[requests'[r].order[j]]
             IN  /\ Took(p) # {} /\ Took(q) # {}
                 /\ \A ms \in Took(p), other \in Took(q) : ms < other
                 => i < j]_vars
  BY ArriveSortsByLatency
<1> QED BY <1>1, Inductive, PTL DEF Spec, FasterComesFirst
\* Whatever is configured and has been measured, resolve has an answer: an order
\* that names every target of the route once.
THEOREM AlwaysResolves == Spec => [](Resolve # {})
<1>1. IInv => Resolve # {}
  BY ResolvedOnce, DrawnAsConfigured DEF IInv
<1> QED BY <1>1, Inductive, PTL

\* Unless it draws by weight, it has one answer only: two requests that come with
\* the same averages in place walk the same order, ties and cold targets included.
THEOREM ResolvesToOne ==
    Spec => [](policy # "weighted" => \E order \in Orders : Resolve = {order})
<1>1. IInv => (policy # "weighted" => \E order \in Orders : Resolve = {order})
  BY ResolvedOnce DEF IInv
<1> QED BY <1>1, Inductive, PTL
=============================================================================
