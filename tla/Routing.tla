------------------------------- MODULE Routing -------------------------------
(***************************************************************************)
(* Routing and its feedback (gateway/routing, and the samples that         *)
(* resilience/retry.py records): an alias's targets are put in order by a  *)
(* policy when a request arrives, the executor walks that order, and the   *)
(* latency of the call that served goes into the signal that orders the    *)
(* targets of later requests.  Requests overlap: an order may be old when  *)
(* it is walked, and samples arrive as calls end.                          *)
(*                                                                         *)
(* Executor.tla says when a target fails or is skipped; here either may    *)
(* happen at any target.  Averages are kept exact, in units of 1/Scale.    *)
(***************************************************************************)
EXTENDS Integers, FiniteSetsExt

CONSTANTS
    Requests,   \* requests for the alias; each comes again and again
    Providers,
    Provider,   \* target (1 .. N, as configured) -> its provider
    Weight,     \* target -> its weight
    Price,      \* target -> the list price of its model
    Unpriced,   \* the "price" of a model the price book does not have
    Latencies,  \* what a call may take
    AlphaNum, AlphaDen,     \* the weight of a new sample, 0.3
    MaxSamples, \* bound: the samples of a provider
    Scale       \* AlphaDen ^ (MaxSamples - 1)

Targets == DOMAIN Provider

ASSUME RoutingAssumption ==
    /\ IsFiniteSet(Targets) /\ Targets = 1 .. Cardinality(Targets) /\ Targets # {}
    /\ Provider \in [Targets -> Providers]
    /\ Weight \in [Targets -> Nat] /\ Price \in [Targets -> Nat \cup {Unpriced}]
    /\ Unpriced \notin Nat
    /\ Latencies \subseteq Nat \ {0}
    /\ AlphaNum \in Nat /\ AlphaDen \in Nat /\ 0 < AlphaNum /\ AlphaNum <= AlphaDen
    /\ MaxSamples \in Nat \ {0}
    /\ Scale \in Nat \ {0} /\ Scale = AlphaDen ^ (MaxSamples - 1)

VARIABLES
    policy,     \* the alias's policy
    latency,    \* provider -> its smoothed latency, or Cold
    observed,   \* history: provider -> the samples it has had, as a bag
    requests    \* request -> where it stands

vars == <<policy, latency, observed, requests>>

Cold == -1

Policies == {"priority", "weighted", "latency-aware", "cost-aware"}

Orders == {order \in [Targets -> Targets] :
             \A i, j \in Targets : i # j => order[i] # order[j]}

\* at: the position in order of the target whose turn it is, 0 for none.
\* known: the providers that had a sample when order was made.
Request == [order : Orders, at : Targets \cup {0}, known : SUBSET Providers]

AtRest == [order |-> [t \in Targets |-> t], at |-> 0, known |-> {}]

TypeOK ==
    /\ policy \in Policies
    /\ latency \in [Providers -> Nat \cup {Cold}]
    /\ observed \in [Providers -> [Latencies -> Nat]]
    /\ requests \in [Requests -> Request]

Init ==
    /\ policy \in Policies
    /\ latency = [p \in Providers |-> Cold]
    /\ observed = [p \in Providers |-> [ms \in Latencies |-> 0]]
    /\ requests = [r \in Requests |-> AtRest]

-----------------------------------------------------------------------------
\* The policies: may target a come before target b?

UnitCostUnknownLast(t) ==               \* mutant: a model without a price is taken for dear
    IF Price[t] = Unpriced THEN 1 + Max({0} \cup {2 * Price[u] : u \in {v \in Targets : Price[v] # Unpriced}})
    ELSE 2 * Price[t]

\* unit_cost: one input and one output token; a model without a price is free.
UnitCost(t) == IF Price[t] = Unpriced THEN 0 ELSE 2 * Price[t]

IsCold(t) == latency[Provider[t]] = Cold

\* The sort by a key, which leaves ties as configured.
Before(keyA, keyB, a, b) == keyA < keyB \/ (keyA = keyB /\ a < b)

FasterByValue(a, b) ==                  \* mutant: no flag for the sampled
    Before(latency[Provider[a]], latency[Provider[b]], a, b)

\* Targets that have a sample come first.
Faster(a, b) ==
    \/ ~ IsCold(a) /\ IsCold(b)
    \/ IsCold(a) = IsCold(b) /\ Before(latency[Provider[a]], latency[Provider[b]], a, b)

Cheaper(a, b) == Before(UnitCost(a), UnitCost(b), a, b)

\* A draw from 0 to the total, ends included, hits the first of those that
\* remain or one that has weight.
MayBeDrawn(a, b) == Weight[a] > 0 \/ a < b

MayPrecede(a, b) ==
    CASE policy = "priority"      -> a < b
      [] policy = "weighted"      -> MayBeDrawn(a, b)
      [] policy = "latency-aware" -> Faster(a, b)
      [] policy = "cost-aware"    -> Cheaper(a, b)

\* Router.resolve: the orders it may return.
Resolve == {order \in Orders :
              \A i, j \in Targets : i < j => MayPrecede(order[i], order[j])}

-----------------------------------------------------------------------------
\* The signal.

SmoothedFromZero(prev, ms) ==           \* mutant: the first sample does not seed it
    (AlphaNum * ms * Scale + (AlphaDen - AlphaNum) * (IF prev = Cold THEN 0 ELSE prev)) \div AlphaDen

\* record_latency
Smoothed(prev, ms) ==
    IF prev = Cold THEN ms * Scale
    ELSE (AlphaNum * ms * Scale + (AlphaDen - AlphaNum) * prev) \div AlphaDen

Samples(p) == MapThenSumSet(LAMBDA ms : observed[p][ms], Latencies)

-----------------------------------------------------------------------------
\* A request

Current(r) == Provider[requests[r].order[requests[r].at]]

Over(r) == requests' = [requests EXCEPT ![r] = AtRest]

Arrive(r) ==
    /\ requests[r].at = 0
    /\ \E order \in Resolve :
          requests' = [requests EXCEPT ![r] =
             [order |-> order, at |-> 1, known |-> {p \in Providers : latency[p] # Cold}]]
    /\ UNCHANGED <<policy, latency, observed>>

\* The target answers, or the first chunk of its stream is there.
Serve(r) ==
    /\ requests[r].at # 0
    /\ Samples(Current(r)) < MaxSamples
    /\ \E ms \in Latencies :
          /\ latency' = [latency EXCEPT ![Current(r)] = Smoothed(@, ms)]
          /\ observed' = [observed EXCEPT ![Current(r)][ms] = @ + 1]
    /\ Over(r)
    /\ UNCHANGED policy

\* The target fails or is skipped; nothing is recorded of what that took.
Advance(r) ==
    /\ requests[r].at # 0
    /\ IF requests[r].at + 1 \in Targets THEN requests' = [requests EXCEPT ![r].at = @ + 1]
       ELSE Over(r)
    /\ UNCHANGED <<policy, latency, observed>>

\* The provider calls the request bad, or the deadline has passed.
Abandon(r) ==
    /\ requests[r].at # 0
    /\ Over(r)
    /\ UNCHANGED <<policy, latency, observed>>

Next == \E r \in Requests : Arrive(r) \/ Serve(r) \/ Advance(r) \/ Abandon(r)

Spec == Init /\ [][Next]_vars

-----------------------------------------------------------------------------
\* Properties.

Took(p) == {ms \in Latencies : observed[p][ms] > 0}

\* Whatever the order in which overlapping calls ended, a provider all of whose
\* calls took less than all of another's is put before it.
FasterComesFirst ==
    [][\A r \in Requests : requests[r].at = 0 /\ requests'[r].at # 0 /\ policy = "latency-aware" =>
          \A i, j \in Targets :
             LET p == Provider[requests'[r].order[i]]
                 q == Provider[requests'[r].order[j]]
             IN  /\ Took(p) # {} /\ Took(q) # {}
                 /\ \A ms \in Took(p), other \in Took(q) : ms < other
                 => i < j]_vars

\* A provider that had no sample is a fallback only: its turn comes when every
\* target that had one has failed or was skipped.  (So it gets no sample either
\* as long as one of these serves.)
ColdIsLast ==
    \A r \in Requests :
        policy = "latency-aware" /\ requests[r].at # 0 /\ Current(r) \notin requests[r].known =>
            \A j \in Targets : j > requests[r].at =>
                Provider[requests[r].order[j]] \notin requests[r].known

\* Cost-aware routing spends nothing while it need not: a target whose model
\* has a price has its turn only when all that are cheaper have had theirs, and
\* all that have no price, the local ones.
CheaperTriedFirst ==
    \A r \in Requests :
        policy = "cost-aware" /\ requests[r].at # 0 =>
            LET t == requests[r].order[requests[r].at]
            IN  \A j \in Targets : j > requests[r].at =>
                  LET u == requests[r].order[j]
                  IN  Price[t] \notin {Unpriced, 0} => Price[u] # Unpriced /\ Price[t] <= Price[u]
=============================================================================
