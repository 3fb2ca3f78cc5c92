# Switchyard in TLA+

This directory specifies the request-handling core of the Switchyard LLM
gateway: circuit breakers and the resilient executor, the Redis rate limiter,
the semantic cache, routing, the streamed answer, and the pipeline that ties
them together. The modules are translated from `gateway/`; TLC checks them on
small instances. For every value of their parameters TLAPS proves the safety of
every component, and that executor, limiter, cache and stream keep what their
abstract specifications promise. Every safety property the passing runs check is a
theorem as well; liveness is left to TLC.

`PROJECT.json` is the index: which definition stands for which lines, what each
run checks, which change of the model breaks each property, the hazards the
properties are for, and the disagreements found between code and documents.

## 1. The system

The gateway is one asyncio process (several may share a Redis). A handler runs
undisturbed from one `await` to the next, so **one step of a model is what the
code does between two awaits**; other handlers, other processes' scripts on
Redis and the clock interleave there.

| component | state | operations | talks to | what is hard |
|---|---|---|---|---|
| `CircuitBreaker`, `BreakerRegistry` (`resilience/circuit_breaker.py`) | state, window of outcomes, `_opened_at`, half-open count | `allow`, `record_success`, `record_failure` | called by the executor | outcomes arrive late and out of order, in any state; a slot taken by `allow` is given back only by an outcome |
| `ResilientExecutor` (`resilience/retry.py`) | per request: position in the targets, attempts, last error, start time | `execute`, `execute_stream` | breakers, adapters, routing signals | several requests between each other's awaits; backoff between `allow` and the call; a deadline looked at once per target |
| `RateLimiter` (`ratelimit/limiter.py`) | two Redis hashes per tenant, with expiry | `check` (one Lua script), `reconcile` (one HINCRBYFLOAT) | pipeline, Redis | client-side clocks, corrections after the fact, keys that expire meanwhile |
| `SemanticCache` (`cache/semantic_cache.py`) | index per scope, entries, recency order | `embed_query`, `get`, `set`, eviction | pipeline | three structures in step; the call between `get` and `set`; expired entries still in the index |
| pipeline (`main.py`) | per request: tenant, estimate, cache scope and vector | `chat_completions`, `_streaming_completion`, `on_finish` | everything | partial failure after the upstream call, accounting on every way out |
| streaming (`streaming/sse.py`, `providers/*.py`) | usage seen, completed flag; Gemini's held-back chunk; the connection | `stream_sse`, the adapters' generators, the peek in `execute_stream` | pipeline, adapters | suspended generators that pull each other; ends by completion, error or disconnect at any yield; the correction must run once |
| routing (`routing/`) | EWMA latency per provider | `resolve`, the four policies, `record_latency` | pipeline, executor | feedback of measured latency on who is measured; samples in the order in which calls end |
| tenancy, estimate, registry, config, schemas | read-only after start | lookups | pipeline | - |
| metrics, cost | counters | `record_*`, `render` | all | counting every request once |
| embedder | lazily loaded model | `embed` (thread pool) | cache | double-checked lock |

What makes each component correct:

* breaker: it trips only on evidence, stays open for a full reset timeout, lets
  at most `half_open_max` probes through, closes because of a probe, and never
  stays half-open for good;
* executor: a request tries each target it can, ends, is bounded by its
  deadline, and a failing provider cuts off nobody but itself;
* limiter: two token buckets, charged together or not at all, corrected later,
  with bounded debt and no tenant locked out;
* cache: a hit is fresh, from the right scope and close enough; the bound
  holds, and the least recently used entry makes room;
* stream: the client gets the provider's chunks, each once and in order, then
  `[DONE]`; reading keeps pace with the client; the connection is back before
  the one settlement, which says what the provider reported last, or nothing;
* routing: an order names every target once; the faster, or the cheaper, comes
  first, and one nobody has measured is a fallback;
* pipeline: what is taken from a tenant is what its requests used, each
  request is counted once as it was answered and billed once if it was
  complete, tenants' answers stay apart if so configured; the embedding model
  is loaded once.

## 2. Modules

| module | what it is | code |
|---|---|---|
| `CircuitBreaker` | the breaker as a record, each method as an operator on it | `circuit_breaker.py` |
| `BreakerCalls` | one breaker, the attempts on it, the clock | `circuit_breaker.py`, the calls in `retry.py` |
| `CircuitBreakerProofs` | lemmas: what each method of a breaker returns | |
| `BreakerCallsProofs` | theorems about `BreakerCalls` | |
| `Executor` | requests walking their targets over a function of breakers | `retry.py` |
| `ExecutorProofs` | theorems about `Executor`, refinement included | |
| `TokenBuckets` | abstract: two continuous token buckets | |
| `RateLimiter` | hashes, script, correction, expiry | `limiter.py` |
| `TenantUsage` | `RateLimiter` with counters of what it lets through in an interval | `limiter.py` |
| `RateLimiterProofs` | theorems about `RateLimiter`, refinement included, and `TenantUsage` | |
| `Sublist` | what is left of a list at some places | the deletions in `semantic_cache.py` |
| `AnswerStore` | abstract: one bounded list of answers in order of use | |
| `SemanticCache` | indexes, entries, recency order, and the requests around them | `semantic_cache.py` |
| `SemanticCacheProofs` | theorems about `SemanticCache` | |
| `ChunkStream` | abstract: chunks in order, `[DONE]`, one settlement | docstring and code of `sse.py` |
| `Streaming` | one answer, from the provider's connection to the client | `sse.py`, `openai_compat.py`, `gemini.py`, the peek in `retry.py` |
| `StreamingProofs` | theorems about `Streaming`, refinement included | |
| `Routing` | policies, the latency signal, requests that walk their orders | `routing/`, `cost.py`, the samples in `retry.py` |
| `RoutingProofs` | theorems about `Routing` | |
| `Gateway` | the pipeline, streaming included | `main.py`, `sse.py`, `embedder.py`, `metrics.py` |
| `GatewayProofs` | theorems about `Gateway` | |
| `MC*` | instances for TLC | |

Four refinements are checked: `Executor` implements `BreakerCalls` for every
provider (`Protocol(p)`), and by the `Promise` of each, `RateLimiter` implements
`TokenBuckets`, `SemanticCache` implements `AnswerStore`, and `Streaming`
implements `ChunkStream`. All four are proved as well.
`Gateway` uses the components by what they promise: the limiter admits or
refuses and adds up what was taken, the cache may serve any fitting answer it
has and may miss any, the executor ends in one of the ways `Executor` can end,
a stream is a sequence of usages that is completed or breaks.

### 2.1 Breaker (`CircuitBreaker`, `BreakerCalls`)

`breaker` is the record (`state`, `window`, `openFor`, `halfOpenCalls`).
`openFor` counts ticks since `_opened_at` up to `ResetTimeout`: only
`clock() - _opened_at >= reset_timeout_s` is ever asked. The threshold is the
fraction `FailNum/FailDen`, compared by cross-multiplication. A refused
`allow()` changes nothing, so `Grants` is a predicate and `AfterGrant` the
change.

`attempts` are executions of the loop body of `execute` on this provider:
`Ask` (allow granted), `Send` (backoff over, the call leaves), `Succeed`,
`Fail`, `FailAndAsk` (a failure, then the next target on the same provider is
asked without an await between), `Escape` (an exception neither except clause
names), `Tick`. Each carries `probe`/`fresh` (history: was a half-open slot
taken for it, and is that half-open period still on) and `held`, its age, at
most `MaxHold`, which stands for a backoff and the longest call (httpx's timeout
bounds each connect, read, write and wait for the pool, not a whole call, so this
is an assumption; the safety theorems hold for every value). `history` counts
failures since the last close and the time since the last opening; it is
written, never read, by the actions.

### 2.2 Executor

A request is `backoff` or `calling`, or at rest with its outcome. `Continue`
is the way round the loop from a target on: deadline, skips (`NextTarget`), then
sleep or call. The refusals on the way have no effect, so the skip is one
operator, `NextTarget`, instead of a step each. `Healthy` providers always
succeed. Jitter is any whole number of ticks up to the ceiling. `LongestCall`
bounds a whole call, for the reason given for `MaxHold`; what needs the bound says so.

### 2.3 Rate limiter

Times are relative: a hash has `age`, the true time since its `ts`. A check
carries a lag, up to `MaxLag`, between its `now()` and the run of the script;
two checks may therefore run in the opposite order of their clocks, and the
stored `ts` may go back. `unused` is the time since a script last set the
expiry. A correction neither sets nor extends it, and creates a hash that is
not there: kind `"unstamped"`. The unit of time is chosen so that the rates are
whole numbers; rounding is not modelled.

`TokenBuckets` allows a check dated back by up to `MaxLag` to be given the
refill of that time once more: the exact bound of what the client-side clock
can do. The debt that an expiring key forgives is covered as long as two
windows refill it, which holds when the debt is at most the capacity.

`TenantUsage` asks what the buckets are for: how much is let through. It adds
`use`, counters of the ticks, the admissions and the tokens charged less those
refunded since `Restart`, which may begin an interval at any time; nothing the
code does depends on it. A script is *overtaken* when it finds a `ts` newer than its
own `now()`: it sets `ts` back, and the next script refills that time again.
`Budget` is capacity and refill, one lag's refill for the scripts dated back to
before the interval, and one more for each script overtaken. Intervals longer than
`Horizon`, or with more overtaken scripts than `MaxOvertaken`, are not counted:
the step that would make one waits for `Restart`. The same interval, without an
admission, is what `RefusedBriefly` measures a refusal by.

### 2.4 Semantic cache

A question stands for an embedded prompt, `Similarity` for the inner product.
`Nearest` gives every answer FAISS may give when similarities tie. `Walk`
describes the loop over the search result: expired entries are removed up to
the first one that is not, which decides. `Unindexed` needs the entry to find
its index, as the code does. An answer is named after the request it was given
to, so that a wrong one can be told. `MaxSets` bounds the number of stores,
since `_next_id` grows without limit.

### 2.5 Pipeline (`Gateway`)

One record per request, from `new` to `done`; each request is made once.
`settling` is the await of `reconcile`, with what happens after it in
`Concluded`. `due` is what reconcile is given, `used` what the provider
reported, so that the accounting property compares two different things.
`total` says whether the usage came with a `total_tokens`: without it nothing is
corrected, and the request is billed all the same. `doubt` is history, the requests
whose correction was lost or never made: which of two amounts they were charged is
then open, and `ChargesAreOwed` allows either for them and nothing else.
Failures: Redis raises at `check` or `reconcile` with the command done or not;
embedding or a call raises what no handler names (`Crash`); a client leaves
before the stream is first iterated (`Vanish`: the generator's `finally` never
runs), in the middle (`Break`), or so that the disconnect cancels the await in
the `finally` (`SettleFails`). How a disconnect reaches the handler is up to
the ASGI framework and is modelled as a choice.

`settings` is what start-up decides: tenants or none (then every request is
anonymous, and neither asked for a key nor charged), a cache or none, one that is
shared or kept per tenant. `counted`, `errors`, `event` and `billed` are a
request's own part of the metrics, so that a property can tell whose increment
is missing. `LookForModel`, `Lock` and `Load` are the embedder's double-checked
lock: the thread pool really runs in parallel, so each is a step.

### 2.6 Streaming

The generators pull: `pc` is where the one that runs, or was suspended last,
stands. `peeking` is `execute_stream` awaiting the first chunk, `handed` a
response not yet iterated, `yielded` a client that has not asked for more,
`pulling` the adapter asked for the next, `closing` and `settling` the two
awaits of the `finally`. `gemini` chooses the adapter: Gemini's wraps the plain
one and keeps a chunk back (`held`), which `Read` hands on without its usage when
the next has come, and `End` with it. Parsing is reduced to what a line turns
out to be: a chunk, nothing, the end. `[DONE]` and a connection that just ends
are the same to the adapter, so an answer the provider cut short without an
error counts as complete, here as in the code.

`conn` tells a connection that was given back from one that only lost its last
reference: `aclose()` reaches the generator of `httpx.stream` directly, but of
Gemini's only the outer one, and the inner one is left to the interpreter
(`abandoned`, then `Finalize`).

### 2.7 Routing

A policy is the relation `MayPrecede` between two targets, and `Resolve` the
orders in which every pair is so related: the sorts are stable (`Before`), and a
weighted draw can put any target with weight before any other. Averages are
exact: after `n` samples a multiple of `1 / AlphaDen^(n-1)`, hence `Scale`.
`observed` is the history of samples the properties compare the order with.
`known` is what was sampled when an order was made: it may be old when it is
walked. Whether a target fails is `Executor`'s matter; here it may at any time.

## 3. Runs

| run | question | bounds |
|---|---|---|
| `breaker_safety` | Do slots, window and timer stay consistent whatever comes late? | 3 attempts living 3 ticks > reset timeout 2, window 4, min_calls 3, escapes |
| `breaker_prompt` | What more holds when no attempt outlives the reset timeout? | 3 attempts living 2 ticks < 3, 2 probes, fairness |
| `breaker_stuck` | ... and when a probe escapes? (violation) | 2 attempts, fairness |
| `executor_safety` | Do concurrent requests respect breakers, deadline and order? | 2 requests; an alias twice on one provider, and one with an unconfigured, a primary and a fallback |
| `executor_fallback` | Is a request with a healthy fallback answered, and does every request end? | an alias with two models of one provider before the fallback, deadline for all three, calls that fail in a way the executor names, fairness |
| `executor_slow_primary` | ... when a call may take as long as the deadline, as shipped? (violation) | longest call beyond the deadline |
| `limiter_safety` | Are the hashes two token buckets, how much do they let through, is debt bounded, is the tenant kept going, how soon? | 2 requests, lag 1, keys live 4 ticks, calls up to 4; intervals of one window with one overtaken script |
| `limiter_expired` | Can a hash always be read? (violation) | same requests, no counters |
| `cache_safety` | Do the three structures act as one list, and when is a fresh answer missed? | 2 requests, 2 scopes, 3 questions, 3 entries, 4 stores, search of 2 |
| `gateway_safety` | Are charges, counters, bills and answers with whom they belong to? | 3 requests, 2 tenants or none, cache or not, every failure allowed |
| `streaming_safety` | Is an answer whole, in order, settled once, and when is the connection back? | one answer of up to 4 chunks, both adapters, fairness |
| `routing_safety` | Do orders follow what was measured, priced and configured? | 3 providers (one local), 2 overlapping requests, 2 samples each, 3 latencies |

Types are theorems (`TypeCorrect` of each proof module), and `SemanticCache`'s are the
first conjunct of `OneView`.

Why these bounds are enough to be interesting. Breaker: three attempts are a
probe, a late success and a late failure; a window one longer than `min_calls`
has both a part-filled and a full, sliding state. Executor: two requests are
enough for one to change a breaker the other has just read. Limiter: one call
late by the whole life of the keys while another checks; an interval of one window
begins at any state, so keys expire in it, and both additions to the budget are
reached: without either, TLC finds more let through. Cache: three entries
are two expired ones in front of a fresh one, with `TopK` two; a fourth store
evicts. Gateway: one request fills the cache while another misses and a third,
of another tenant, hits. Streaming: four chunks are a first one that was
peeked, two in the middle and one kept back. Routing: two requests overlap, so
that an order is old when it is walked and samples come in either order; with three
latencies two samples of one provider differ, so its average depends on which came
first, while both stay below those of another.

The numbers stand for: `reset_timeout_s` 30, httpx timeout 60 (so attempts do
outlive it as shipped), `deadline_s` 60, window 20, `min_calls` 5, `half_open_max` 1, `max_delay_s` 2, `window_s` 60, 5 neighbours,
10000 entries.

Fairness. `Tick` is weakly fair: the clock runs. `Wake`, `Send`, `Answer`: a
sleep ends, and a call does. The last is an assumption: httpx's timeout is on each
operation, and an upstream that trickles one byte within each for ever is not
modelled; `Terminates`, `HalfOpenResolves` and `AlwaysSettled` rest on it. `Script`, `End`: Redis
answers, requests end. In `Streaming`, httpx's read timeout ends every wait
for the provider (`Connect` to `Break`), the framework takes what was yielded or
closes the generator (`Resume`, `Disconnect`), the awaits of the `finally` return,
and the event loop finalizes what nothing refers to. `Ask`, `Check`: the
environment keeps asking, assumed only where a property is about a provider or tenant that is still used
(`OpenIsProbed`, `KeepsAdmitting`). Nothing is strongly fair. Everything else
is safety. Each `pass` run checks deadlock as well, but for `streaming_safety`:
there one answer is followed to its end. `Gateway`'s requests are made once, and
its last disjunct lets a finished history rest.

What the violations show:

* `breaker_stuck`: an answer of status 200 whose body is not what the schema
  wants raises past both except clauses; if it was the probe, the breaker is
  half-open with no slot for ever (`EscapeSticks`, `StuckForGood` in 4.1 prove the
  "for ever").
* `executor_slow_primary`: with calls as long as the deadline, a first target that hangs
  leaves no time for the second. `FallbackHolds` (4.4) says how much time it takes.
* `limiter_expired`: a correction after the keys have expired leaves a hash
  without `ts`, on which every later check of the tenant fails. A stream has no
  total timeout, so a call can be under way for two windows. Nothing repairs the
  hash (`UnreadableForGood` in 4.2).

Other places where the code is not what a document says, noted with the hazards
rather than run:

* a call granted before the backoff is sent although the breaker has opened
  meanwhile (`ARCHITECTURE.md:104`); how long for is `OpenGoesQuiet`;
* a success of a call from before the trip closes a half-open breaker while its
  probe is out, against "until a reset probe succeeds" (`ARCHITECTURE.md:172-173`), a
  late failure re-opens it, and a second probe can be in flight with the first;
* the answer that leaves a probe's slot taken (`breaker_stuck`) also ends its own
  request in a 500, whatever other targets are healthy, against "a dead backend never
  reaches the client as an error" (`README.md:21-22`). So `FallbackServes` is checked
  where calls fail in a way `execute` names; `HealthyTargetIsReached` (4.4) says that
  an escape is the only other end;
* if every target is skipped, the slot stays charged though no provider was
  called (`ARCHITECTURE.md:114`);
* usage that was seen before a disconnect is dropped and the estimate refunded
  in full;
* a client that leaves Gemini's stream does not close its connection at once
  (`sse.py:7-9`): the exception in `ReleasedBeforeSettled`;
* a stream nobody iterated leaves no trace but its success (`main.py:176-177`),
  and its estimate is never corrected: the request joins `doubt` in `Gateway`;
* latency-aware routing does not behave like priority "until both are sampled"
  (`config/models.yaml:9-10`): once only the fallback is sampled, it is first, and
  stays so while it serves (`ColdIsLast` states that order);
* retrying the next target is "never the same one" (`retry.py:4`), but the alias
  `balanced` names one provider twice.

## 4. Proofs

### 4.1 `BreakerCallsProofs`

For all values of the constants that satisfy `BreakerAssumption` and for any set
of attempts (finite where it counts):

* `TypeCorrect`: `Spec => []TypeOK`;
* `SlotsAccounted`: `Spec => []ProbesAccounted`;
* `OverThresholdOnSuccess`, `TripsOnEvidence`, `CoolsOff`:
  `OverThresholdOnlyAfterSuccess`, `TripNeedsEvidence` and `CoolingOff`;
* if `MaxHold < ResetTimeout`: `HalfOpenHearsOnlyItsProbes`,
  `Spec => []OnlyProbesInHalfOpen`, and `ProbesCapped`, `Spec => []ProbeCap`; if
  moreover no exception escapes: `PeriodBelongsToItsProbes`, `Spec => PeriodOfItsProbes`:
  the period keeps its probes while it lasts, and one of them ends it;
* how a half-open period ends, or does not: if no exception escapes,
  `ProbeStaysOut`: there is always a probe of the period out, to report and end it;
  `EscapeSticks`: when the last attempt out escapes and every slot is taken, the
  breaker is `Stuck`; `StuckForGood`, `Spec => [](Stuck => []Stuck)`.

`ProbesAccounted` is not inductive. `AccountInv` adds to the types `FreshInv`
(an attempt admitted in the current period was admitted by the state the breaker
is still in) and `SlotInv`, the equation between counter and set of probes; the
cardinality facts come from `FiniteSetTheorems`. `PromptInv` adds that an
attempt from before the opening is older than the open period: such an attempt
is bound to be gone when the reset timeout ends, which is where the assumption
comes in. Without it a late success closes a half-open breaker. `EvidenceInv`
relates breaker and history: the window of a closed breaker holds no more failures
than were noted since it closed (or `MinCalls`, where the note stops counting), and
it has been open at least as long as its timer says. The step is arithmetic on a
sliding window: noting an outcome adds at most one failure, even when the oldest
drops out (`FailuresRemember`). `CapInv` counts all probes in flight: a slot is
granted when nobody is out (`NobodyLeft`) or only probes of this period are.

The proofs follow the actions: one lemma per operator of the breaker
(`CircuitBreakerProofs`, shared with 4.4), one per action, then the temporal step.

### 4.2 `RateLimiterProofs`

For all values that satisfy `LimiterAssumption`:

* `TypeCorrect`, and `LateCallOnly`: a hash loses its `ts` only to a call that
  was under way as long as the keys live;
* `NeverUnreadable`: if `MaxFlight < TTL`, then `Spec => []Readable`;
* `UnreadableForGood`: a hash without `ts` keeps its tenant out for good; it is never
  readable again, and no call is admitted from then on;
* `DebtStaysBounded`: for finitely many calls, `Spec => []DebtBounded`;
* `Implements`: if moreover the largest debt, `Shortfall` for each call, is at
  most the capacity, `Spec => IsTokenBuckets`;
* `AdmissionsBounded` and `ChargesBounded`: if no check takes more than a window to
  reach Redis, `UsageSpec => []RequestsInBudget` and `UsageSpec => []TokensInBudget`;
* `RefusalsEnd`: for finitely many calls, `UsageSpec => RefusedBriefly`: a tenant that
  nobody admits is refused only until the refill of that time would do.

The invariant `IInv` adds to the types `EstimateInv` (a call that is not idle was
given one of the estimates), `LifeInv` (a hash that can be read is at least as old
as the last use of the keys and they are still alive; one that is gone has been
unused for all of `TTL`) and `FlightInv` (an admitted call is at least as old as
the last use of the keys). A correction that finds no hash therefore belongs to a
call as old as the keys live, which `MaxFlight < TTL` forbids. `DebtBounded` is
inductive on top of it: an ended call adds at most `Shortfall` and leaves the calls
in flight, and an admitted one joins them with a bucket that is not in debt; the
counting is `FS_AddElement`. The refinement needs that bound where a key expires:
debt within the capacity is refilled in the two windows the keys live, so the full
bucket that follows is no gift. Lazy refill is truncated sums of products, and
`Charging`, `Refilling` and `Correcting` state for one bucket what a script, a tick
and a correction do to its level.

What an interval lets through does not follow from the refinement, which is step by
step and would pay the lag again for each script. `Covered` relates what was let
through and what is left: what a script would find, *for every `now()` it may come
with*, is covered by the budget of the time since the interval began. A script moves
the stamp, so what the next one finds is compared with what it would have found
before (`WithinCharged`), and only one that was overtaken makes a gift of the time between. A
tick adds to the budget what it refills, and a key it removes was full
(`WithinOlder`); a correction counts as much on both sides.
Neither debt nor shortfall is assumed to be bounded: only a bucket that could pay has
let something through, and `Solvent` keeps the comparison to those. The one hypothesis
cannot just be dropped: with a lag of two windows TLC finds more requests admitted.

`RefusedBriefly` is the opposite bound, from below, and needs no hypothesis on the lag.
`Awaits` says that a script finds in the bucket, *for every `now()` it may come with*,
what the interval has refilled up to that `now()`, less the debt. A refused script
stores what it found as of its own `now()`, so what it does not see is left to the next
(`AwaitsStored`); a tick adds as much to what is there as to what is due
(`AwaitsOlder`), an expiry fills the bucket, and a correction takes no more than the
debt grows by when its call is over (`AwaitsCorrected`, `OverDebts`). The debt that
there can be at the beginning of an interval is `DebtBounded`.

### 4.3 `StreamingProofs`

For any number of chunks and any usages: `TypeCorrect`; `Whole`, `LastOnly`,
`BackpressureHolds`, `ReleasedFirst` (the four invariants of the run); and
`Implements`: `Spec => IsChunkStream`.

The invariant relates the two ends of the pipe by where the answer stands: which
chunk is next is `Len(wire) + 1`, and what has been read beyond it is what was
peeked or is held. `LastOnly` needs in addition that usage shown on a chunk of
Gemini's means the connection has ended. For the settlement three usages are
shown to be the same: the one tapped by `stream_sse`, the last one on the wire
(`LastUsage` of `ChunkStream`), and the last one the provider reported.

### 4.4 `ExecutorProofs`

For any providers, any routes over them and any set of requests: `TypeCorrect`,
`DeadlineHolds`, `GoesQuiet`, `NobodyPassedOver`, `OwnFailureOpens`, and
`Implements`: `Spec => ImplementsBreakerCalls`. Further:

* `FallbackHolds`: if every route is `Rescued` and nothing escapes, `Spec =>
  []FallbackServes`; and with escapes too, `HealthyTargetIsReached`: no request runs
  out of targets beside a healthy one, so an escape is the only other end. A route is
  rescued if some healthy target's turn, `h - 1` sleeps and calls later, comes no
  later than the deadline and one more sleep. That is true of the instance of
  `executor_fallback` and false of `executor_slow_primary`'s, where TLC has the
  counterexample;
* what 4.1 proves, of the breaker of any one provider, with `MaxHold` the longest
  backoff and call together: `EveryBreakerHolds`, without hypothesis;
  `EveryHalfOpenPeriod`, if backoff and call together are shorter than the reset
  timeout; `EveryHalfOpenIsProbed`, if nothing escapes; `EveryHalfOpenPeriodIsItsProbes`,
  if both; and `StuckProviderStaysStuck`.
  The provider is a constant, `One`, since the prover does not let theorems of an
  instance with parameters be cited.

The invariant has two parts beyond the types. `Sound`: a request under way is at a
target of its route, and its sleep or call ends in time, so that elapsed and
remaining time together stay within deadline, backoff and longest call; that also gives
the bound on `held` the protocol's clock waits for. `Quiet`: who sleeps before an
open breaker was admitted before it opened. Every action is a record on one
breaker (`Recorded`) and a request that moves (`Moved`), and the way round the
loop either gives up or tries one target (`Onward`, from `NextTargetIsFirst`).

For the refinement, `Attempt` is what one request is to one provider, and `Leaves`
and `Asks` what a step does to it. `ContinueMapped` says that the way round the
loop asks one provider at most and leaves all others; `LeavesIsFail`, `AsksIsAsk`
and `AsksIsFailAndAsk` name the protocol's step, so that a failure of one provider
and the grant of another in one step of the executor are a `Fail` for the first,
an `Ask` for the second and nothing for the rest.

`FallbackServes` needs what a request has used up to be bounded by how far it has come.
`ServedInv` says that a request under way has not passed a healthy target, that what has
elapsed and what its sleep or call may still take add up to at most `Longest` of the
attempts made, and that a healthy provider's breaker is closed: so the
healthy target is granted when its turn comes, and its turn comes before the deadline.

### 4.5 `GatewayProofs`

For any requests, tenants, prompts, estimates and usages, with every failure
allowed: `TypeCorrect`; `CountsAsAnswered`, `AnswersStay`, `BillsComplete` and
`LoadsOnce`; and for finitely many requests `ChargesOwed`, `Spec => []ChargesAreOwed`
(the run's five invariants).

The invariant is almost entirely about one request at a time. `Good` says, by
where a handler stands, what its record may hold: nothing is counted or used
before an answer (`Begun`), the cache event is known once the cache was asked
(`Asked`), a stream counts as a success from its opening on (`Flowing`), and what
the handler has left to do while it awaits `reconcile` is decided by how the
request ended (`Ended`). It is why a `reconcile` that fails cannot count a request
twice: all that remains is one of a few conclusions, made once or not at all.
Two parts are about several: `Kept`, that an answer's scope is that of the caller
it was given to, from which a hit under `cache_per_tenant` is the caller's own; and
`OneLoad`, that who loads the model does so alone and before it is there, which is
what the second look under the lock adds. `Moved` reduces a step to the record of
the request that takes it. `AnswersStay` needs that no tenant is called `None`,
the scope all share, which is not a string in the code.

`ChargesOwed` holds whatever fails: the charge is what the requests owe, where one in
`doubt` may count for its estimate or for what was due, and every other for exactly
what is owed (`Doubted`, `BooksAreCharges`). It is about a sum over the requests. The library's folds are recursive, and
what they compute would need an induction theorem; instead the sum is a function on the
subsets of a finite set, and what it is for one element more, or one value changed, is
shown for the smallest set that would break it, which `WFMin` gives as a fact about a
set of numbers. Then each step changes one request's part of the sum and `spent` by as
much (`BooksKept`), or is a failure that puts the request in `doubt`, where the choice
between its two amounts makes the sum come out again (`DoubtKeepsBooks`).

### 4.6 `RoutingProofs`

For any finite set of targets, any weights, prices and latencies, any smoothing
factor in (0, 1] and any number of requests that overlap: `TypeCorrect`, which
includes that an order names every target of a route once, and `ColdLast`, `CheapFirst` and
`FasterFirst` (the run's three properties). Further, `Resolve` is a set of orders that
is never empty (`AlwaysResolves`), and has one member unless the policy draws by weight
(`ResolvesToOne`): what a policy is modelled by, a relation between two targets, leaves
nothing open that the code's sort decides. The samples of a provider may be bounded by
any number.

`Measured` is the part of the invariant that is not about orders: a provider without
a sample is cold, and the average of one that has samples lies between two of them.
Its step is `SmoothedBounds`, arithmetic on a weighted mean that is rounded down
(`MeanBounds`), so rounding is no gap in the argument. Two providers whose samples
do not overlap then compare as their samples do. `Sorted` keeps what the order was
when it was made for as long as it is walked, whatever is sampled meanwhile; it is
about `known`, the providers measured at that time.

That a sorted order exists, and is the only one, is the usual induction on a list, which
is out of reach. Instead each target's place is one more than the number of those that
precede it (`Rank`): places are distinct because the relation is strict and total
(`MayPrecedeStrict`), an injection of a finite set into itself leaves no place free
(`AllPlacesTaken`), and in any resolved order exactly `i - 1` targets precede the one at
`i` (`ResolvedAtItsPlace`).

### 4.7 `SemanticCacheProofs`

For any clients, scopes, questions and similarities, any bound and search width:
`OneCache`, `Spec => []OneView`; `Implements`, `Spec => IsAnswerStore`; and
`MissesExplained`, `Spec => MissesOnlyBehindExpired` (all that the run checks).

In the invariant, `IndexesMatch` relates index and entries, and `Recent` entries and
recency order: a list of distinct ids, exactly those of the entries, at most
`MaxEntries` of them. `DroppedFromBoth` and `AddedToBoth` hold for any set that is
dropped, so only the bound depends on which ids the recency order picks. Deleting keys
is `Sublist`, the elements at some places of a list; it is written with ranks because
`SelectSeq` is recursive, and what it keeps would need induction. `SublistPicks` is
what replaces that induction: the rank is an injection of the places that stay into as
many numbers, hence a bijection (`FS_Injection`). The bound follows by counting what
`_evict_if_needed` leaves (`EvictedFirst`, `ListsCount`).

`WalkedInVain` is the argument for the misses: because index and entries agree, the
search passes over nothing; if one of the neighbours were fresh, the first such would
be at least as near as the answer, and a hit; so all have expired, the answer is not
among them, and the search must have been full. For the refinement, `Viewed` is the
list of answers by entries and recency order alone; cutting the order cuts the list at
the same places (`ViewedSublist`), which are the first ones when entries are evicted
(`SublistSuffix`).

### 4.8 Only model-checked

Liveness under fairness, which is out of the prover's reach: `HalfOpenResolves`,
`OpenIsProbed`, `Terminates`, `KeepsAdmitting` and `AlwaysSettled`. The safety half of
two of them is proved. `PeriodOfItsProbes` and `ProbeStaysOut`: a half-open period has
a probe out, loses none, and ends with the first answer, so all that `HalfOpenResolves`
adds is that calls end. `RefusedBriefly`: nobody is refused once the interval has
refilled enough, so all that `KeepsAdmitting` adds is that time passes and the tenant
asks; `NeverUnreadable` and `UnreadableForGood` say when its premise, `[]Readable`,
holds, and that the property could not do without it.

## 5. Not modelled

Floating point; wording, headers and logging; `Retry-After`; the latency
histogram and the counter of failed attempts, which nothing reads; YAML and
environment parsing (read at start, never changed); the token count behind an
estimate; the embedding itself; Redis beyond the two commands and the expiry;
`bench/` (clients of the gateway, which keep no state of it), dashboards, CI and
containers.

## 6. Plan

A composition of `Gateway` with breakers and targets, in place of the `tried` choice.
