------------------------------- MODULE Gateway -------------------------------
(***************************************************************************)
(* The request pipeline (gateway/main.py, gateway/streaming/sse.py):       *)
(* concurrent requests that are authenticated, admitted by the rate        *)
(* limiter, answered from the semantic cache or by a provider, streamed or *)
(* not, and whose admission charge is corrected afterwards.                *)
(*                                                                         *)
(* The components are reduced to what the pipeline sees of them.  The      *)
(* limiter admits or refuses, and keeps the net tokens taken of a tenant   *)
(* (RateLimiter.tla has the buckets); the cache holds answers by scope and *)
(* prompt, and any of them may be missed or gone (SemanticCache.tla); the  *)
(* executor serves, rejects, finds every target failed, or raises          *)
(* something else (Executor.tla).  A step runs from one await to the next. *)
(*                                                                         *)
(* Without tenants there is neither authentication nor limiter: a request  *)
(* is anonymous, and nothing is charged.                                   *)
(***************************************************************************)
EXTENDS Integers, FiniteSetsExt

CONSTANTS
    Requests,       \* the requests, each made once
    Tenants,        \* the tenants of tenants.yaml
    Prompts,        \* what requests ask, with their output-affecting params
    Estimates,      \* what estimate_tokens may say
    Usages,         \* the total_tokens a response may report
    RedisMayFail,   \* may a command raise, and leave open whether it was done?
    MayCrash,       \* may embedding, or a call, raise what no handler names?
    MayDisconnect   \* may a client go away before the end of its response?

\* No tenant: nobody known, and a caller where there are no tenants.
None == "none"
Anonymous == "anonymous"

ASSUME GatewayAssumption ==
    /\ None \notin Tenants /\ Anonymous \notin Tenants
    /\ Estimates \subseteq Nat /\ Usages \subseteq Nat
    /\ {RedisMayFail, MayCrash, MayDisconnect} \subseteq BOOLEAN

VARIABLES
    requests,   \* request -> where its handler stands
    spent,      \* tenant -> net tokens taken from its token bucket
    cached,     \* the answers the cache has ever held
    settings,   \* are tenants configured, is there a cache, is it kept per tenant?
    model,      \* has the embedder's model been loaded?
    doubt       \* history: the requests whose reconcile was lost, or not made

vars == <<requests, spent, cached, settings, model, doubt>>

-----------------------------------------------------------------------------

NoUsage == -1

Callers == Tenants \cup {Anonymous}

Outcomes == {"success", "error", "throttled"}

Request ==
    [pc       : {"new", "checking", "queued", "waiting", "loading", "embedding",
                 "executing", "opening", "responding", "streaming", "settling", "done"},
     tenant   : Callers \cup {None},
     prompt   : Prompts \cup {None},
     stream   : BOOLEAN,
     est      : Estimates \cup {0},
     slot     : BOOLEAN,                \* is its request slot charged?
     tried    : BOOLEAN,                \* was a provider called for it?
     used     : Usages \cup {NoUsage},  \* the usage the provider has reported
     total    : BOOLEAN,                \* did it name the total?
     due      : Usages \cup {0},        \* what reconcile is called with
     result   : {None, "hit", "served", "rejected", "failed", "broken", "vanished", "crashed"},
     status   : {0, 200, 400, 401, 429, 500, 502},
     counted  : [Outcomes -> 0 .. 1],   \* its part of the metrics: of requests,
     errors   : 0 .. 1,                 \* of errors,
     event    : {None, "bypass", "hit", "miss"},    \* of cache events,
     billed   : Usages \cup {0},        \* and of tokens and cost
     answerOf : Callers \cup {None}]    \* whose answer a hit was

New ==
    [pc |-> "new", tenant |-> None, prompt |-> None, stream |-> FALSE, est |-> 0,
     slot |-> FALSE, tried |-> FALSE, used |-> NoUsage, total |-> FALSE, due |-> 0, result |-> None,
     status |-> 0, counted |-> [o \in Outcomes |-> 0], errors |-> 0, event |-> None,
     billed |-> 0, answerOf |-> None]

TypeOK ==
    /\ requests \in [Requests -> Request]
    /\ spent \in [Tenants -> Int]
    /\ cached \subseteq [scope : Tenants \cup {None}, prompt : Prompts, by : Callers]
    /\ settings \in [tenants : BOOLEAN, cache : BOOLEAN, perTenant : BOOLEAN]
    /\ model \in BOOLEAN
    /\ doubt \subseteq Requests

Init ==
    /\ requests = [r \in Requests |-> New]
    /\ spent = [t \in Tenants |-> 0]
    /\ cached = {}
    /\ settings \in [tenants : BOOLEAN, cache : BOOLEAN, perTenant : BOOLEAN]
    /\ settings.perTenant => settings.cache
    /\ model = FALSE
    /\ doubt = {}

-----------------------------------------------------------------------------

Becomes(r, record) == requests' = [requests EXCEPT ![r] = record]

Over(q, status) == [q EXCEPT !.pc = "done", !.status = status]

\* record_request(alias, provider, outcome, stream)
Counted(q, outcome) == [q EXCEPT !.counted[outcome] = @ + 1]

\* record_error(type)
Flagged(q) == [q EXCEPT !.errors = @ + 1]

\* record_usage(tenant, provider, prompt, completion, cost), in tokens.
Billed(q) == IF q.used = NoUsage THEN q ELSE [q EXCEPT !.billed = @ + q.used]

\* The handler awaits reconcile(tenant, actual, estimated_tokens).
Settling(q, result, actual) ==
    [q EXCEPT !.pc = "settling", !.result = result, !.due = actual]

Charge(q, tokens) == spent' = [spent EXCEPT ![q.tenant] = @ + tokens]

\* The first await that an admitted request comes to.
Admitted(q) ==
    CASE q.stream -> [q EXCEPT !.pc = "opening", !.event = "bypass"]
      [] ~ q.stream /\ settings.cache -> [q EXCEPT !.pc = "queued"]
      [] ~ q.stream /\ ~ settings.cache -> [q EXCEPT !.pc = "executing"]

CacheScopeShared(tenant) == None        \* mutant: the setting is forgotten

\* _cache_scope, apart from what it takes of the request itself.
CacheScope(tenant) ==
    IF settings.perTenant /\ tenant \in Tenants THEN tenant ELSE None

ConcludedBilling(q) ==                  \* mutant: what a broken stream had used is billed
    CASE q.result = "hit" -> Over([Counted(q, "success") EXCEPT !.event = "hit"], 200)
      [] q.result \in {"rejected", "failed"} -> Over(Counted(Flagged(q), "error"), 502)
      [] OTHER -> Over(Billed(q), 200)

\* What the handler still does: a hit and a failure are counted only now, and
\* what was used is billed.  (502 stands for any error status, the provider's
\* own included.)
Concluded(q) ==
    CASE q.result = "hit" -> Over([Counted(q, "success") EXCEPT !.event = "hit"], 200)
      [] q.result \in {"rejected", "failed"} -> Over(Counted(Flagged(q), "error"), 502)
      [] q.result = "served" -> Over(Billed(q), 200)
      [] q.result = "broken" -> Over(q, 200)

\* cache.set
Store(q) ==
    cached' = cached \cup {[scope |-> CacheScope(q.tenant), prompt |-> q.prompt, by |-> q.tenant]}

\* The handler goes on to its end: the answer of a provider is cached.
Conclude(r, q) ==
    /\ Becomes(r, Concluded(q))
    /\ IF q.result = "served" /\ ~ q.stream /\ settings.cache THEN Store(q)
       ELSE UNCHANGED cached

\* The charge of a tenant is corrected first.
Correct(r, q, result, actual) ==
    IF q.tenant \in Tenants
    THEN Becomes(r, Settling(q, result, actual)) /\ UNCHANGED cached
    ELSE Conclude(r, [q EXCEPT !.result = result])

-----------------------------------------------------------------------------
\* Up to admission.

\* The key is not known, or the alias is not.
TurnAway(r) ==
    /\ requests[r].pc = "new"
    /\ \E status \in IF settings.tenants THEN {400, 401} ELSE {400} : Becomes(r, Over(Flagged(requests[r]), status))
    /\ UNCHANGED <<spent, cached, settings, model, doubt>>

\* There is no tenant to be asked for.
ArriveAnonymous(r) ==
    /\ requests[r].pc = "new" /\ ~ settings.tenants
    /\ \E prompt \in Prompts, stream \in BOOLEAN :
          Becomes(r, Admitted([requests[r] EXCEPT !.tenant = Anonymous,
                                  !.prompt = prompt, !.stream = stream]))
    /\ UNCHANGED <<spent, cached, settings, model, doubt>>

\* Both are; the limiter is asked.
Arrive(r) ==
    /\ requests[r].pc = "new" /\ settings.tenants
    /\ \E tenant \in Tenants, prompt \in Prompts, stream \in BOOLEAN, est \in Estimates :
          Becomes(r, [requests[r] EXCEPT !.pc = "checking", !.tenant = tenant,
                         !.prompt = prompt, !.stream = stream, !.est = est])
    /\ UNCHANGED <<spent, cached, settings, model, doubt>>

Admit(r) ==
    /\ requests[r].pc = "checking"
    /\ Charge(requests[r], requests[r].est)
    /\ Becomes(r, Admitted([requests[r] EXCEPT !.slot = TRUE]))
    /\ UNCHANGED <<cached, settings, model, doubt>>

Throttle(r) ==
    /\ requests[r].pc = "checking"
    /\ Becomes(r, Over(Counted(Flagged(requests[r]), "throttled"), 429))
    /\ UNCHANGED <<spent, cached, settings, model, doubt>>

\* check raises; whether the script ran is open.
CheckFails(r) ==
    /\ RedisMayFail
    /\ requests[r].pc = "checking"
    /\ \E done \in BOOLEAN :
          /\ Charge(requests[r], IF done THEN requests[r].est ELSE 0)
          /\ Becomes(r, Over([requests[r] EXCEPT !.result = "crashed", !.slot = done], 500))
    /\ UNCHANGED <<cached, settings, model, doubt>>

-----------------------------------------------------------------------------
\* Without streaming.

Loading == {r \in Requests : requests[r].pc = "loading"}

\* _ensure_model, in a thread of the pool: the look without the lock.
LookForModel(r) ==
    /\ requests[r].pc = "queued"
    /\ Becomes(r, [requests[r] EXCEPT !.pc = IF model THEN "embedding" ELSE "waiting"])
    /\ UNCHANGED <<spent, cached, settings, model, doubt>>

LockUnchecked(r) ==                     \* mutant: no second look
    /\ requests[r].pc = "waiting" /\ Loading = {}
    /\ Becomes(r, [requests[r] EXCEPT !.pc = "loading"])
    /\ UNCHANGED <<spent, cached, settings, model, doubt>>

\* The lock is free, and there is a second look.
Lock(r) ==
    /\ requests[r].pc = "waiting" /\ Loading = {}
    /\ Becomes(r, [requests[r] EXCEPT !.pc = IF model THEN "embedding" ELSE "loading"])
    /\ UNCHANGED <<spent, cached, settings, model, doubt>>

Load(r) ==
    /\ requests[r].pc = "loading"
    /\ model' = TRUE
    /\ Becomes(r, [requests[r] EXCEPT !.pc = "embedding"])
    /\ UNCHANGED <<spent, cached, settings, doubt>>

Fitting(q) == {a \in cached : a.scope = CacheScope(q.tenant) /\ a.prompt = q.prompt}

\* The prompt is embedded, the cache read: on a hit the estimate is refunded.
Hit(r) ==
    /\ requests[r].pc = "embedding"
    /\ \E a \in Fitting(requests[r]) :
          Correct(r, [requests[r] EXCEPT !.answerOf = a.by], "hit", 0)
    /\ UNCHANGED <<spent, settings, model, doubt>>

Miss(r) ==
    /\ requests[r].pc = "embedding"
    /\ Becomes(r, [requests[r] EXCEPT !.pc = "executing", !.event = "miss"])
    /\ UNCHANGED <<spent, cached, settings, model, doubt>>

\* execute returns.  The request is counted, then the bucket is corrected if
\* the provider reported what was used, then the answer is cached.
Serve(r) ==
    /\ requests[r].pc = "executing"
    /\ LET q == Counted([requests[r] EXCEPT !.tried = TRUE], "success")
       IN  \/ \E usage \in Usages :
                 Correct(r, [q EXCEPT !.used = usage, !.total = TRUE], "served", usage)
           \/ Conclude(r, [q EXCEPT !.result = "served"])
    /\ UNCHANGED <<spent, settings, model, doubt>>

\* execute or execute_stream raises UpstreamError, or AllTargetsFailed, the
\* latter perhaps without a call to any provider.
Unserved(r) ==
    /\ requests[r].pc \in {"executing", "opening"}
    /\ \/ Correct(r, [requests[r] EXCEPT !.tried = TRUE], "rejected", 0)
       \/ \E tried \in BOOLEAN : Correct(r, [requests[r] EXCEPT !.tried = tried], "failed", 0)
    /\ UNCHANGED <<spent, settings, model, doubt>>

\* Anything else is raised: the framework answers 500, and nothing more is done.
Crash(r) ==
    /\ MayCrash
    /\ requests[r].pc \in {"loading", "embedding", "executing", "opening"}
    /\ Becomes(r, Over([requests[r] EXCEPT !.result = "crashed",
                           !.tried = requests[r].pc \in {"executing", "opening"}], 500))
    /\ UNCHANGED <<spent, cached, settings, model, doubt>>

-----------------------------------------------------------------------------
\* Streaming.

\* The first chunk is there: the request counts as a success, and the response
\* is handed to the framework.
Open(r) ==
    /\ requests[r].pc = "opening"
    /\ Becomes(r, Counted([requests[r] EXCEPT !.pc = "responding", !.tried = TRUE,
                              !.status = 200], "success"))
    /\ UNCHANGED <<spent, cached, settings, model, doubt>>

\* stream_sse is iterated for the first time.
Start(r) ==
    /\ requests[r].pc = "responding"
    /\ Becomes(r, [requests[r] EXCEPT !.pc = "streaming"])
    /\ UNCHANGED <<spent, cached, settings, model, doubt>>

\* A chunk with usage is passed on; of several, the last counts.  Nobody has
\* checked that it names a total.
Tap(r) ==
    /\ requests[r].pc = "streaming"
    /\ \E usage \in Usages, total \in BOOLEAN :
          Becomes(r, [requests[r] EXCEPT !.used = usage, !.total = total])
    /\ UNCHANGED <<spent, cached, settings, model, doubt>>

CompleteFree(r) ==                      \* mutant: no usage is taken for zero usage
    /\ requests[r].pc = "streaming"
    /\ LET q == requests[r]
       IN  Correct(r, q, "served", IF q.total THEN q.used ELSE 0)
    /\ UNCHANGED <<spent, settings, model, doubt>>

\* All of it, [DONE] included, has been sent: on_finish(usage, True).  Without a
\* total there is nothing to correct by; what was used is billed all the same.
Complete(r) ==
    /\ requests[r].pc = "streaming"
    /\ LET q == requests[r]
       IN  IF q.total THEN Correct(r, q, "served", q.used)
           ELSE Conclude(r, [q EXCEPT !.result = "served"])
    /\ UNCHANGED <<spent, settings, model, doubt>>

BreakUnseen(r) ==                       \* mutant: no error is recorded
    /\ requests[r].pc = "streaming"
    /\ Correct(r, requests[r], "broken", 0)
    /\ UNCHANGED <<spent, settings, model, doubt>>

\* The provider or the client breaks it off: on_finish(None, False), whatever
\* usage was seen.
Break(r) ==
    /\ requests[r].pc = "streaming"
    /\ Correct(r, Flagged(requests[r]), "broken", 0)
    /\ UNCHANGED <<spent, settings, model, doubt>>

\* The client is gone before stream_sse is iterated: its finally never runs.
Vanish(r) ==
    /\ MayDisconnect
    /\ requests[r].pc = "responding"
    /\ Becomes(r, Over([requests[r] EXCEPT !.result = "vanished"], 200))
    /\ doubt' = doubt \cup {r}
    /\ UNCHANGED <<spent, cached, settings, model>>

-----------------------------------------------------------------------------
\* After reconcile.

Settle(r) ==
    /\ requests[r].pc = "settling"
    /\ Charge(requests[r], requests[r].due - requests[r].est)
    /\ Conclude(r, requests[r])
    /\ UNCHANGED <<settings, model, doubt>>

\* reconcile raises: Redis fails, or the response of a client that has gone is
\* cancelled in the await.  Whether the correction was made is open; the rest
\* of the handler does not run.
SettleFails(r) ==
    /\ requests[r].pc = "settling" /\ requests[r].due # requests[r].est
    /\ RedisMayFail \/ (MayDisconnect /\ requests[r].result = "broken")
    /\ LET q == requests[r]
       IN  /\ \E done \in BOOLEAN : Charge(q, IF done THEN q.due - q.est ELSE 0)
           /\ Becomes(r, IF q.stream /\ q.result \in {"served", "broken"} THEN Over(q, 200)
                         ELSE Over([q EXCEPT !.result = "crashed"], 500))
    /\ doubt' = doubt \cup {r}
    /\ UNCHANGED <<cached, settings, model>>

\* An entry expires or is evicted.
Forget ==
    /\ \E a \in cached : cached' = cached \ {a}
    /\ UNCHANGED <<requests, spent, settings, model, doubt>>

Finished == \A r \in Requests : requests[r].pc = "done"

Next ==
    \/ \E r \in Requests :
          \/ TurnAway(r) \/ ArriveAnonymous(r) \/ Arrive(r) \/ Admit(r) \/ Throttle(r) \/ CheckFails(r)
          \/ LookForModel(r) \/ Lock(r) \/ Load(r) \/ Hit(r) \/ Miss(r) \/ Serve(r) \/ Unserved(r) \/ Crash(r)
          \/ Open(r) \/ Start(r) \/ Tap(r) \/ Complete(r) \/ Break(r) \/ Vanish(r)
          \/ Settle(r) \/ SettleFails(r)
    \/ Forget
    \/ Finished /\ UNCHANGED vars

Spec == Init /\ [][Next]_vars

-----------------------------------------------------------------------------
\* Properties.

\* What a request should have taken from the token bucket by now: its estimate
\* from admission to correction; then the total that the provider named, the
\* estimate if it named none or the handler crashed, and nothing if nothing usable
\* came of it.
Owed(q) ==
    IF ~ q.slot THEN 0
    ELSE IF q.pc # "done" \/ q.result = "crashed" THEN q.est
    ELSE IF q.result # "served" THEN 0
    ELSE IF q.total THEN q.used ELSE q.est

\* What it has taken: what it owes; but one in doubt may still be charged its
\* estimate, if its correction is among those lost.
Taken(r, lost) ==
    IF r \notin doubt THEN Owed(requests[r])
    ELSE IF r \in lost THEN requests[r].est ELSE requests[r].due

\* Whatever fails, the tokens taken of a tenant are what its own requests owe,
\* but for those of its requests whose correction Redis or a vanished client has
\* prevented, which keep their estimate: none is charged twice, refunded twice,
\* or to the wrong tenant, and no failure reaches the charge of another request.
ChargesAreOwed ==
    \A t \in Tenants :
        LET own == {r \in Requests : requests[r].tenant = t}
        IN  \E lost \in SUBSET (own \cap doubt) :
                spent[t] = SumFunction([r \in own |-> Taken(r, lost)])

\* Metrics tell of a request that the handler saw to its end what became of it,
\* Redis failing or not.  If it was past authentication and alias validation it
\* is in switchyard_requests once, under what its client was told.  It is an
\* error if the client got one, or if its stream broke off, which status 200
\* hides.  It is one cache event.  (A stream nobody iterated leaves no trace.)
CountedAsAnswered ==
    \A r \in Requests :
        LET q == requests[r]
        IN  q.pc = "done" /\ q.result # "crashed" =>
              /\ q.counted = [o \in Outcomes |->
                    IF q.tenant # None /\ o = (CASE q.status = 200 -> "success"
                                                 [] q.status = 429 -> "throttled"
                                                 [] OTHER          -> "error")
                    THEN 1 ELSE 0]
              /\ q.errors = IF q.status >= 400 \/ q.result = "broken" THEN 1 ELSE 0
              /\ q.event = IF q.status \in {400, 401, 429} THEN None
                           ELSE IF q.stream THEN "bypass"
                           ELSE IF ~ settings.cache THEN None
                           ELSE IF q.result = "hit" THEN "hit" ELSE "miss"

\* With cache_per_tenant, no request is answered with another tenant's answer.
AnswersStayWithTenant ==
    settings.perTenant => \A r \in Requests : requests[r].answerOf \in {requests[r].tenant, None}

\* Tokens and cost are billed for complete answers only, once, and then what the
\* provider reported, a total among it or not; and for every one of them but those
\* whose own correction is lost.
BilledIfComplete ==
    \A r \in Requests :
        LET q   == requests[r]
            due == IF q.result = "served" /\ q.used # NoUsage THEN q.used ELSE 0
        IN  /\ q.billed \in {0, due}
            /\ r \notin doubt /\ q.pc = "done" => q.billed = due

\* Requests that come together do not each load the embedding model.
ModelLoadedOnce == Cardinality(Loading) + (IF model THEN 1 ELSE 0) <= 1
=============================================================================
