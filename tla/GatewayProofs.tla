---------------------------- MODULE GatewayProofs ----------------------------
(***************************************************************************)
(* Theorems about Gateway, for any number of requests, tenants and         *)
(* prompts: the type invariant, that metrics, billing and cached answers   *)
(* go with what became of each request, and that the embedding model is    *)
(* loaded once.  All follow from one inductive invariant.                  *)
(*                                                                         *)
(* Only two of its parts are about more than one request.  The rest, Good, *)
(* says of each request by itself what its record may hold where it        *)
(* stands, so that a step is checked for the request that takes it.        *)
(*                                                                         *)
(* That the charges of each tenant are right, for any finite number of     *)
(* requests, is about a sum over them: each step is shown to take from the *)
(* buckets what the one request that makes it owes more than before.       *)
(***************************************************************************)
EXTENDS Gateway, FiniteSetTheorems, TLAPS

-----------------------------------------------------------------------------
\* The inductive invariant.

\* Counted once as o, or not yet.
Once(o) == [p \in Outcomes |-> IF p = o THEN 1 ELSE 0]

Uncounted == [p \in Outcomes |-> 0]

BeforeCache == {"queued", "waiting", "loading", "embedding"}

BeforeAnswer == {"new", "checking", "executing", "opening"} \cup BeforeCache

\* The cache event of a request that was not answered from the cache.
Event(q, s) == IF q.stream THEN "bypass" ELSE IF s.cache THEN "miss" ELSE None

\* Who asks what is known.
Known(q) == q.tenant \in Callers /\ q.prompt \in Prompts

\* Until there is an answer nothing is counted or used.
Begun(q) ==
    /\ q.counted = Uncounted /\ q.errors = 0
    /\ q.used = NoUsage /\ ~ q.total /\ q.result = None /\ q.answerOf = None
    /\ q.pc = "new" => q.tenant = None
    /\ q.pc # "new" => Known(q)

\* The cache is asked before a provider, and not for a stream.
Asked(q, s) ==
    /\ q.pc \in {"new", "checking"} \cup BeforeCache => q.event = None
    /\ q.pc \in BeforeCache \cup {"executing"} => ~ q.stream
    /\ q.pc \in BeforeCache => s.cache
    /\ q.pc = "opening" => q.stream
    /\ q.pc \in {"executing", "opening"} => q.event = Event(q, s)

\* A stream counts as a success when it opens.
Flowing(q) ==
    /\ q.stream /\ q.event = "bypass" /\ Known(q) /\ q.answerOf = None
    /\ q.counted = Once("success") /\ q.errors = 0
    /\ q.result = None /\ (q.total => q.used # NoUsage)

\* What is left to do depends on how it ended.
Ended(q, s) ==
    /\ Known(q)
    /\ q.result \in {"hit", "served", "rejected", "failed", "broken"}
    /\ q.result = "hit" => ~ q.stream /\ s.cache /\ q.event = None
    /\ q.result # "hit" => q.event = Event(q, s) /\ q.answerOf = None
    /\ q.result = "broken" => q.stream
    /\ q.counted = IF q.result \in {"served", "broken"} THEN Once("success") ELSE Uncounted
    /\ q.errors = IF q.result = "broken" THEN 1 ELSE 0

\* What its client was told.
Told(status) ==
    CASE status = 200 -> "success" [] status = 429 -> "throttled" [] OTHER -> "error"

\* CountedAsAnswered, of one request that ends with this status.
Recorded(q, status, s) ==
    /\ q.counted = IF q.tenant = None THEN Uncounted ELSE Once(Told(status))
    /\ q.errors = IF status >= 400 \/ q.result = "broken" THEN 1 ELSE 0
    /\ q.event = IF status \in {400, 401, 429} THEN None
                 ELSE IF q.result = "hit" /\ ~ q.stream /\ s.cache THEN "hit" ELSE Event(q, s)

\* What is billed for it, if all goes well.
Bill(q) == IF q.result = "served" /\ q.used # NoUsage THEN q.used ELSE 0

Good(q, s, r, D) ==
    /\ q \in Request
    /\ q.pc \in BeforeAnswer => Begun(q) /\ Asked(q, s)
    /\ q.pc \in {"responding", "streaming"} => Flowing(q)
    /\ q.pc = "settling" => Ended(q, s)
    /\ q.pc = "done" /\ q.result # "crashed" => Recorded(q, q.status, s)
    /\ q.pc # "done" => q.billed = 0
    /\ q.billed \in {0, Bill(q)}
    /\ r \notin D /\ q.pc = "done" => q.billed = Bill(q)
    /\ s.perTenant => q.answerOf \in {q.tenant, None}

\* The cache keeps an answer where its owner's requests find it.
Kept == \A a \in cached : a.scope = CacheScope(a.by)

\* The lock is held by one, and by none when the model is there.
OneLoad ==
    /\ \A r1, r2 \in Loading : r1 = r2
    /\ model => Loading = {}

IInv ==
    /\ TypeOK
    /\ Kept
    /\ OneLoad
    /\ \A r \in Requests : Good(requests[r], settings, r, doubt)

-----------------------------------------------------------------------------
\* One request.

LEMMA ConstantTypes ==
    /\ Estimates \subseteq Nat /\ Usages \subseteq Nat /\ None \notin Tenants
    /\ NoUsage \in Int /\ NoUsage \notin Usages
<1> QED BY GatewayAssumption DEF NoUsage

Where == BeforeAnswer \cup {"responding", "streaming", "settling", "done"}

Results == {None, "hit", "served", "rejected", "failed", "broken", "vanished", "crashed"}

\* A record with another value in one field is a record.
LEMMA Updates ==
    ASSUME NEW q \in Request
    PROVE  /\ \A x \in Where : [q EXCEPT !.pc = x] \in Request
           /\ \A x \in Callers : [q EXCEPT !.tenant = x] \in Request
           /\ \A x \in Prompts : [q EXCEPT !.prompt = x] \in Request
           /\ \A x \in BOOLEAN : [q EXCEPT !.stream = x] \in Request
           /\ \A x \in Estimates : [q EXCEPT !.est = x] \in Request
           /\ \A x \in BOOLEAN : [q EXCEPT !.slot = x] \in Request
           /\ \A x \in BOOLEAN : [q EXCEPT !.tried = x] \in Request
           /\ \A x \in Usages : [q EXCEPT !.used = x] \in Request
           /\ \A x \in BOOLEAN : [q EXCEPT !.total = x] \in Request
           /\ \A x \in Usages \cup {0} : [q EXCEPT !.due = x] \in Request
           /\ \A x \in Results : [q EXCEPT !.result = x] \in Request
           /\ \A x \in {None, "bypass", "hit", "miss"} : [q EXCEPT !.event = x] \in Request
           /\ \A x \in Callers : [q EXCEPT !.answerOf = x] \in Request
<1>1. \A x \in Where : [q EXCEPT !.pc = x] \in Request
  BY DEF Where, BeforeAnswer, BeforeCache, Request
<1>2. \A x \in Callers : [q EXCEPT !.tenant = x] \in Request
  BY DEF Request
<1>3. \A x \in Prompts : [q EXCEPT !.prompt = x] \in Request
  BY DEF Request
<1>4. \A x \in BOOLEAN : [q EXCEPT !.stream = x] \in Request
  BY DEF Request
<1>5. \A x \in Estimates : [q EXCEPT !.est = x] \in Request
  BY DEF Request
<1>6. \A x \in BOOLEAN : [q EXCEPT !.slot = x] \in Request
  BY DEF Request
<1>7. \A x \in BOOLEAN : [q EXCEPT !.tried = x] \in Request
  BY DEF Request
<1>8. \A x \in Usages : [q EXCEPT !.used = x] \in Request
  BY DEF Request
<1>9. \A x \in Usages \cup {0} : [q EXCEPT !.due = x] \in Request
  BY DEF Request
<1>10. \A x \in Results : [q EXCEPT !.result = x] \in Request
  BY DEF Results, Request
<1>11. \A x \in {None, "bypass", "hit", "miss"} : [q EXCEPT !.event = x] \in Request
  BY DEF Request
<1>12. \A x \in Callers : [q EXCEPT !.answerOf = x] \in Request
  BY DEF Request
<1>13. \A x \in BOOLEAN : [q EXCEPT !.total = x] \in Request
  BY DEF Request
<1> QED BY <1>1, <1>2, <1>3, <1>4, <1>5, <1>6, <1>7, <1>8, <1>9, <1>10, <1>11, <1>12, <1>13

\* Estimates and corrections are numbers.
LEMMA Numbers == ASSUME NEW q \in Request PROVE q.est \in Nat /\ q.due \in Nat
<1>1. q.est \in Estimates \cup {0} /\ q.due \in Usages \cup {0}
  BY DEF Request
<1>2. Estimates \cup {0} \subseteq Nat /\ Usages \cup {0} \subseteq Nat
  BY ConstantTypes
<1> QED BY <1>1, <1>2

\* Counting it for the first time.
LEMMA CountedIs ==
    ASSUME NEW q \in Request, NEW o \in Outcomes, q.counted = Uncounted
    PROVE  /\ Counted(q, o) \in Request
           /\ Counted(q, o).counted = Once(o)
           /\ Counted(q, o) = [q EXCEPT !.counted = Once(o)]
<1>1. [q.counted EXCEPT ![o] = @ + 1] = Once(o)
  BY DEF Uncounted, Once
<1>2. Once(o) \in [Outcomes -> 0 .. 1]
  BY DEF Once
<1>3. Counted(q, o) = [q EXCEPT !.counted = Once(o)]
  BY <1>1 DEF Counted, Request
<1>4. [q EXCEPT !.counted = Once(o)] \in Request /\ [q EXCEPT !.counted = Once(o)].counted = Once(o)
  BY <1>2 DEF Request
<1> QED BY <1>3, <1>4

\* Its first error.
LEMMA FlaggedIs ==
    ASSUME NEW q \in Request, q.errors = 0
    PROVE  Flagged(q) \in Request /\ Flagged(q) = [q EXCEPT !.errors = 1]
<1>1. Flagged(q) = [q EXCEPT !.errors = 1]
  BY DEF Flagged
<1>2. [q EXCEPT !.errors = 1] \in Request
  BY DEF Request
<1> QED BY <1>1, <1>2

\* Nobody loads the model because of a step that ends elsewhere.
LEMMA StillOneLoad ==
    ASSUME IInv, NEW r \in Requests, NEW q, q.pc # "loading",
           Becomes(r, q), model' = model
    PROVE  OneLoad'
<1>1. requests \in [Requests -> Request] /\ requests' = [requests EXCEPT ![r] = q]
  BY DEF IInv, TypeOK, Becomes
<1>2. Loading' \subseteq Loading
  BY <1>1 DEF Loading
<1> QED BY <1>2 DEF IInv, OneLoad

\* What is good stays good when something goes wrong elsewhere.
LEMMA DoubtIsHarmless ==
    ASSUME NEW q, NEW s, NEW r, NEW D, Good(q, s, r, D), NEW E, D \subseteq E
    PROVE  Good(q, s, r, E)
<1> QED BY DEF Good

\* A step of one request keeps the invariant if its record is good afterwards.
LEMMA Moved ==
    ASSUME IInv, NEW r \in Requests, NEW q, Becomes(r, q),
           Good(q, settings, r, doubt'), doubt' \subseteq Requests, doubt \subseteq doubt',
           spent' \in [Tenants -> Int], UNCHANGED settings, model' \in BOOLEAN,
           cached' \subseteq [scope : Tenants \cup {None}, prompt : Prompts, by : Callers],
           Kept', OneLoad'
    PROVE  IInv'
<1>1. q \in Request /\ requests \in [Requests -> Request]
  BY DEF Good, IInv, TypeOK
<1>2. requests' \in [Requests -> Request]
  BY <1>1 DEF Becomes
<1>3. TypeOK'
  BY <1>2 DEF IInv, TypeOK
<1>4. ASSUME NEW x \in Requests PROVE Good(requests'[x], settings, x, doubt')
  <2>1. requests'[x] = IF x = r THEN q ELSE requests[x]
    BY <1>1 DEF Becomes
  <2>2. Good(requests[x], settings, x, doubt)
    BY DEF IInv
  <2>3. Good(requests[x], settings, x, doubt')
    BY <2>2, DoubtIsHarmless
  <2> QED BY <2>1, <2>3
<1>5. \A x \in Requests : Good(requests'[x], settings', x, doubt')
  BY <1>4
<1> QED BY <1>3, <1>5 DEF IInv

\* The usual case: neither the cache nor the model changes.
LEMMA Stepped ==
    ASSUME IInv, NEW r \in Requests, NEW q, Becomes(r, q), q.pc # "loading",
           Good(q, settings, r, doubt'), doubt' \subseteq Requests, doubt \subseteq doubt',
           spent' \in [Tenants -> Int], UNCHANGED <<cached, settings, model>>
    PROVE  IInv'
<1>1. OneLoad'
  BY StillOneLoad
<1>2. Kept'
  BY DEF IInv, Kept, CacheScope
<1>3. /\ model' \in BOOLEAN
      /\ cached' \subseteq [scope : Tenants \cup {None}, prompt : Prompts, by : Callers]
  BY DEF IInv, TypeOK
<1> QED BY <1>1, <1>2, <1>3, Moved

\* A charge is a number of tokens.
LEMMA ChargeType ==
    ASSUME IInv, NEW q, NEW tokens \in Int, Charge(q, tokens)
    PROVE  spent' \in [Tenants -> Int]
<1>1. spent \in [Tenants -> Int] /\ spent' = [spent EXCEPT ![q.tenant] = @ + tokens]
  BY DEF IInv, TypeOK, Charge
<1>2. ASSUME NEW t \in Tenants PROVE spent'[t] \in Int
  BY <1>1
<1>3. spent' = [t \in Tenants |-> spent'[t]]
  BY <1>1
<1> QED BY <1>2, <1>3

-----------------------------------------------------------------------------
\* The end of the handler.

\* Whatever ends, its record is what was recorded before, with its status.
LEMMA OverIsGood ==
    ASSUME NEW q \in Request, NEW s, NEW r, NEW D,
           NEW status \in {0, 200, 400, 401, 429, 500, 502},
           q.result # "crashed" => Recorded(q, status, s),
           q.billed \in {0, Bill(q)}, r \notin D => q.billed = Bill(q),
           s.perTenant => q.answerOf \in {q.tenant, None}
    PROVE  Good(Over(q, status), s, r, D) /\ Over(q, status).pc = "done"
<1> DEFINE p == Over(q, status)
<1>1. p \in Request
  <2>1. PICK x \in Request : x = [q EXCEPT !.pc = "done"]
    <3>1. [q EXCEPT !.pc = "done"] \in Request
      BY DEF Request
    <3> QED BY <3>1
  <2>2. [x EXCEPT !.status = status] \in Request
    BY DEF Request
  <2>3. p = [x EXCEPT !.status = status]
    BY <2>1 DEF Over
  <2> HIDE DEF p
  <2> QED BY <2>2, <2>3
<1>2. /\ p.pc = "done" /\ p.status = status /\ p.result = q.result
      /\ p.billed = q.billed /\ p.used = q.used
      /\ p.answerOf = q.answerOf /\ p.tenant = q.tenant
  BY DEF Over, Request
<1>3. Bill(p) = Bill(q)
  BY <1>2 DEF Bill
<1>4. Recorded(q, status, s) => Recorded(p, p.status, s)
  <2>1. p.counted = q.counted /\ p.errors = q.errors /\ p.event = q.event /\ p.stream = q.stream
    BY DEF Over, Request
  <2> HIDE DEF p
  <2> QED BY <1>2, <2>1 DEF Recorded, Event
<1> HIDE DEF p
<1>5. p.pc \notin BeforeAnswer /\ p.pc \notin {"responding", "streaming", "settling"}
  BY <1>2 DEF BeforeAnswer, BeforeCache
<1>6. Good(p, s, r, D)
  BY <1>1, <1>2, <1>3, <1>4, <1>5 DEF Good
<1> QED BY <1>2, <1>6 DEF p

LEMMA ConcludedIsGood ==
    ASSUME NEW q \in Request, NEW s, NEW r, NEW D, Ended(q, s), q.billed = 0,
           s.perTenant => q.answerOf \in {q.tenant, None}
    PROVE  Good(Concluded(q), s, r, D) /\ Concluded(q).pc = "done"
<1>1. q.tenant # None
  BY ConstantTypes DEF Ended, Known, Callers, Anonymous, None
<1>2. ASSUME q.result = "hit"
      PROVE  Good(Concluded(q), s, r, D) /\ Concluded(q).pc = "done"
  <2>1. q.counted = Uncounted /\ q.errors = 0 /\ ~ q.stream /\ s.cache
    BY <1>2 DEF Ended
  <2> DEFINE p == [Counted(q, "success") EXCEPT !.event = "hit"]
  <2>2. PICK c \in Request : c = Counted(q, "success")
    BY <2>1, CountedIs DEF Outcomes
  <2>3. /\ c.counted = Once("success") /\ c.errors = 0 /\ ~ c.stream /\ c.result = "hit"
        /\ c.tenant = q.tenant /\ c.answerOf = q.answerOf /\ c.billed = 0
    BY <1>2, <2>1, <2>2, CountedIs DEF Outcomes, Request
  <2>4. /\ p \in Request /\ p.counted = Once("success") /\ p.errors = 0 /\ ~ p.stream
        /\ p.result = "hit" /\ p.tenant = q.tenant /\ p.answerOf = q.answerOf
        /\ p.billed = 0 /\ p.event = "hit"
    BY <2>2, <2>3 DEF Request
  <2>5. Concluded(q) = Over(p, 200)
    BY <1>2 DEF Concluded
  <2> HIDE DEF p
  <2>6. Recorded(p, 200, s)
    BY <1>1, <2>1, <2>4 DEF Recorded, Told, None
  <2>7. p.billed = Bill(p)
    BY <2>4 DEF Bill
  <2>8. s.perTenant => p.answerOf \in {p.tenant, None}
    BY <2>4
  <2> QED BY <2>4, <2>5, <2>6, <2>7, <2>8, OverIsGood
<1>3. ASSUME q.result \in {"rejected", "failed"}
      PROVE  Good(Concluded(q), s, r, D) /\ Concluded(q).pc = "done"
  <2>1. q.counted = Uncounted /\ q.errors = 0 /\ q.event = Event(q, s)
    BY <1>3 DEF Ended
  <2>2. PICK f \in Request : f = Flagged(q)
    BY <2>1, FlaggedIs
  <2>3. f.counted = Uncounted /\ f.errors = 1 /\ f.event = q.event /\ f.stream = q.stream
        /\ f.result = q.result /\ f.tenant = q.tenant /\ f.answerOf = q.answerOf /\ f.billed = 0
    BY <2>1, <2>2, FlaggedIs DEF Request
  <2>4. PICK p \in Request : p = Counted(f, "error")
    BY <2>3, CountedIs DEF Outcomes
  <2>5. p.counted = Once("error") /\ p.errors = 1 /\ p.event = q.event /\ p.stream = q.stream
        /\ p.result = q.result /\ p.tenant = q.tenant /\ p.answerOf = q.answerOf /\ p.billed = 0
    BY <2>3, <2>4, CountedIs DEF Outcomes, Request
  <2>6. Concluded(q) = Over(p, 502)
    BY <1>3, <2>2, <2>4 DEF Concluded
  <2>7. Recorded(p, 502, s)
    BY <1>1, <1>3, <2>1, <2>5 DEF Recorded, Told, Event
  <2> QED BY <1>3, <2>5, <2>6, <2>7, OverIsGood DEF Bill
<1>4. ASSUME q.result = "served"
      PROVE  Good(Concluded(q), s, r, D) /\ Concluded(q).pc = "done"
  <2>1. q.counted = Once("success") /\ q.errors = 0 /\ q.event = Event(q, s)
    BY <1>4 DEF Ended
  <2>2. Billed(q) \in Request /\ Billed(q).billed = Bill(q)
    <3>1. q.used \in Usages \cup {NoUsage}
      BY DEF Request
    <3>2. q.used # NoUsage => 0 + q.used = q.used
      <4> SUFFICES ASSUME q.used # NoUsage PROVE 0 + q.used = q.used
        OBVIOUS
      <4>1. q.used \in Nat
        BY <3>1, ConstantTypes
      <4> QED BY <4>1
    <3> QED BY <1>4, <3>1, <3>2 DEF Billed, Bill, Request
  <2>3. PICK p \in Request : p = Billed(q)
    BY <2>2
  <2>4. /\ p.counted = Once("success") /\ p.errors = 0 /\ p.event = q.event
        /\ p.stream = q.stream /\ p.result = q.result /\ p.tenant = q.tenant
        /\ p.answerOf = q.answerOf /\ p.used = q.used /\ p.billed = Bill(q)
    BY <2>1, <2>2, <2>3 DEF Billed, Request
  <2>5. Concluded(q) = Over(p, 200)
    BY <1>4, <2>3 DEF Concluded
  <2>6. Recorded(p, 200, s)
    BY <1>1, <1>4, <2>1, <2>4 DEF Recorded, Told, Event
  <2>7. p.billed = Bill(p)
    BY <2>4 DEF Bill
  <2> QED BY <2>4, <2>5, <2>6, <2>7, OverIsGood
<1>5. ASSUME q.result = "broken"
      PROVE  Good(Concluded(q), s, r, D) /\ Concluded(q).pc = "done"
  <2>1. q.counted = Once("success") /\ q.errors = 1 /\ q.event = Event(q, s) /\ q.stream
    BY <1>5 DEF Ended
  <2>2. Concluded(q) = Over(q, 200)
    BY <1>5 DEF Concluded
  <2>3. Recorded(q, 200, s)
    BY <1>1, <1>5, <2>1 DEF Recorded, Told, Event
  <2> QED BY <1>5, <2>2, <2>3, OverIsGood DEF Bill
<1> QED BY <1>2, <1>3, <1>4, <1>5 DEF Ended

\* The end of the handler keeps the invariant.
LEMMA ConcludeKeeps ==
    ASSUME IInv, NEW r \in Requests, NEW q \in Request, Ended(q, settings), q.billed = 0,
           settings.perTenant => q.answerOf \in {q.tenant, None}, Conclude(r, q),
           doubt' \subseteq Requests, doubt \subseteq doubt', spent' \in [Tenants -> Int],
           UNCHANGED <<settings, model>>
    PROVE  IInv'
<1>1. Good(Concluded(q), settings, r, doubt') /\ Concluded(q).pc = "done"
  BY ConcludedIsGood
<1>2. Becomes(r, Concluded(q))
  BY DEF Conclude
<1>3. OneLoad'
  BY <1>1, <1>2, StillOneLoad
<1>4. /\ model' \in BOOLEAN /\ Kept
      /\ cached \subseteq [scope : Tenants \cup {None}, prompt : Prompts, by : Callers]
  BY DEF IInv, TypeOK
<1> DEFINE a == [scope |-> CacheScope(q.tenant), prompt |-> q.prompt, by |-> q.tenant]
<1>5. cached' = cached \/ cached' = cached \cup {a}
  BY DEF Conclude, Store
<1>6. /\ a \in [scope : Tenants \cup {None}, prompt : Prompts, by : Callers]
      /\ a.scope = CacheScope(a.by)
  BY DEF Ended, Known, CacheScope
<1>7. cached' \subseteq [scope : Tenants \cup {None}, prompt : Prompts, by : Callers]
  BY <1>4, <1>5, <1>6
<1>8. Kept'
  <2>1. \A x \in cached' : x.scope = CacheScope(x.by)
    <3> HIDE DEF a
    <3> QED BY <1>4, <1>5, <1>6 DEF Kept
  <2> QED BY <2>1 DEF Kept, CacheScope
<1> QED BY <1>1, <1>2, <1>3, <1>4, <1>7, <1>8, Moved

\* So does asking for the correction first.
LEMMA CorrectKeeps ==
    ASSUME IInv, NEW r \in Requests, NEW q \in Request, NEW result, NEW actual \in Usages \cup {0},
           NEW e \in Request, e = [q EXCEPT !.result = result], Ended(e, settings), e.billed = 0,
           settings.perTenant => e.answerOf \in {e.tenant, None}, Correct(r, q, result, actual),
           UNCHANGED <<spent, settings, model, doubt>>
    PROVE  IInv'
<1>1. doubt \subseteq Requests /\ spent' \in [Tenants -> Int]
  BY DEF IInv, TypeOK
<1>2. CASE q.tenant \in Tenants
  <2> DEFINE p == Settling(q, result, actual)
  <2>1. Becomes(r, p) /\ UNCHANGED cached
    BY <1>2 DEF Correct
  <2>2. PICK m \in Request : m = [[q EXCEPT !.pc = "settling"] EXCEPT !.result = result]
    <3>1. PICK n \in Request : n = [q EXCEPT !.pc = "settling"]
      BY Updates DEF Where
    <3>2. e.result = result
      BY DEF Request
    <3>3. result \in Results
      BY <3>2 DEF Ended, Results
    <3> QED BY <3>1, <3>3, Updates
  <2>3. p \in Request /\ p.pc = "settling"
    <3>1. p = [m EXCEPT !.due = actual]
      BY <2>2 DEF Settling
    <3>2. [m EXCEPT !.due = actual] \in Request
      BY Updates
    <3>3. p.pc = "settling"
      BY DEF Settling, Request
    <3> HIDE DEF p
    <3> QED BY <3>1, <3>2, <3>3
  <2>4. /\ p.tenant = e.tenant /\ p.prompt = e.prompt /\ p.stream = e.stream
        /\ p.result = e.result /\ p.event = e.event /\ p.answerOf = e.answerOf
        /\ p.counted = e.counted /\ p.errors = e.errors /\ p.billed = 0
    BY DEF Settling, Request
  <2> HIDE DEF p
  <2>5. Ended(p, settings)
    BY <2>4 DEF Ended, Known, Event
  <2>6. Good(p, settings, r, doubt)
    BY <2>3, <2>4, <2>5 DEF Good, BeforeAnswer, BeforeCache
  <2> QED BY <1>1, <2>1, <2>3, <2>6, Stepped
<1>3. CASE q.tenant \notin Tenants
  <2>1. Conclude(r, e)
    BY <1>3 DEF Correct
  <2> QED BY <1>1, <2>1, ConcludeKeeps
<1> QED BY <1>2, <1>3

-----------------------------------------------------------------------------
\* Up to admission.

\* A record where nothing has happened yet.
Blank(q) ==
    /\ q.counted = Uncounted /\ q.errors = 0 /\ q.billed = 0
    /\ q.used = NoUsage /\ ~ q.total
    /\ q.result = None /\ q.answerOf = None /\ q.event = None

\* Two of them differ in what was asked and where it stands.
LEMMA BlankIsGood ==
    ASSUME NEW q \in Request, Blank(q), NEW s, NEW r, NEW D,
           \/ q.pc = "checking" /\ Known(q)
           \/ q.pc \in BeforeCache /\ Known(q) /\ ~ q.stream /\ s.cache
           \/ q.pc = "executing" /\ Known(q) /\ ~ q.stream /\ ~ s.cache
    PROVE  Good(q, s, r, D)
<1>1. q.pc \in BeforeAnswer \ {"new"} /\ q.pc \notin {"responding", "streaming", "settling", "done"}
  BY DEF BeforeAnswer, BeforeCache
<1>2. Begun(q)
  BY <1>1 DEF Begun, Blank
<1>3. Asked(q, s)
  BY <1>1 DEF Asked, Blank, Event, BeforeCache
<1> QED BY <1>1, <1>2, <1>3 DEF Good, Blank

LEMMA AdmittedIsGood ==
    ASSUME NEW q \in Request, Blank(q), Known(q), NEW r, NEW D
    PROVE  Good(Admitted(q), settings, r, D) /\ Admitted(q).pc # "loading"
<1>1. CASE q.stream
  <2> DEFINE p == [q EXCEPT !.pc = "opening", !.event = "bypass"]
  <2>1. p \in Request
    <3>1. PICK m \in Request : m = [q EXCEPT !.pc = "opening"]
      BY Updates DEF Where, BeforeAnswer
    <3>2. [m EXCEPT !.event = "bypass"] \in Request
      BY Updates
    <3> QED BY <3>1, <3>2
  <2>2. /\ p.pc = "opening" /\ p.event = "bypass" /\ p.stream = q.stream
        /\ p.tenant = q.tenant /\ p.prompt = q.prompt
        /\ p.counted = q.counted /\ p.errors = q.errors /\ p.billed = q.billed
        /\ p.used = q.used /\ p.total = q.total
        /\ p.result = q.result /\ p.answerOf = q.answerOf
    BY DEF Request
  <2>3. Admitted(q) = p
    BY <1>1 DEF Admitted
  <2> HIDE DEF p
  <2>4. p.pc \in BeforeAnswer \ ({"new", "checking", "executing"} \cup BeforeCache)
        /\ p.pc \notin {"responding", "streaming", "settling", "done"}
    BY <2>2 DEF BeforeAnswer, BeforeCache
  <2>5. Begun(p) /\ Asked(p, settings)
    BY <1>1, <2>2, <2>4 DEF Begun, Asked, Blank, Known, Event
  <2>6. Good(p, settings, r, D)
    BY <2>1, <2>2, <2>4, <2>5 DEF Good, Blank
  <2> QED BY <2>2, <2>3, <2>6
<1>2. CASE ~ q.stream
  <2> DEFINE to == IF settings.cache THEN "queued" ELSE "executing"
             p  == [q EXCEPT !.pc = to]
  <2>1. p \in Request
    BY DEF Request
  <2>2. /\ p.pc = to /\ p.stream = q.stream /\ p.tenant = q.tenant /\ p.prompt = q.prompt
        /\ p.counted = q.counted /\ p.errors = q.errors /\ p.billed = q.billed
        /\ p.used = q.used /\ p.total = q.total
        /\ p.result = q.result /\ p.answerOf = q.answerOf /\ p.event = q.event
    BY DEF Request
  <2>3. Admitted(q) = p
    BY <1>2 DEF Admitted
  <2> HIDE DEF p
  <2>4. Blank(p) /\ Known(p)
    BY <2>2 DEF Blank, Known
  <2>5. Good(p, settings, r, D)
    BY <1>2, <2>1, <2>2, <2>4, BlankIsGood DEF BeforeCache
  <2> QED BY <2>2, <2>3, <2>5
<1> QED BY <1>1, <1>2

\* What is known of the request that takes a step.
LEMMA Here ==
    ASSUME IInv, NEW r \in Requests
    PROVE  /\ requests[r] \in Request /\ Good(requests[r], settings, r, doubt)
           /\ doubt \subseteq Requests /\ model \in BOOLEAN /\ spent \in [Tenants -> Int]
<1> QED BY DEF IInv, TypeOK

\* Before the cache has been asked nothing has happened.
LEMMA StillBlank ==
    ASSUME NEW q, NEW s, NEW r, NEW D, Good(q, s, r, D), q.pc \in {"new", "checking"} \cup BeforeCache
    PROVE  /\ Blank(q)
           /\ q.pc = "new" => q.tenant = None
           /\ q.pc # "new" => Known(q)
           /\ q.pc \in BeforeCache => ~ q.stream /\ s.cache
<1>1. q.pc \in BeforeAnswer /\ q.pc # "done"
  BY DEF BeforeAnswer, BeforeCache
<1> QED BY <1>1 DEF Good, Begun, Asked, Blank

LEMMA TurnAwayStep == ASSUME IInv, NEW r \in Requests, TurnAway(r) PROVE IInv'
<1>1. PICK q \in Request : q = requests[r] /\ Good(q, settings, r, doubt)
  BY Here
<1>2. Blank(q) /\ q.tenant = None
  BY <1>1, StillBlank DEF TurnAway
<1>3. PICK status \in {400, 401} : Becomes(r, Over(Flagged(q), status))
  BY <1>1 DEF TurnAway
<1>4. PICK f \in Request : f = Flagged(q)
  BY <1>2, FlaggedIs DEF Blank
<1>5. /\ f.counted = q.counted /\ f.errors = 1 /\ f.event = q.event /\ f.tenant = q.tenant
      /\ f.result = q.result /\ f.used = q.used /\ f.billed = q.billed /\ f.answerOf = q.answerOf
  BY <1>2, <1>4, FlaggedIs DEF Blank, Request
<1>6. Recorded(f, status, settings)
  <2>1. status >= 400 /\ status \in {400, 401, 429}
    BY <1>3
  <2> QED BY <1>2, <1>5, <2>1 DEF Recorded, Blank
<1>7. f.billed = Bill(f) /\ f.answerOf = None
  BY <1>2, <1>5 DEF Bill, Blank, None
<1>8. Good(Over(f, status), settings, r, doubt) /\ Over(f, status).pc = "done"
  <2>2. CASE status = 400
    BY <1>6, <1>7, <2>2, OverIsGood
  <2>3. CASE status = 401
    BY <1>6, <1>7, <2>3, OverIsGood
  <2> QED BY <1>3, <2>2, <2>3
<1> QED BY <1>3, <1>4, <1>8, Here, Stepped DEF TurnAway

LEMMA ArriveAnonymousStep == ASSUME IInv, NEW r \in Requests, ArriveAnonymous(r) PROVE IInv'
<1>1. PICK q \in Request : q = requests[r] /\ Good(q, settings, r, doubt)
  BY Here
<1>2. Blank(q)
  BY <1>1, StillBlank DEF ArriveAnonymous
<1>3. PICK prompt \in Prompts, stream \in BOOLEAN :
         Becomes(r, Admitted([q EXCEPT !.tenant = Anonymous, !.prompt = prompt, !.stream = stream]))
  BY <1>1 DEF ArriveAnonymous
<1> DEFINE p == [q EXCEPT !.tenant = Anonymous, !.prompt = prompt, !.stream = stream]
<1>4. p \in Request
  <2>1. PICK m \in Request : m = [q EXCEPT !.tenant = Anonymous]
    BY Updates DEF Callers
  <2>2. PICK n \in Request : n = [m EXCEPT !.prompt = prompt]
    BY Updates
  <2>3. [n EXCEPT !.stream = stream] \in Request
    BY Updates
  <2> QED BY <2>1, <2>2, <2>3
<1>5. Blank(p) /\ Known(p)
  BY <1>2 DEF Blank, Known, Callers, Request
<1> HIDE DEF p
<1>6. Good(Admitted(p), settings, r, doubt) /\ Admitted(p).pc # "loading"
  BY <1>4, <1>5, Here, AdmittedIsGood
<1>7. Becomes(r, Admitted(p))
  BY <1>3 DEF p
<1> QED BY <1>6, <1>7, Here, Stepped DEF ArriveAnonymous

LEMMA ArriveStep == ASSUME IInv, NEW r \in Requests, Arrive(r) PROVE IInv'
<1>1. PICK q \in Request : q = requests[r] /\ Good(q, settings, r, doubt)
  BY Here
<1>2. Blank(q)
  BY <1>1, StillBlank DEF Arrive
<1>3. PICK tenant \in Tenants, prompt \in Prompts, stream \in BOOLEAN, est \in Estimates :
         Becomes(r, [q EXCEPT !.pc = "checking", !.tenant = tenant,
                        !.prompt = prompt, !.stream = stream, !.est = est])
  BY <1>1 DEF Arrive
<1> DEFINE p == [q EXCEPT !.pc = "checking", !.tenant = tenant,
                    !.prompt = prompt, !.stream = stream, !.est = est]
<1>4. p \in Request
  <2>1. PICK k \in Request : k = [q EXCEPT !.pc = "checking"]
    BY Updates DEF Where, BeforeAnswer
  <2>2. PICK l \in Request : l = [k EXCEPT !.tenant = tenant]
    BY Updates DEF Callers
  <2>3. PICK m \in Request : m = [l EXCEPT !.prompt = prompt]
    BY Updates
  <2>4. PICK n \in Request : n = [m EXCEPT !.stream = stream]
    BY Updates
  <2>5. [n EXCEPT !.est = est] \in Request
    BY Updates
  <2> QED BY <2>1, <2>2, <2>3, <2>4, <2>5
<1>5. Blank(p) /\ Known(p) /\ p.pc = "checking"
  BY <1>2 DEF Blank, Known, Callers, Request
<1>6. Becomes(r, p)
  BY <1>3
<1> HIDE DEF p
<1>7. Good(p, settings, r, doubt)
  BY <1>4, <1>5, Here, BlankIsGood
<1> QED BY <1>5, <1>6, <1>7, Here, Stepped DEF Arrive

LEMMA AdmitStep == ASSUME IInv, NEW r \in Requests, Admit(r) PROVE IInv'
<1>1. PICK q \in Request : q = requests[r] /\ Good(q, settings, r, doubt)
  BY Here
<1>2. Blank(q) /\ Known(q)
  BY <1>1, StillBlank DEF Admit
<1>3. PICK p \in Request : p = [q EXCEPT !.slot = TRUE]
  BY Updates
<1>4. Blank(p) /\ Known(p)
  BY <1>2, <1>3 DEF Blank, Known, Request
<1>5. Good(Admitted(p), settings, r, doubt) /\ Admitted(p).pc # "loading"
  BY <1>4, Here, AdmittedIsGood
<1>6. Becomes(r, Admitted(p))
  BY <1>1, <1>3 DEF Admit
<1>7. spent' \in [Tenants -> Int]
  <2>1. q.est \in Int
    BY Numbers
  <2> QED BY <1>1, <2>1, ChargeType DEF Admit
<1> QED BY <1>5, <1>6, <1>7, Here, Stepped DEF Admit

LEMMA ThrottleStep == ASSUME IInv, NEW r \in Requests, Throttle(r) PROVE IInv'
<1>1. PICK q \in Request : q = requests[r] /\ Good(q, settings, r, doubt)
  BY Here
<1>2. Blank(q) /\ Known(q)
  BY <1>1, StillBlank DEF Throttle
<1>3. PICK f \in Request : f = Flagged(q)
  BY <1>2, FlaggedIs DEF Blank
<1>4. /\ f.counted = q.counted /\ f.errors = 1 /\ f.event = q.event /\ f.tenant = q.tenant
      /\ f.result = q.result /\ f.used = q.used /\ f.billed = q.billed /\ f.answerOf = q.answerOf
  BY <1>2, <1>3, FlaggedIs DEF Blank, Request
<1>5. PICK p \in Request : p = Counted(f, "throttled")
  BY <1>2, <1>4, CountedIs DEF Blank, Outcomes
<1>6. /\ p.counted = Once("throttled") /\ p.errors = 1 /\ p.event = q.event /\ p.tenant = q.tenant
      /\ p.result = q.result /\ p.used = q.used /\ p.billed = q.billed /\ p.answerOf = q.answerOf
  BY <1>2, <1>4, <1>5, CountedIs DEF Blank, Outcomes, Request
<1>7. q.tenant # None
  BY <1>2, ConstantTypes DEF Known, Callers, Anonymous, None
<1>8. Recorded(p, 429, settings)
  BY <1>2, <1>6, <1>7 DEF Recorded, Blank, Told
<1>9. p.billed = Bill(p) /\ p.answerOf = None
  BY <1>2, <1>6 DEF Bill, Blank, None
<1>10. Good(Over(p, 429), settings, r, doubt) /\ Over(p, 429).pc = "done"
  BY <1>8, <1>9, Here, OverIsGood
<1>11. Becomes(r, Over(p, 429))
  BY <1>1, <1>3, <1>5 DEF Throttle
<1> QED BY <1>10, <1>11, Here, Stepped DEF Throttle

LEMMA CheckFailsStep == ASSUME IInv, NEW r \in Requests, CheckFails(r) PROVE IInv'
<1>1. PICK q \in Request : q = requests[r] /\ Good(q, settings, r, doubt)
  BY Here
<1>2. Blank(q)
  BY <1>1, StillBlank DEF CheckFails
<1>3. PICK done \in BOOLEAN :
         /\ Charge(requests[r], IF done THEN requests[r].est ELSE 0)
         /\ Becomes(r, Over([requests[r] EXCEPT !.result = "crashed", !.slot = done], 500))
  BY Zenon DEF CheckFails
<1>4. PICK m \in Request : m = [q EXCEPT !.result = "crashed"]
  BY Updates DEF Results
<1>5. PICK p \in Request : p = [m EXCEPT !.slot = done]
  BY Updates
<1>6. p = [q EXCEPT !.result = "crashed", !.slot = done]
  BY <1>4, <1>5
<1>7. /\ p.result = "crashed" /\ p.billed = q.billed /\ p.answerOf = q.answerOf
  BY <1>4, <1>5 DEF Request
<1>8. p.billed = Bill(p) /\ p.answerOf = None
  BY <1>2, <1>7 DEF Bill, Blank
<1>9. Good(Over(p, 500), settings, r, doubt') /\ Over(p, 500).pc = "done"
  BY <1>7, <1>8, OverIsGood
<1>10. spent' \in [Tenants -> Int]
  <2>1. (IF done THEN q.est ELSE 0) \in Int
    BY Numbers
  <2>2. Charge(q, IF done THEN q.est ELSE 0)
    BY <1>1, <1>3
  <2> QED BY <2>1, <2>2, ChargeType
<1>11. Becomes(r, Over(p, 500))
  BY <1>1, <1>3, <1>6
<1>12. doubt' \subseteq Requests /\ UNCHANGED <<cached, settings, model, doubt>>
  BY Here DEF CheckFails
<1> QED BY <1>9, <1>10, <1>11, <1>12, Stepped

-----------------------------------------------------------------------------
\* Without streaming.

\* On the way to the cache only the place changes.
LEMMA BlankMoves ==
    ASSUME NEW q \in Request, NEW s, NEW r, NEW D, Good(q, s, r, D), q.pc \in BeforeCache,
           NEW x \in BeforeCache
    PROVE  Good([q EXCEPT !.pc = x], s, r, D) /\ [q EXCEPT !.pc = x].pc = x
<1>1. Blank(q) /\ Known(q) /\ ~ q.stream /\ s.cache
  BY StillBlank DEF BeforeCache
<1>2. PICK p \in Request : p = [q EXCEPT !.pc = x]
  BY Updates DEF Where, BeforeAnswer
<1>3. Blank(p) /\ Known(p) /\ ~ p.stream /\ p.pc = x
  BY <1>1, <1>2 DEF Blank, Known, Request
<1>4. Good(p, s, r, D)
  BY <1>1, <1>3, BlankIsGood
<1> QED BY <1>2, <1>3, <1>4

LEMMA LookForModelStep == ASSUME IInv, NEW r \in Requests, LookForModel(r) PROVE IInv'
<1>1. PICK q \in Request : q = requests[r] /\ Good(q, settings, r, doubt)
  BY Here
<1> DEFINE x == IF model THEN "embedding" ELSE "waiting"
<1>2. x \in BeforeCache /\ x # "loading" /\ q.pc \in BeforeCache
  BY <1>1 DEF LookForModel, BeforeCache
<1>3. Becomes(r, [q EXCEPT !.pc = x])
  BY <1>1 DEF LookForModel
<1> HIDE DEF x
<1>4. Good([q EXCEPT !.pc = x], settings, r, doubt) /\ [q EXCEPT !.pc = x].pc = x
  BY <1>1, <1>2, Here, BlankMoves
<1> QED BY <1>2, <1>3, <1>4, Here, Stepped DEF LookForModel

LEMMA LockStep == ASSUME IInv, NEW r \in Requests, Lock(r) PROVE IInv'
<1>1. PICK q \in Request : q = requests[r] /\ Good(q, settings, r, doubt)
  BY Here
<1> DEFINE x == IF model THEN "embedding" ELSE "loading"
<1>2. x \in BeforeCache /\ q.pc \in BeforeCache
  BY <1>1 DEF Lock, BeforeCache
<1>3. Becomes(r, [q EXCEPT !.pc = x])
  BY <1>1 DEF Lock
<1> HIDE DEF x
<1>4. Good([q EXCEPT !.pc = x], settings, r, doubt) /\ [q EXCEPT !.pc = x].pc = x
  BY <1>1, <1>2, Here, BlankMoves
<1>5. CASE model
  <2>1. x # "loading"
    BY <1>5 DEF x
  <2> QED BY <2>1, <1>3, <1>4, Here, Stepped DEF Lock
<1>6. CASE ~ model
  <2>1. /\ model' = FALSE /\ UNCHANGED <<spent, cached, settings, doubt>> /\ Loading = {}
    BY <1>6, Here DEF Lock
  <2>2. Loading' \subseteq {r}
    <3>1. requests \in [Requests -> Request] /\ requests' = [requests EXCEPT ![r] = [q EXCEPT !.pc = x]]
      BY <1>3 DEF IInv, TypeOK, Becomes
    <3> QED BY <2>1, <3>1 DEF Loading
  <2>3. OneLoad'
    BY <2>1, <2>2 DEF OneLoad
  <2>4. Kept'
    BY <2>1 DEF IInv, Kept, CacheScope
  <2>5. cached' \subseteq [scope : Tenants \cup {None}, prompt : Prompts, by : Callers]
    BY <2>1 DEF IInv, TypeOK
  <2> QED BY <1>3, <1>4, <2>1, <2>3, <2>4, <2>5, Here, Moved
<1> QED BY <1>5, <1>6

LEMMA LoadStep == ASSUME IInv, NEW r \in Requests, Load(r) PROVE IInv'
<1>1. PICK q \in Request : q = requests[r] /\ Good(q, settings, r, doubt)
  BY Here
<1>2. q.pc \in BeforeCache /\ "embedding" \in BeforeCache /\ r \in Loading
  BY <1>1 DEF Load, BeforeCache, Loading
<1>3. PICK p : p = [q EXCEPT !.pc = "embedding"]
  OBVIOUS
<1>4. Good(p, settings, r, doubt) /\ p.pc = "embedding"
  BY <1>1, <1>2, <1>3, Here, BlankMoves
<1>5. Becomes(r, p) /\ model' = TRUE /\ UNCHANGED <<spent, cached, settings, doubt>>
  BY <1>1, <1>3 DEF Load
<1>6. Loading' = {}
  <2>1. requests \in [Requests -> Request] /\ requests' = [requests EXCEPT ![r] = p]
    BY <1>5 DEF IInv, TypeOK, Becomes
  <2>2. \A x \in Loading : x = r
    BY <1>2 DEF IInv, OneLoad
  <2> QED BY <1>4, <2>1, <2>2 DEF Loading
<1>7. OneLoad' /\ Kept'
  BY <1>5, <1>6 DEF OneLoad, IInv, Kept, CacheScope
<1>8. cached' \subseteq [scope : Tenants \cup {None}, prompt : Prompts, by : Callers]
  BY <1>5 DEF IInv, TypeOK
<1> QED BY <1>4, <1>5, <1>7, <1>8, Here, Moved

LEMMA HitStep == ASSUME IInv, NEW r \in Requests, Hit(r) PROVE IInv'
<1>1. PICK q \in Request : q = requests[r] /\ Good(q, settings, r, doubt)
  BY Here
<1>2. Blank(q) /\ Known(q) /\ ~ q.stream /\ settings.cache
  BY <1>1, StillBlank DEF Hit, BeforeCache
<1>3. PICK a \in Fitting(q) : Correct(r, [q EXCEPT !.answerOf = a.by], "hit", 0)
  BY <1>1 DEF Hit
<1>4. a.by \in Callers /\ CacheScope(a.by) = CacheScope(q.tenant)
  BY <1>3 DEF Fitting, IInv, TypeOK, Kept
<1>5. settings.perTenant => a.by = q.tenant
  BY <1>2, <1>4, ConstantTypes DEF CacheScope, Callers, Known
<1>6. PICK p \in Request : p = [q EXCEPT !.answerOf = a.by]
  BY <1>4, Updates
<1>7. PICK e \in Request : e = [p EXCEPT !.result = "hit"]
  BY Updates DEF Results
<1>8. /\ e.result = "hit" /\ e.answerOf = a.by /\ e.tenant = q.tenant /\ e.prompt = q.prompt
      /\ e.stream = q.stream /\ e.event = q.event /\ e.counted = q.counted
      /\ e.errors = q.errors /\ e.billed = q.billed
  BY <1>6, <1>7 DEF Request
<1>9. Ended(e, settings) /\ e.billed = 0 /\ (settings.perTenant => e.answerOf \in {e.tenant, None})
  BY <1>2, <1>5, <1>8 DEF Ended, Known, Blank
<1>10. Correct(r, p, "hit", 0)
  BY <1>3, <1>6
<1> QED BY <1>7, <1>9, <1>10, CorrectKeeps DEF Hit

LEMMA MissStep == ASSUME IInv, NEW r \in Requests, Miss(r) PROVE IInv'
<1>1. PICK q \in Request : q = requests[r] /\ Good(q, settings, r, doubt)
  BY Here
<1>2. Blank(q) /\ Known(q) /\ ~ q.stream /\ settings.cache
  BY <1>1, StillBlank DEF Miss, BeforeCache
<1>3. PICK m \in Request : m = [q EXCEPT !.pc = "executing"]
  BY Updates DEF Where, BeforeAnswer
<1>4. PICK p \in Request : p = [m EXCEPT !.event = "miss"]
  BY Updates
<1>5. Becomes(r, p)
  BY <1>1, <1>3, <1>4 DEF Miss
<1>6. /\ p.pc = "executing" /\ p.event = "miss" /\ p.tenant = q.tenant /\ p.prompt = q.prompt
      /\ p.stream = q.stream /\ p.counted = q.counted /\ p.errors = q.errors /\ p.billed = q.billed
      /\ p.used = q.used /\ p.total = q.total
        /\ p.result = q.result /\ p.answerOf = q.answerOf
  BY <1>3, <1>4 DEF Request
<1>7. p.pc \in BeforeAnswer /\ p.pc \notin {"new", "checking"} \cup BeforeCache
      /\ p.pc \notin {"responding", "streaming", "settling", "done", "opening", "loading"}
  BY <1>6 DEF BeforeAnswer, BeforeCache
<1>8. Begun(p) /\ Asked(p, settings)
  BY <1>2, <1>6, <1>7 DEF Begun, Asked, Event, Blank, Known
<1>9. Good(p, settings, r, doubt)
  BY <1>2, <1>6, <1>7, <1>8 DEF Good, Blank
<1> QED BY <1>5, <1>7, <1>9, Here, Stepped DEF Miss

\* A provider is asked for a request that nothing has happened to but a miss.
LEMMA StillBegun ==
    ASSUME NEW q, NEW s, NEW r, NEW D, Good(q, s, r, D), q.pc \in {"executing", "opening"}
    PROVE  Begun(q) /\ Known(q) /\ q.event = Event(q, s) /\ q.billed = 0 /\ (q.pc = "opening" => q.stream)
<1>1. q.pc \in BeforeAnswer /\ q.pc \notin {"new", "done"}
  BY DEF BeforeAnswer
<1> QED BY <1>1 DEF Good, Begun, Asked

LEMMA ServeStep == ASSUME IInv, NEW r \in Requests, Serve(r) PROVE IInv'
<1>1. PICK q \in Request : q = requests[r] /\ Good(q, settings, r, doubt)
  BY Here
<1>2. Begun(q) /\ Known(q) /\ q.event = Event(q, settings) /\ q.billed = 0
  BY <1>1, StillBegun DEF Serve
<1>3. PICK t \in Request : t = [q EXCEPT !.tried = TRUE]
  BY Updates
<1>4. PICK c \in Request : c = Counted(t, "success") /\ c = [t EXCEPT !.counted = Once("success")]
  <2>1. t.counted = Uncounted
    BY <1>2, <1>3 DEF Begun, Request
  <2> QED BY <2>1, CountedIs DEF Outcomes
<1>5. /\ c.counted = Once("success") /\ c.errors = 0 /\ c.event = q.event /\ c.stream = q.stream
      /\ c.tenant = q.tenant /\ c.prompt = q.prompt /\ c.billed = 0 /\ c.answerOf = None
  <2>1. /\ t.errors = 0 /\ t.event = q.event /\ t.stream = q.stream /\ t.tenant = q.tenant
        /\ t.prompt = q.prompt /\ t.billed = 0 /\ t.answerOf = None
    BY <1>2, <1>3 DEF Begun, Request
  <2> QED BY <1>4, <2>1 DEF Request
<1>6. ASSUME NEW usage \in Usages,
             Correct(r, [c EXCEPT !.used = usage, !.total = TRUE], "served", usage)
      PROVE  IInv'
  <2>1. PICK u \in Request : u = [c EXCEPT !.used = usage, !.total = TRUE]
    <3>1. PICK v \in Request : v = [c EXCEPT !.used = usage]
      BY Updates
    <3>2. [v EXCEPT !.total = TRUE] \in Request
      BY Updates
    <3> QED BY <3>1, <3>2
  <2>2. PICK e \in Request : e = [u EXCEPT !.result = "served"]
    BY Updates DEF Results
  <2>3. /\ e.counted = c.counted /\ e.errors = c.errors /\ e.event = c.event /\ e.stream = c.stream
        /\ e.tenant = c.tenant /\ e.prompt = c.prompt /\ e.billed = c.billed
        /\ e.answerOf = c.answerOf /\ e.result = "served"
    BY <2>1, <2>2 DEF Request
  <2>4. Ended(e, settings) /\ e.billed = 0 /\ e.answerOf = None
    BY <1>2, <1>5, <2>3 DEF Ended, Known, Event
  <2>5. Correct(r, u, "served", usage)
    BY <1>6, <2>1
  <2> QED BY <2>2, <2>4, <2>5, CorrectKeeps DEF Serve
<1>7. ASSUME Conclude(r, [c EXCEPT !.result = "served"])
      PROVE  IInv'
  <2>1. PICK e \in Request : e = [c EXCEPT !.result = "served"]
    BY Updates DEF Results
  <2>2. /\ e.counted = c.counted /\ e.errors = c.errors /\ e.event = c.event /\ e.stream = c.stream
        /\ e.tenant = c.tenant /\ e.prompt = c.prompt /\ e.billed = c.billed
        /\ e.answerOf = c.answerOf /\ e.result = "served"
    BY <2>1 DEF Request
  <2>3. Ended(e, settings) /\ e.billed = 0 /\ e.answerOf = None
    BY <1>2, <1>5, <2>2 DEF Ended, Known, Event
  <2>4. Conclude(r, e)
    BY <1>7, <2>1
  <2> QED BY <2>3, <2>4, Here, ConcludeKeeps DEF Serve
<1>8. \/ \E usage \in Usages :
            Correct(r, [c EXCEPT !.used = usage, !.total = TRUE], "served", usage)
      \/ Conclude(r, [c EXCEPT !.result = "served"])
  BY <1>1, <1>3, <1>4 DEF Serve
<1> QED BY <1>6, <1>7, <1>8

LEMMA UnservedStep == ASSUME IInv, NEW r \in Requests, Unserved(r) PROVE IInv'
<1>1. PICK q \in Request : q = requests[r] /\ Good(q, settings, r, doubt)
  BY Here
<1>2. Begun(q) /\ Known(q) /\ q.event = Event(q, settings) /\ q.billed = 0
  BY <1>1, StillBegun DEF Unserved
<1>3. PICK tried \in BOOLEAN, result \in {"rejected", "failed"} :
         Correct(r, [q EXCEPT !.tried = tried], result, 0)
  BY <1>1 DEF Unserved
<1>4. PICK t \in Request : t = [q EXCEPT !.tried = tried]
  BY Updates
<1>5. PICK e \in Request : e = [t EXCEPT !.result = result]
  BY Updates DEF Results
<1>6. /\ e.counted = q.counted /\ e.errors = q.errors /\ e.event = q.event /\ e.stream = q.stream
      /\ e.tenant = q.tenant /\ e.prompt = q.prompt /\ e.billed = q.billed
      /\ e.answerOf = q.answerOf /\ e.result = result
  BY <1>4, <1>5 DEF Request
<1>7. Ended(e, settings) /\ e.billed = 0 /\ e.answerOf = None
  BY <1>2, <1>3, <1>6 DEF Ended, Known, Event, Begun
<1>8. Correct(r, t, result, 0)
  BY <1>3, <1>4
<1> QED BY <1>5, <1>7, <1>8, CorrectKeeps DEF Unserved

LEMMA CrashStep == ASSUME IInv, NEW r \in Requests, Crash(r) PROVE IInv'
<1>1. PICK q \in Request : q = requests[r] /\ Good(q, settings, r, doubt)
  BY Here
<1>2. q.pc \in BeforeAnswer /\ q.pc # "done"
  BY <1>1 DEF Crash, BeforeAnswer, BeforeCache
<1>3. q.billed = 0 /\ q.answerOf = None
  BY <1>1, <1>2 DEF Good, Begun
<1>4. PICK m \in Request : m = [q EXCEPT !.result = "crashed"]
  BY Updates DEF Results
<1>5. PICK p \in Request : p = [m EXCEPT !.tried = q.pc \in {"executing", "opening"}]
  <2>1. (q.pc \in {"executing", "opening"}) \in BOOLEAN
    OBVIOUS
  <2> QED BY <2>1, Updates
<1>6. p.result = "crashed" /\ p.billed = 0 /\ p.answerOf = None
  BY <1>3, <1>4, <1>5 DEF Request
<1>7. p.billed = Bill(p)
  BY <1>6 DEF Bill
<1>8. Becomes(r, Over(p, 500))
  BY <1>1, <1>4, <1>5 DEF Crash
<1>9. Good(Over(p, 500), settings, r, doubt) /\ Over(p, 500).pc = "done"
  BY <1>6, <1>7, Here, OverIsGood
<1> QED BY <1>8, <1>9, Here, Stepped DEF Crash

-----------------------------------------------------------------------------
\* Streaming.

\* A stream that is open has been counted, and nothing else.
LEMMA StillFlowing ==
    ASSUME NEW q, NEW s, NEW r, NEW D, Good(q, s, r, D), q.pc \in {"responding", "streaming"}
    PROVE  Flowing(q) /\ q.billed = 0
<1>1. q.pc # "done"
  OBVIOUS
<1> QED BY <1>1 DEF Good

LEMMA FlowingIsGood ==
    ASSUME NEW q \in Request, Flowing(q), q.billed = 0, q.pc \in {"responding", "streaming"},
           NEW s, NEW r, NEW D
    PROVE  Good(q, s, r, D) /\ q.pc # "loading"
<1>1. q.pc \notin BeforeAnswer /\ q.pc \notin {"settling", "done", "loading"}
  BY DEF BeforeAnswer, BeforeCache
<1> QED BY <1>1 DEF Good, Flowing

LEMMA OpenStep == ASSUME IInv, NEW r \in Requests, Open(r) PROVE IInv'
<1>1. PICK q \in Request : q = requests[r] /\ Good(q, settings, r, doubt)
  BY Here
<1>2. Begun(q) /\ Known(q) /\ q.event = Event(q, settings) /\ q.billed = 0 /\ q.stream
  BY <1>1, StillBegun DEF Open
<1>3. PICK m \in Request : m = [q EXCEPT !.pc = "responding"]
  BY Updates DEF Where
<1>4. PICK n \in Request : n = [m EXCEPT !.tried = TRUE]
  BY Updates
<1>5. PICK o \in Request : o = [n EXCEPT !.status = 200]
  <2>1. [n EXCEPT !.status = 200] \in Request
    BY DEF Request
  <2> QED BY <2>1
<1>6. o.counted = Uncounted /\ o.pc = "responding" /\ o.errors = 0 /\ o.event = q.event
      /\ o.stream /\ o.tenant = q.tenant /\ o.prompt = q.prompt /\ o.billed = 0
      /\ o.answerOf = None /\ o.result = None /\ ~ o.total
  BY <1>2, <1>3, <1>4, <1>5 DEF Begun, Request
<1>7. PICK p \in Request : p = Counted(o, "success") /\ p = [o EXCEPT !.counted = Once("success")]
  BY <1>6, CountedIs DEF Outcomes
<1>8. p.counted = Once("success") /\ p.pc = "responding" /\ p.errors = 0 /\ p.event = q.event
      /\ p.stream /\ p.tenant = q.tenant /\ p.prompt = q.prompt /\ p.billed = 0
      /\ p.answerOf = None /\ p.result = None /\ ~ p.total
  BY <1>6, <1>7 DEF Request
<1>9. Flowing(p)
  BY <1>2, <1>8 DEF Flowing, Event, Known
<1>10. Good(p, settings, r, doubt) /\ p.pc # "loading"
  BY <1>8, <1>9, Here, FlowingIsGood
<1>11. Becomes(r, p)
  BY <1>1, <1>3, <1>4, <1>5, <1>7 DEF Open
<1> QED BY <1>10, <1>11, Here, Stepped DEF Open

LEMMA StartStep == ASSUME IInv, NEW r \in Requests, Start(r) PROVE IInv'
<1>1. PICK q \in Request : q = requests[r] /\ Good(q, settings, r, doubt)
  BY Here
<1>2. Flowing(q) /\ q.billed = 0
  BY <1>1, StillFlowing DEF Start
<1>3. PICK p \in Request : p = [q EXCEPT !.pc = "streaming"]
  BY Updates DEF Where
<1>4. Flowing(p) /\ p.billed = 0 /\ p.pc = "streaming"
  BY <1>2, <1>3 DEF Flowing, Known, Request
<1>5. Good(p, settings, r, doubt) /\ p.pc # "loading"
  BY <1>4, Here, FlowingIsGood
<1>6. Becomes(r, p)
  BY <1>1, <1>3 DEF Start
<1> QED BY <1>5, <1>6, Here, Stepped DEF Start

LEMMA TapStep == ASSUME IInv, NEW r \in Requests, Tap(r) PROVE IInv'
<1>1. PICK q \in Request : q = requests[r] /\ Good(q, settings, r, doubt)
  BY Here
<1>2. Flowing(q) /\ q.billed = 0 /\ q.pc = "streaming"
  BY <1>1, StillFlowing DEF Tap
<1>3. PICK usage \in Usages, total \in BOOLEAN :
         Becomes(r, [q EXCEPT !.used = usage, !.total = total])
  BY <1>1 DEF Tap
<1>4. PICK p \in Request : p = [q EXCEPT !.used = usage, !.total = total]
  <2>1. PICK u \in Request : u = [q EXCEPT !.used = usage]
    BY Updates
  <2>2. [u EXCEPT !.total = total] \in Request
    BY Updates
  <2> QED BY <2>1, <2>2
<1>5. Flowing(p) /\ p.billed = 0 /\ p.pc = "streaming"
  <2>1. p.used # NoUsage
    BY <1>4, ConstantTypes DEF Request
  <2> QED BY <1>2, <1>4, <2>1 DEF Flowing, Known, Request
<1>6. Good(p, settings, r, doubt) /\ p.pc # "loading"
  BY <1>5, Here, FlowingIsGood
<1> QED BY <1>3, <1>4, <1>6, Here, Stepped DEF Tap

LEMMA CompleteStep == ASSUME IInv, NEW r \in Requests, Complete(r) PROVE IInv'
<1>1. PICK q \in Request : q = requests[r] /\ Good(q, settings, r, doubt)
  BY Here
<1>2. Flowing(q) /\ q.billed = 0
  BY <1>1, StillFlowing DEF Complete
<1>3. PICK e \in Request : e = [q EXCEPT !.result = "served"]
  BY Updates DEF Results
<1>4. /\ e.counted = q.counted /\ e.errors = q.errors /\ e.event = q.event /\ e.stream = q.stream
      /\ e.tenant = q.tenant /\ e.prompt = q.prompt /\ e.billed = q.billed
      /\ e.answerOf = q.answerOf /\ e.result = "served"
  BY <1>3 DEF Request
<1>5. Ended(e, settings) /\ e.billed = 0 /\ e.answerOf = None
  BY <1>2, <1>4 DEF Ended, Known, Event, Flowing
<1>6. CASE ~ q.total
  <2>1. Conclude(r, e)
    BY <1>1, <1>3, <1>6 DEF Complete
  <2> QED BY <1>5, <2>1, Here, ConcludeKeeps DEF Complete
<1>7. CASE q.total
  <2>1. Correct(r, q, "served", q.used)
    BY <1>1, <1>7 DEF Complete
  <2>2. q.used \in Usages \cup {0}
    BY <1>2, <1>7 DEF Flowing, Request
  <2> QED BY <1>3, <1>5, <2>1, <2>2, CorrectKeeps DEF Complete
<1> QED BY <1>6, <1>7

LEMMA BreakStep == ASSUME IInv, NEW r \in Requests, Break(r) PROVE IInv'
<1>1. PICK q \in Request : q = requests[r] /\ Good(q, settings, r, doubt)
  BY Here
<1>2. Flowing(q) /\ q.billed = 0
  BY <1>1, StillFlowing DEF Break
<1>3. PICK f \in Request : f = Flagged(q) /\ f = [q EXCEPT !.errors = 1]
  BY <1>2, FlaggedIs DEF Flowing
<1>4. PICK e \in Request : e = [f EXCEPT !.result = "broken"]
  BY Updates DEF Results
<1>5. /\ e.counted = q.counted /\ e.errors = 1 /\ e.event = q.event /\ e.stream = q.stream
      /\ e.tenant = q.tenant /\ e.prompt = q.prompt /\ e.billed = q.billed
      /\ e.answerOf = q.answerOf /\ e.result = "broken"
  BY <1>3, <1>4 DEF Request
<1>6. Ended(e, settings) /\ e.billed = 0 /\ e.answerOf = None
  BY <1>2, <1>5 DEF Ended, Known, Event, Flowing
<1>7. Correct(r, f, "broken", 0)
  BY <1>1, <1>3 DEF Break
<1> QED BY <1>4, <1>6, <1>7, CorrectKeeps DEF Break

LEMMA VanishStep == ASSUME IInv, NEW r \in Requests, Vanish(r) PROVE IInv'
<1>1. PICK q \in Request : q = requests[r] /\ Good(q, settings, r, doubt)
  BY Here
<1>2. Flowing(q) /\ q.billed = 0
  BY <1>1, StillFlowing DEF Vanish
<1>3. PICK p \in Request : p = [q EXCEPT !.result = "vanished"]
  BY Updates DEF Results
<1>4. /\ p.counted = q.counted /\ p.errors = q.errors /\ p.event = q.event /\ p.stream = q.stream
      /\ p.tenant = q.tenant /\ p.billed = q.billed
      /\ p.answerOf = q.answerOf /\ p.result = "vanished"
  BY <1>3 DEF Request
<1>5. p.tenant # None
  BY <1>2, <1>4, ConstantTypes DEF Flowing, Known, Callers, Anonymous, None
<1>6. Recorded(p, 200, settings)
  BY <1>2, <1>4, <1>5 DEF Recorded, Flowing, Told, Event
<1>7. p.billed = Bill(p) /\ p.answerOf = None
  BY <1>2, <1>4 DEF Bill, Flowing
<1>8. doubt' \subseteq Requests /\ doubt \subseteq doubt'
  BY Here DEF Vanish
<1>9. Good(Over(p, 200), settings, r, doubt') /\ Over(p, 200).pc = "done"
  BY <1>6, <1>7, <1>8, OverIsGood
<1>10. Becomes(r, Over(p, 200))
  BY <1>1, <1>3 DEF Vanish
<1> QED BY <1>8, <1>9, <1>10, Here, Stepped DEF Vanish

-----------------------------------------------------------------------------
\* After reconcile.

LEMMA StillEnded ==
    ASSUME NEW q, NEW s, NEW r, NEW D, Good(q, s, r, D), q.pc = "settling"
    PROVE  Ended(q, s) /\ q.billed = 0 /\ (s.perTenant => q.answerOf \in {q.tenant, None})
<1> QED BY DEF Good

LEMMA SettleStep == ASSUME IInv, NEW r \in Requests, Settle(r) PROVE IInv'
<1>1. PICK q \in Request : q = requests[r] /\ Good(q, settings, r, doubt)
  BY Here
<1>2. Ended(q, settings) /\ q.billed = 0 /\ (settings.perTenant => q.answerOf \in {q.tenant, None})
  BY <1>1, StillEnded DEF Settle
<1>3. spent' \in [Tenants -> Int]
  <2>1. q.due - q.est \in Int
    BY Numbers
  <2> QED BY <1>1, <2>1, ChargeType DEF Settle
<1>4. Conclude(r, q)
  BY <1>1 DEF Settle
<1> QED BY <1>2, <1>3, <1>4, Here, ConcludeKeeps DEF Settle

LEMMA SettleFailsStep == ASSUME IInv, NEW r \in Requests, SettleFails(r) PROVE IInv'
<1>1. PICK q \in Request : q = requests[r] /\ Good(q, settings, r, doubt)
  BY Here
<1>2. Ended(q, settings) /\ q.billed = 0 /\ (settings.perTenant => q.answerOf \in {q.tenant, None})
  BY <1>1, StillEnded DEF SettleFails
<1>3. spent' \in [Tenants -> Int]
  <2>1. PICK done \in BOOLEAN : Charge(q, IF done THEN q.due - q.est ELSE 0)
    BY <1>1 DEF SettleFails
  <2>2. (IF done THEN q.due - q.est ELSE 0) \in Int
    BY Numbers
  <2> QED BY <2>1, <2>2, ChargeType
<1>4. /\ r \in doubt' /\ doubt' \subseteq Requests /\ doubt \subseteq doubt'
      /\ UNCHANGED <<cached, settings, model>>
  BY Here DEF SettleFails
<1>6. CASE q.stream /\ q.result \in {"served", "broken"}
  <2>1. Becomes(r, Over(q, 200))
    BY <1>1, <1>6 DEF SettleFails
  <2>2. q.tenant # None
    BY <1>2, ConstantTypes DEF Ended, Known, Callers, Anonymous, None
  <2>3. Recorded(q, 200, settings)
    BY <1>2, <1>6, <2>2 DEF Recorded, Ended, Told, Event
  <2>4. q.billed \in {0, Bill(q)} /\ (r \notin doubt' => q.billed = Bill(q))
    BY <1>2, <1>4
  <2>5. Good(Over(q, 200), settings, r, doubt') /\ Over(q, 200).pc = "done"
    BY <1>2, <2>3, <2>4, OverIsGood
  <2> QED BY <1>3, <1>4, <2>1, <2>5, Stepped
<1>7. CASE ~ (q.stream /\ q.result \in {"served", "broken"})
  <2>1. PICK p \in Request : p = [q EXCEPT !.result = "crashed"]
    BY Updates DEF Results
  <2>2. Becomes(r, Over(p, 500))
    BY <1>1, <1>7, <2>1 DEF SettleFails
  <2>3. p.result = "crashed" /\ p.billed = 0 /\ p.answerOf = q.answerOf /\ p.tenant = q.tenant
    BY <1>2, <2>1 DEF Request
  <2>4. p.billed = Bill(p)
    BY <2>3 DEF Bill
  <2>5. settings.perTenant => p.answerOf \in {p.tenant, None}
    BY <1>2, <2>3
  <2>6. Good(Over(p, 500), settings, r, doubt') /\ Over(p, 500).pc = "done"
    BY <2>3, <2>4, <2>5, OverIsGood
  <2> QED BY <1>3, <1>4, <2>2, <2>6, Stepped
<1> QED BY <1>6, <1>7

LEMMA ForgetStep == ASSUME IInv, Forget PROVE IInv'
<1>1. cached' \subseteq cached /\ UNCHANGED <<requests, spent, settings, model, doubt>>
  BY DEF Forget
<1>2. TypeOK' /\ Kept' /\ OneLoad'
  BY <1>1 DEF IInv, TypeOK, Kept, CacheScope, OneLoad, Loading
<1>3. \A r \in Requests : Good(requests'[r], settings', r, doubt')
  BY <1>1 DEF IInv
<1> QED BY <1>2, <1>3 DEF IInv

LEMMA StutterStep == ASSUME IInv, UNCHANGED vars PROVE IInv'
<1>1. UNCHANGED <<requests, spent, cached, settings, model, doubt>>
  BY DEF vars
<1>2. TypeOK' /\ Kept' /\ OneLoad'
  BY <1>1 DEF IInv, TypeOK, Kept, CacheScope, OneLoad, Loading
<1>3. \A r \in Requests : Good(requests'[r], settings', r, doubt')
  BY <1>1 DEF IInv
<1> QED BY <1>2, <1>3 DEF IInv

-----------------------------------------------------------------------------
\* The theorems.

LEMMA InitInv == Init => IInv
<1> SUFFICES ASSUME Init PROVE IInv
  OBVIOUS
<1>1. New \in Request
  BY DEF New, Request, Callers
<1>2. New.pc = "new" /\ New.tenant = None /\ Blank(New)
  BY DEF New, Blank, Uncounted
<1>3. \A r : Good(New, settings, r, doubt)
  <2>1. New.pc \in BeforeAnswer
    BY <1>2 DEF BeforeAnswer
  <2>2. New.pc \notin {"responding", "streaming", "settling", "done"} \cup {"executing", "opening"} \cup BeforeCache
    BY <1>2 DEF BeforeCache
  <2>3. Begun(New) /\ Asked(New, settings)
    BY <1>2, <2>2 DEF Begun, Asked, Blank
  <2> HIDE DEF New
  <2> QED BY <1>1, <1>2, <2>1, <2>2, <2>3 DEF Good, Blank
<1>4. requests \in [Requests -> Request] /\ \A r \in Requests : requests[r] = New
  BY <1>1 DEF Init
<1>5. TypeOK
  <2>1. spent \in [Tenants -> Int]
    BY DEF Init
  <2>2. cached \subseteq [scope : Tenants \cup {None}, prompt : Prompts, by : Callers]
    BY DEF Init
  <2>3. settings \in [tenants : BOOLEAN, cache : BOOLEAN, perTenant : BOOLEAN]
    BY DEF Init
  <2>4. model \in BOOLEAN /\ doubt \subseteq Requests
    BY DEF Init
  <2> QED BY <1>4, <2>1, <2>2, <2>3, <2>4 DEF TypeOK
<1>6. Kept
  BY DEF Init, Kept
<1>7. OneLoad
  BY <1>2, <1>4 DEF OneLoad, Loading
<1> QED BY <1>3, <1>4, <1>5, <1>6, <1>7 DEF IInv

LEMMA NextInv == IInv /\ [Next]_vars => IInv'
<1> SUFFICES ASSUME IInv, [Next]_vars PROVE IInv'
  OBVIOUS
<1>1. ASSUME NEW r \in Requests,
             \/ TurnAway(r) \/ ArriveAnonymous(r) \/ Arrive(r) \/ Admit(r) \/ Throttle(r) \/ CheckFails(r)
      PROVE  IInv'
  BY <1>1, TurnAwayStep, ArriveAnonymousStep, ArriveStep, AdmitStep, ThrottleStep, CheckFailsStep
<1>2. ASSUME NEW r \in Requests,
             \/ LookForModel(r) \/ Lock(r) \/ Load(r) \/ Hit(r) \/ Miss(r) \/ Serve(r)
             \/ Unserved(r) \/ Crash(r)
      PROVE  IInv'
  BY <1>2, LookForModelStep, LockStep, LoadStep, HitStep, MissStep, ServeStep, UnservedStep, CrashStep
<1>3. ASSUME NEW r \in Requests,
             \/ Open(r) \/ Start(r) \/ Tap(r) \/ Complete(r) \/ Break(r) \/ Vanish(r)
             \/ Settle(r) \/ SettleFails(r)
      PROVE  IInv'
  BY <1>3, OpenStep, StartStep, TapStep, CompleteStep, BreakStep, VanishStep, SettleStep, SettleFailsStep
<1>4. CASE Forget
  BY <1>4, ForgetStep
<1>5. CASE UNCHANGED vars
  BY <1>5, StutterStep
<1> QED BY <1>1, <1>2, <1>3, <1>4, <1>5 DEF Next

\* The invariant holds of every behaviour of the gateway.
THEOREM Inductive == Spec => []IInv
BY InitInv, NextInv, PTL DEF Spec

\* Every request, bucket, cached answer and setting stays what it is meant to be.
THEOREM TypeCorrect == Spec => []TypeOK
<1>1. IInv => TypeOK
  BY DEF IInv
<1> QED BY <1>1, Inductive, PTL

\* Metrics say of every request that was seen to its end what its client was
\* told, whatever Redis, the providers and the clients do.
THEOREM CountsAsAnswered == Spec => []CountedAsAnswered
<1>1. IInv => CountedAsAnswered
  <2> SUFFICES ASSUME IInv, NEW r \in Requests, requests[r].pc = "done", requests[r].result # "crashed"
               PROVE  LET q == requests[r]
                      IN  /\ q.counted = [o \in Outcomes |->
                                IF q.tenant # None /\ o = (CASE q.status = 200 -> "success"
                                                             [] q.status = 429 -> "throttled"
                                                             [] OTHER          -> "error")
                                THEN 1 ELSE 0]
                          /\ q.errors = IF q.status >= 400 \/ q.result = "broken" THEN 1 ELSE 0
                          /\ q.event = IF q.status \in {400, 401, 429} THEN None
                                       ELSE IF q.stream THEN "bypass"
                                       ELSE IF ~ settings.cache THEN None
                                       ELSE IF q.result = "hit" THEN "hit" ELSE "miss"
    BY DEF CountedAsAnswered
  <2>1. PICK q : q = requests[r]
    OBVIOUS
  <2>2. Recorded(q, q.status, settings)
    BY <2>1 DEF IInv, Good
  <2>3. q.counted = [o \in Outcomes |->
           IF q.tenant # None /\ o = Told(q.status) THEN 1 ELSE 0]
    BY <2>2 DEF Recorded, Once, Uncounted
  <2>4. q.event = IF q.status \in {400, 401, 429} THEN None
                  ELSE IF q.stream THEN "bypass"
                  ELSE IF ~ settings.cache THEN None
                  ELSE IF q.result = "hit" THEN "hit" ELSE "miss"
    BY <2>2 DEF Recorded, Event
  <2> QED BY <2>1, <2>2, <2>3, <2>4 DEF Recorded, Told
<1> QED BY <1>1, Inductive, PTL

\* With a cache per tenant nobody is given another tenant's answer.
THEOREM AnswersStay == Spec => []AnswersStayWithTenant
<1>1. IInv => AnswersStayWithTenant
  BY DEF IInv, Good, AnswersStayWithTenant
<1> QED BY <1>1, Inductive, PTL

\* What is billed is what the provider reported of a complete answer.
THEOREM BillsComplete == Spec => []BilledIfComplete
<1>1. IInv => BilledIfComplete
  BY DEF IInv, Good, Bill, BilledIfComplete
<1> QED BY <1>1, Inductive, PTL

\* The embedding model is loaded once, however many requests wait for it.
THEOREM LoadsOnce == Spec => []ModelLoadedOnce
<1>1. IInv => ModelLoadedOnce
  <2> SUFFICES ASSUME IInv PROVE ModelLoadedOnce
    OBVIOUS
  <2>1. CASE Loading = {}
    <3>1. Cardinality(Loading) = 0
      BY <2>1, FS_EmptySet
    <3> QED BY <3>1 DEF ModelLoadedOnce
  <2>2. CASE Loading # {}
    <3>1. PICK r \in Loading : Loading = {r}
      BY <2>2 DEF IInv, OneLoad
    <3>2. Cardinality(Loading) = 1
      BY <3>1, FS_Singleton
    <3>3. ~ model
      BY <2>2 DEF IInv, OneLoad
    <3> QED BY <3>2, <3>3 DEF ModelLoadedOnce
  <2> QED BY <2>1, <2>2
<1> QED BY <1>1, Inductive, PTL

-----------------------------------------------------------------------------
\* Sums over finite sets, by SumFunction of the community modules: a fold that
\* takes the elements in the order CHOOSE gives.  What is proved of it goes by
\* the least set, or number, of which it would be false.

Any(s) == CHOOSE x \in s : TRUE

\* h adds f up over every set in D, taking elements as CHOOSE does.
AddsUp(h, f, D) ==
    h = [s \in D |-> IF s = {} THEN 0 ELSE f[Any(s)] + h[s \ {Any(s)}]]

\* A set of numbers that is not empty has a least.
LEMMA Least ==
    ASSUME NEW T \in SUBSET Nat, T # {}
    PROVE  \E k \in T : \A m \in T : k <= m
<1> DEFINE R == OpToRel(<, Nat)
<1>1. IsWellFoundedOn(R, Nat)
  BY NatLessThanWellFounded
<1>2. \A m, k \in Nat : m < k => <<m, k>> \in R
  BY DEF OpToRel
<1> HIDE DEF R
<1>3. PICK k \in T : \A m \in T : ~ (<<m, k>> \in R)
  BY <1>1, WFMin
<1>4. \A m \in T : ~ (m < k)
  BY <1>2, <1>3
<1> QED BY <1>3, <1>4

\* A set of finite sets that is not empty has one with no other inside it.
LEMMA Smallest ==
    ASSUME NEW S, IsFiniteSet(S), NEW T \in SUBSET (SUBSET S), T # {}
    PROVE  \E s \in T : \A u \in T : ~ (u \subseteq s /\ u # s)
<1> DEFINE R == StrictSubsetOrdering(S)
<1>1. IsWellFoundedOn(R, SUBSET S)
  BY FS_StrictSubsetOrderingWellFounded, FS_FiniteSubsetsOfFinite
<1>2. \A u, s \in SUBSET S : u \subseteq s /\ u # s => <<u, s>> \in R
  BY DEF StrictSubsetOrdering
<1> HIDE DEF R
<1>3. PICK s \in T : \A u \in T : ~ (<<u, s>> \in R)
  BY <1>1, WFMin
<1> QED BY <1>2, <1>3

\* There is a function that adds f up, so that CHOOSE finds one.
LEMMA Exists ==
    ASSUME NEW S, IsFiniteSet(S), NEW f
    PROVE  \E h : AddsUp(h, f, SUBSET S)
<1> DEFINE Upto(k) == {s \in SUBSET S : Cardinality(s) <= k}
           T == {k \in Nat : ~ \E h : AddsUp(h, f, Upto(k))}
<1>1. SUFFICES ASSUME T # {} PROVE FALSE
  <2>1. Cardinality(S) \in Nat /\ Upto(Cardinality(S)) = SUBSET S
    BY FS_CardinalityType, FS_Subset
  <2>2. Cardinality(S) \notin T
    BY <1>1
  <2>3. \E h : AddsUp(h, f, Upto(Cardinality(S)))
    BY <2>1, <2>2
  <2> QED BY <2>1, <2>3
<1>2. PICK k \in T : \A m \in T : k <= m
  BY <1>1, Least
<1>3. k # 0
  <2>1. Upto(0) = {{}}
    BY FS_EmptySet, FS_Subset, FS_CardinalityType
  <2>2. AddsUp([s \in {{}} |-> 0], f, {{}})
    BY DEF AddsUp
  <2> HIDE DEF Upto
  <2> QED BY <2>1, <2>2
<1>4. k - 1 \in Nat /\ k - 1 \notin T
  <2>1. k \in Nat
    OBVIOUS
  <2> HIDE DEF T
  <2> QED BY <1>2, <1>3, <2>1
<1>5. PICK g : AddsUp(g, f, Upto(k - 1))
  BY <1>4
<1> DEFINE h == [s \in Upto(k) |-> IF s = {} THEN 0 ELSE f[Any(s)] + g[s \ {Any(s)}]]
<1>6. ASSUME NEW s \in Upto(k), s # {}
      PROVE  s \ {Any(s)} \in Upto(k - 1) /\ s \ {Any(s)} \in Upto(k)
  <2>1. Any(s) \in s
    BY <1>6 DEF Any
  <2>2. IsFiniteSet(s) /\ Cardinality(s) \in Nat /\ Cardinality(s) <= k
    BY FS_Subset, FS_CardinalityType
  <2>3. Cardinality(s \ {Any(s)}) = Cardinality(s) - 1
    BY <2>1, <2>2, FS_RemoveElement
  <2> QED BY <2>1, <2>2, <2>3, <1>2
<1>7. ASSUME NEW s \in Upto(k - 1)
      PROVE  s \in Upto(k) /\ h[s] = g[s]
  <2>1. s \in Upto(k)
    BY <1>2, FS_Subset, FS_CardinalityType
  <2>2. g[s] = IF s = {} THEN 0 ELSE f[Any(s)] + g[s \ {Any(s)}]
    BY <1>5 DEF AddsUp
  <2> QED BY <2>1, <2>2
<1>8. AddsUp(h, f, Upto(k))
  <2>1. ASSUME NEW s \in Upto(k)
        PROVE  h[s] = IF s = {} THEN 0 ELSE f[Any(s)] + h[s \ {Any(s)}]
    BY <1>6, <1>7
  <2> HIDE DEF Upto
  <2> QED BY <2>1 DEF AddsUp
<1> QED BY <1>2, <1>8

\* h is the sum of every part of S.
SumsOfParts(h, f, S) == AddsUp(h, f, SUBSET S)

\* SumFunction is the value of such a function.
LEMMA Unfolds ==
    ASSUME NEW S, NEW f \in [S -> Int], IsFiniteSet(S)
    PROVE  \E h : AddsUp(h, f, SUBSET S) /\ SumFunction(f) = h[S]
<1> DEFINE h == CHOOSE g : g = [s \in SUBSET S |->
                             IF s = {} THEN 0
                             ELSE f[CHOOSE x \in s : TRUE] + g[s \ {CHOOSE x \in s : TRUE}]]
<1>1. DOMAIN f = S
  OBVIOUS
<1>2. SumFunction(f) = h[S]
  BY <1>1 DEF SumFunction, SumFunctionOnSet, FoldFunctionOnSet, MapThenFoldSet
<1>3. AddsUp(h, f, SUBSET S)
  <2>1. \E g : g = [s \in SUBSET S |->
                        IF s = {} THEN 0
                        ELSE f[CHOOSE x \in s : TRUE] + g[s \ {CHOOSE x \in s : TRUE}]]
    <3>1. PICK k : AddsUp(k, f, SUBSET S)
      BY Exists
    <3>2. k = [s \in SUBSET S |->
                 IF s = {} THEN 0
                 ELSE f[CHOOSE x \in s : TRUE] + k[s \ {CHOOSE x \in s : TRUE}]]
      BY <3>1 DEF AddsUp, Any
    <3> QED BY <3>2
  <2>2. h = [s \in SUBSET S |->
               IF s = {} THEN 0
               ELSE f[CHOOSE x \in s : TRUE] + h[s \ {CHOOSE x \in s : TRUE}]]
    BY <2>1
  <2> HIDE DEF h
  <2> QED BY <2>2 DEF AddsUp, Any
<1> QED BY <1>2, <1>3

\* Sums of numbers are numbers.
LEMMA Value ==
    ASSUME NEW S, NEW f \in [S -> Int], IsFiniteSet(S),
           NEW h, AddsUp(h, f, SUBSET S), NEW s \in SUBSET S
    PROVE  h[s] \in Int
<1> DEFINE T == {u \in SUBSET S : h[u] \notin Int}
<1>1. SUFFICES ASSUME T # {} PROVE FALSE
  OBVIOUS
<1>2. PICK u \in T : \A v \in T : ~ (v \subseteq u /\ v # u)
  <2>1. T \in SUBSET (SUBSET S)
    OBVIOUS
  <2> HIDE DEF T
  <2> QED BY <1>1, <2>1, Smallest
<1>3. h[u] = IF u = {} THEN 0 ELSE f[Any(u)] + h[u \ {Any(u)}]
  BY DEF AddsUp
<1>4. u # {}
  BY <1>3
<1>5. Any(u) \in u
  BY <1>4 DEF Any
<1>6. h[u \ {Any(u)}] \in Int
  BY <1>2, <1>5
<1> QED BY <1>3, <1>4, <1>5, <1>6

\* Any element may be taken out first: the order does not matter.
LEMMA AnyElement ==
    ASSUME NEW S, NEW f \in [S -> Int], IsFiniteSet(S),
           NEW h, AddsUp(h, f, SUBSET S), NEW s \in SUBSET S, NEW e \in s
    PROVE  h[s] = f[e] + h[s \ {e}]
<1> DEFINE T == {u \in SUBSET S : \E x \in u : h[u] # f[x] + h[u \ {x}]}
<1>1. SUFFICES ASSUME T # {} PROVE FALSE
  OBVIOUS
<1>2. PICK u \in T : \A v \in T : ~ (v \subseteq u /\ v # u)
  <2>1. T \in SUBSET (SUBSET S)
    OBVIOUS
  <2> HIDE DEF T
  <2> QED BY <1>1, <2>1, Smallest
<1>3. PICK x \in u : h[u] # f[x] + h[u \ {x}]
  OBVIOUS
<1> DEFINE c == Any(u)
<1>4. c \in u /\ c \in S /\ x \in S
  BY DEF Any
<1>5. h[u] = f[c] + h[u \ {c}]
  BY DEF AddsUp
<1>6. x # c
  BY <1>3, <1>5
<1> HIDE DEF c
<1>7. u \ {c} \notin T /\ u \ {x} \notin T
  BY <1>2, <1>4
<1>8. h[u \ {c}] = f[x] + h[(u \ {c}) \ {x}]
  BY <1>4, <1>6, <1>7
<1>9. h[u \ {x}] = f[c] + h[(u \ {x}) \ {c}]
  BY <1>4, <1>6, <1>7
<1>10. (u \ {c}) \ {x} = (u \ {x}) \ {c}
  OBVIOUS
<1>11. f[c] \in Int /\ f[x] \in Int /\ h[(u \ {x}) \ {c}] \in Int
  BY <1>4, Value
<1>12. f[c] + (f[x] + h[(u \ {x}) \ {c}]) = f[x] + (f[c] + h[(u \ {x}) \ {c}])
  BY <1>11
<1>13. h[u] = f[c] + (f[x] + h[(u \ {x}) \ {c}])
  BY <1>5, <1>8, <1>10
<1>14. f[x] + h[u \ {x}] = f[x] + (f[c] + h[(u \ {x}) \ {c}])
  BY <1>9
<1> QED BY <1>3, <1>12, <1>13, <1>14

\* Two functions that have the same values on R.
SameIn(f, g, R) == \A x \in R : f[x] = g[x]

\* The sum over a part depends on the values in that part only.
LEMMA Agree ==
    ASSUME NEW S, NEW f \in [S -> Int], IsFiniteSet(S), NEW h, SumsOfParts(h, f, S),
           NEW R, R \subseteq S, NEW g, SameIn(f, g, R), NEW k, SumsOfParts(k, g, R)
    PROVE  k[R] = h[R]
<1> DEFINE T == {u \in SUBSET R : k[u] # h[u]}
<1>1. SUFFICES ASSUME T # {} PROVE FALSE
  OBVIOUS
<1>2. PICK u \in T : \A v \in T : ~ (v \subseteq u /\ v # u)
  <2>1. T \in SUBSET (SUBSET R) /\ IsFiniteSet(R)
    BY FS_Subset
  <2> HIDE DEF T
  <2> QED BY <1>1, <2>1, Smallest
<1>3. u \in SUBSET R /\ u \in SUBSET S
  OBVIOUS
<1>4. h[u] = IF u = {} THEN 0 ELSE f[Any(u)] + h[u \ {Any(u)}]
  BY <1>3 DEF SumsOfParts, AddsUp
<1>5. k[u] = IF u = {} THEN 0 ELSE g[Any(u)] + k[u \ {Any(u)}]
  BY <1>3 DEF SumsOfParts, AddsUp
<1>6. u # {}
  BY <1>4, <1>5
<1>7. Any(u) \in u
  BY <1>6 DEF Any
<1>8. h[u \ {Any(u)}] = k[u \ {Any(u)}]
  BY <1>2, <1>7
<1>9. f[Any(u)] = g[Any(u)]
  BY <1>3, <1>7 DEF SameIn
<1>10. k[u] # h[u]
  BY <1>2
<1> HIDE DEF T
<1> QED BY <1>4, <1>5, <1>6, <1>8, <1>9, <1>10

\* The sum of numbers is a number, and that of none is 0.
LEMMA SumType ==
    ASSUME NEW S, NEW f \in [S -> Int], IsFiniteSet(S)
    PROVE  SumFunction(f) \in Int /\ (S = {} => SumFunction(f) = 0)
<1>1. PICK h : AddsUp(h, f, SUBSET S) /\ SumFunction(f) = h[S]
  BY Unfolds
<1>2. S = {} => h[S] = 0
  BY <1>1 DEF AddsUp
<1>3. h[S] \in Int
  BY <1>1, Value
<1> QED BY <1>1, <1>2, <1>3

\* The sum is one value and the sum of the others.
LEMMA SumWithout ==
    ASSUME NEW S, NEW f \in [S -> Int], IsFiniteSet(S), NEW e \in S,
           NEW R, R = S \ {e}, NEW g \in [R -> Int], SameIn(f, g, R)
    PROVE  SumFunction(f) = f[e] + SumFunction(g)
<1>1. PICK h : SumsOfParts(h, f, S) /\ SumFunction(f) = h[S]
  BY Unfolds DEF SumsOfParts
<1>2. IsFiniteSet(R) /\ R \subseteq S
  BY FS_RemoveElement
<1>3. PICK k : SumsOfParts(k, g, R) /\ SumFunction(g) = k[R]
  BY <1>2, Unfolds DEF SumsOfParts
<1>4. k[R] = h[R]
  BY <1>1, <1>2, <1>3, Agree
<1>5. h[S] = f[e] + h[S \ {e}]
  BY <1>1, AnyElement DEF SumsOfParts
<1> QED BY <1>1, <1>3, <1>4, <1>5

-----------------------------------------------------------------------------
\* Charges.

\* What request q owes tenant t's bucket.
Share(q, t) == IF q.tenant = t THEN Owed(q) ELSE 0

\* What request r, with record q, has taken, if the corrections of D are in doubt
\* and those of L lost.
Holds(q, r, D, L) == IF r \notin D THEN Owed(q) ELSE IF r \in L THEN q.est ELSE q.due

\* That, for tenant t's bucket.
Holding(q, r, D, L, t) == IF q.tenant = t THEN Holds(q, r, D, L) ELSE 0

\* What each request of R that is tenant t's holds of it, as records reqs have it.
SharesIn(reqs, R, D, L, t) ==
    [r \in {x \in R : reqs[x].tenant = t} |-> Holds(reqs[r], r, D, L)]

\* The slot is charged on admission, and the correction that is awaited is what
\* makes the charge right.
Square(q) ==
    /\ q.pc \in {"new", "checking"} => ~ q.slot
    /\ q.pc \notin {"new", "checking", "done"} /\ q.tenant \in Tenants => q.slot
    /\ q.pc = "settling" =>
          /\ q.tenant \in Tenants
          /\ q.result = "served" => q.total
          /\ q.due = IF q.result = "served" THEN q.used ELSE 0

\* What a step of request r takes from each bucket is what the request owes more.
Balanced(r) ==
    \A t \in Tenants :
        spent'[t] = spent[t] - Share(requests[r], t) + Share(requests[r], t)'

\* Nothing is awaited of a request in doubt.
DoubtIsDone == \A r \in doubt : requests[r].pc = "done"

\* The invariant under which the charges are right.
ChargeInv ==
    /\ IInv
    /\ \A r \in Requests : Square(requests[r])
    /\ DoubtIsDone
    /\ ChargesAreOwed

\* What is owed, or held, is a number.
LEMMA OwedType ==
    ASSUME NEW q \in Request, NEW r, NEW D, NEW L
    PROVE  Owed(q) \in Int /\ Holds(q, r, D, L) \in Int
<1>1. q.est \in Nat /\ q.due \in Nat /\ q.used \in Usages \cup {NoUsage}
  BY Numbers DEF Request
<1>2. q.used \in Int
  <2>1. Usages \cup {NoUsage} \subseteq Int
    BY ConstantTypes
  <2> QED BY <1>1, <2>1
<1>3. Owed(q) \in Int
  BY <1>1, <1>2 DEF Owed
<1> QED BY <1>1, <1>3 DEF Holds

\* What is held of one tenant can be added up.
LEMMA SharesType ==
    ASSUME IsFiniteSet(Requests), NEW reqs \in [Requests -> Request], NEW R \in SUBSET Requests,
           NEW D, NEW L, NEW t
    PROVE  LET S == {x \in R : reqs[x].tenant = t}
           IN  /\ SharesIn(reqs, R, D, L, t) \in [S -> Int] /\ IsFiniteSet(S)
               /\ SumFunction(SharesIn(reqs, R, D, L, t)) \in Int
<1> DEFINE S == {x \in R : reqs[x].tenant = t}
<1>1. IsFiniteSet(S)
  BY FS_Subset
<1>2. SharesIn(reqs, R, D, L, t) \in [S -> Int]
  BY OwedType DEF SharesIn
<1> HIDE DEF S
<1>3. SumFunction(SharesIn(reqs, R, D, L, t)) \in Int
  BY <1>1, <1>2, SumType
<1> QED BY <1>1, <1>2, <1>3 DEF S

\* One request's part taken out of the sum.
LEMMA ShareApart ==
    ASSUME IsFiniteSet(Requests), NEW reqs \in [Requests -> Request], NEW r \in Requests,
           NEW D, NEW L, NEW t
    PROVE  SumFunction(SharesIn(reqs, Requests, D, L, t)) =
              Holding(reqs[r], r, D, L, t) + SumFunction(SharesIn(reqs, Requests \ {r}, D, L, t))
<1> DEFINE S == {x \in Requests : reqs[x].tenant = t}
           f == SharesIn(reqs, Requests, D, L, t)
           g == SharesIn(reqs, Requests \ {r}, D, L, t)
<1>1. f \in [S -> Int] /\ IsFiniteSet(S) /\ SumFunction(g) \in Int
  <2>1. f \in [S -> Int] /\ IsFiniteSet(S)
    BY Requests \in SUBSET Requests, SharesType
  <2>2. SumFunction(g) \in Int
    BY Requests \ {r} \in SUBSET Requests, SharesType
  <2> QED BY <2>1, <2>2
<1>2. CASE reqs[r].tenant = t
  <2>1. r \in S /\ f[r] = Holds(reqs[r], r, D, L)
    BY <1>2 DEF SharesIn
  <2>2. g = [x \in S \ {r} |-> Holds(reqs[x], x, D, L)] /\ SameIn(f, g, S \ {r})
    BY DEF SharesIn, SameIn
  <2> HIDE DEF S, f
  <2>3. PICK R : R = S \ {r} /\ g \in [R -> Int] /\ SameIn(f, g, R)
    <3>1. \A x \in S \ {r} : f[x] \in Int /\ g[x] = f[x]
      BY <1>1, <2>2 DEF SameIn
    <3>2. g \in [S \ {r} -> Int]
      BY <2>2, <3>1
    <3> QED BY <2>2, <3>2
  <2> HIDE DEF g
  <2>4. SumFunction(f) = f[r] + SumFunction(g)
    BY <1>1, <2>1, <2>3, SumWithout
  <2> QED BY <1>2, <2>1, <2>4 DEF Holding, f, g
<1>3. CASE reqs[r].tenant # t
  <2>1. {x \in Requests \ {r} : reqs[x].tenant = t} = S
    BY <1>3
  <2>2. g = f
    BY <2>1 DEF SharesIn
  <2>3. SumFunction(g) = 0 + SumFunction(g)
    BY <1>1
  <2> QED BY <1>3, <2>2, <2>3 DEF Holding
<1> QED BY <1>2, <1>3

\* The books of tenant t are right if the corrections of lost are.
Books(reqs, D, lost, t, tokens) ==
    tokens = SumFunction(SharesIn(reqs, Requests, D, lost, t))

\* A step of one request that takes from its tenant what it holds more than
\* before, and from nobody else, keeps the books, whatever the others hold.
LEMMA BooksKept ==
    ASSUME IsFiniteSet(Requests), NEW reqs \in [Requests -> Request], NEW r \in Requests,
           NEW next \in [Requests -> Request], \A x \in Requests \ {r} : next[x] = reqs[x],
           NEW D, NEW E, \A x \in Requests \ {r} : x \in E <=> x \in D,
           NEW L, NEW M, \A x \in Requests \ {r} : x \in M <=> x \in L,
           NEW t, NEW m \in Int, NEW n, Books(reqs, D, L, t, m),
           n = m - Holding(reqs[r], r, D, L, t) + Holding(next[r], r, E, M, t)
    PROVE  Books(next, E, M, t, n)
<1> DEFINE rest == SumFunction(SharesIn(reqs, Requests \ {r}, D, L, t))
<1>1. SharesIn(next, Requests \ {r}, E, M, t) = SharesIn(reqs, Requests \ {r}, D, L, t)
  BY DEF SharesIn, Holds
<1>2. rest \in Int
  BY Requests \ {r} \in SUBSET Requests, SharesType
<1>3. m = Holding(reqs[r], r, D, L, t) + rest
  BY ShareApart DEF Books
<1>4. SumFunction(SharesIn(next, Requests, E, M, t)) = Holding(next[r], r, E, M, t) + rest
  BY <1>1, ShareApart
<1>5. Holding(reqs[r], r, D, L, t) \in Int /\ Holding(next[r], r, E, M, t) \in Int
  BY OwedType DEF Holding
<1> HIDE DEF rest
<1> QED BY <1>2, <1>3, <1>4, <1>5 DEF Books

\* ChargesAreOwed, in these terms.
LEMMA BooksAreCharges ==
    ChargesAreOwed <=>
        \A t \in Tenants :
            \E lost \in SUBSET ({x \in Requests : requests[x].tenant = t} \cap doubt) :
                Books(requests, doubt, lost, t, spent[t])
<1> QED BY DEF ChargesAreOwed, Books, SharesIn, Holds, Taken

\* The step of one request keeps the books if it balances and leaves no doubt.
LEMMA StillOwed ==
    ASSUME IsFiniteSet(Requests), ChargeInv, IInv', NEW r \in Requests, NEW p, Becomes(r, p),
           requests[r].pc # "done", doubt' = doubt, Balanced(r)
    PROVE  ChargesAreOwed'
<1>1. /\ requests \in [Requests -> Request] /\ requests' \in [Requests -> Request]
      /\ spent \in [Tenants -> Int]
  BY DEF ChargeInv, IInv, TypeOK
<1>2. \A x \in Requests \ {r} : requests'[x] = requests[x]
  BY <1>1 DEF Becomes
<1>3. r \notin doubt
  BY DEF ChargeInv, DoubtIsDone
<1>4. ASSUME NEW t \in Tenants
      PROVE  \E lost \in SUBSET ({x \in Requests : requests'[x].tenant = t} \cap doubt') :
                Books(requests', doubt', lost, t, spent'[t])
  <2>1. PICK lost \in SUBSET ({x \in Requests : requests[x].tenant = t} \cap doubt) :
           Books(requests, doubt, lost, t, spent[t])
    BY BooksAreCharges DEF ChargeInv
  <2>2. lost \in SUBSET ({x \in Requests : requests'[x].tenant = t} \cap doubt')
    BY <1>2, <1>3
  <2>3. spent'[t] = spent[t] - Holding(requests[r], r, doubt, lost, t)
                             + Holding(requests'[r], r, doubt', lost, t)
    BY <1>3 DEF Balanced, Share, Holding, Holds
  <2>4. Books(requests', doubt', lost, t, spent'[t])
    <3>1. spent[t] \in Int
      BY <1>1
    <3> QED BY <1>1, <1>2, <2>1, <2>3, <3>1, BooksKept
  <2> QED BY <2>2, <2>4
<1> QED BY <1>4 DEF ChargesAreOwed, Books, SharesIn, Holds, Taken

\* A handler that keeps its tenant and its charge owes what it did as long as it
\* is not over, and afterwards if nothing was reported of it.
LEMMA StillOwes ==
    ASSUME NEW r \in Requests, NEW q, NEW p, q = requests[r], ChargeInv, Becomes(r, p),
           p.tenant = q.tenant, p.slot = q.slot, p.est = q.est, q.pc # "done",
           \/ p.pc # "done" \/ p.result = "crashed" \/ ~ p.slot \/ p.tenant \notin Tenants
           \/ p.result = "served" /\ ~ p.total,
           UNCHANGED spent
    PROVE  Balanced(r)
<1> SUFFICES ASSUME NEW t \in Tenants
             PROVE  spent'[t] = spent[t] - Share(requests[r], t) + Share(requests'[r], t)
  BY DEF Balanced, Share
<1>1. requests \in [Requests -> Request] /\ spent[t] \in Int /\ q \in Request
  BY DEF ChargeInv, IInv, TypeOK
<1>2. requests'[r] = p
  BY <1>1 DEF Becomes
<1>3. Share(p, t) = Share(q, t)
  BY DEF Share, Owed
<1>4. Share(q, t) \in Int
  BY <1>1, OwedType DEF Share
<1> QED BY <1>1, <1>2, <1>3, <1>4

\* The fields of a request.
Fields == {"pc", "tenant", "prompt", "stream", "est", "slot", "tried", "used", "total", "due",
           "result", "status", "counted", "errors", "event", "billed", "answerOf"}

\* What the bookkeeping of metrics leaves alone.
Alike(p, q) ==
    /\ DOMAIN p = DOMAIN q
    /\ p.tenant = q.tenant /\ p.slot = q.slot /\ p.est = q.est
    /\ p.used = q.used /\ p.total = q.total /\ p.due = q.due

\* How a request can end whose handler runs to its end.
Ways == {"hit", "served", "rejected", "failed", "broken"}

\* The end of a handler is bookkeeping.
LEMMA ConcludedIsAlike ==
    ASSUME NEW q, DOMAIN q = Fields, q.result \in Ways
    PROVE  Alike(Concluded(q), q) /\ Concluded(q).result = q.result /\ Concluded(q).pc = "done"
<1>1. CASE q.result = "hit"
  BY <1>1 DEF Concluded, Over, Counted, Alike, Fields
<1>2. CASE q.result \in {"rejected", "failed"}
  BY <1>2 DEF Concluded, Over, Counted, Flagged, Alike, Fields
<1>3. CASE q.result = "served"
  <2>1. PICK p : p = Billed(q)
    OBVIOUS
  <2>2. /\ DOMAIN p = Fields /\ p.result = q.result
        /\ p.tenant = q.tenant /\ p.slot = q.slot /\ p.est = q.est
        /\ p.used = q.used /\ p.total = q.total /\ p.due = q.due
    BY <2>1 DEF Billed, Fields
  <2>3. Concluded(q) = Over(p, 200)
    BY <1>3, <2>1 DEF Concluded
  <2> QED BY <2>2, <2>3 DEF Over, Alike, Fields
<1>4. CASE q.result = "broken"
  BY <1>4 DEF Concluded, Over, Alike, Fields
<1> QED BY <1>1, <1>2, <1>3, <1>4 DEF Ways

\* What the step of request r makes of the charges.
Charged(r) == \E p : Becomes(r, p) /\ Square(p) /\ Balanced(r)

\* What the invariant says of one request.
LEMMA Standing ==
    ASSUME ChargeInv, NEW r \in Requests
    PROVE  /\ requests[r] \in Request /\ DOMAIN requests[r] = Fields
           /\ Square(requests[r]) /\ Good(requests[r], settings, r, doubt)
<1>1. requests[r] \in Request
  BY DEF ChargeInv, IInv, TypeOK
<1>2. DOMAIN requests[r] = Fields
  BY <1>1 DEF Request, Fields
<1> QED BY <1>1, <1>2 DEF ChargeInv, IInv

\* A correction is awaited, or there is nobody to be charged.
LEMMA CorrectCharges ==
    ASSUME ChargeInv, NEW r \in Requests, requests[r].pc \notin {"new", "checking", "done"},
           NEW q, DOMAIN q = Fields, q.tenant = requests[r].tenant,
           q.slot = requests[r].slot, q.est = requests[r].est,
           NEW result \in Ways, result = "served" => q.total,
           NEW actual, actual = IF result = "served" THEN q.used ELSE 0,
           Correct(r, q, result, actual), UNCHANGED spent
    PROVE  Charged(r)
<1>1. CASE q.tenant \in Tenants
  <2> DEFINE p == Settling(q, result, actual)
  <2>1. Becomes(r, p)
    BY <1>1 DEF Correct
  <2>2. /\ p.pc = "settling" /\ p.result = result /\ p.due = actual
        /\ p.tenant = q.tenant /\ p.slot = q.slot /\ p.est = q.est
        /\ p.used = q.used /\ p.total = q.total
    BY DEF Settling, Fields
  <2> HIDE DEF p
  <2>3. q.slot
    BY <1>1, Standing DEF Square
  <2>4. Square(p)
    BY <1>1, <2>2, <2>3 DEF Square
  <2>5. Balanced(r)
    BY <2>1, <2>2, StillOwes
  <2> QED BY <2>1, <2>4, <2>5 DEF Charged
<1>2. CASE q.tenant \notin Tenants
  <2> DEFINE e == [q EXCEPT !.result = result]
             p == Concluded(e)
  <2>1. DOMAIN e = Fields /\ e.result = result /\ Alike(e, q)
    BY DEF Alike, Fields
  <2>2. Becomes(r, p)
    BY <1>2 DEF Correct, Conclude
  <2> HIDE DEF e
  <2>3. Alike(p, e) /\ p.pc = "done"
    BY <2>1, ConcludedIsAlike
  <2> HIDE DEF p
  <2>4. Square(p)
    BY <2>3 DEF Square
  <2>5. p.tenant = q.tenant /\ p.slot = q.slot /\ p.est = q.est
    BY <2>1, <2>3 DEF Alike
  <2>6. Balanced(r)
    BY <1>2, <2>2, <2>5, StillOwes
  <2> QED BY <2>2, <2>4, <2>6 DEF Charged
<1> QED BY <1>1, <1>2

\* A request that ends with no total named keeps its estimate.
LEMMA ConcludeCharges ==
    ASSUME ChargeInv, NEW r \in Requests, requests[r].pc # "done",
           NEW q, DOMAIN q = Fields, q.tenant = requests[r].tenant,
           q.slot = requests[r].slot, q.est = requests[r].est, ~ q.total,
           Conclude(r, [q EXCEPT !.result = "served"]), UNCHANGED spent
    PROVE  Charged(r)
<1> DEFINE e == [q EXCEPT !.result = "served"]
           p == Concluded(e)
<1>1. DOMAIN e = Fields /\ e.result = "served" /\ Alike(e, q)
  BY DEF Alike, Fields
<1>2. Becomes(r, p)
  BY DEF Conclude
<1> HIDE DEF e
<1>3. Alike(p, e) /\ p.result = "served" /\ p.pc = "done"
  BY <1>1, ConcludedIsAlike DEF Ways
<1> HIDE DEF p
<1>4. p.tenant = q.tenant /\ p.slot = q.slot /\ p.est = q.est /\ ~ p.total
  BY <1>1, <1>3 DEF Alike
<1>5. Balanced(r)
  BY <1>2, <1>3, <1>4, StillOwes
<1>6. Square(p)
  BY <1>3 DEF Square
<1> QED BY <1>2, <1>5, <1>6 DEF Charged

\* A hit refunds the estimate.
LEMMA HitCharges == ASSUME ChargeInv, NEW r \in Requests, Hit(r) PROVE Charged(r)
<1>1. PICK a \in Fitting(requests[r]) :
         Correct(r, [requests[r] EXCEPT !.answerOf = a.by], "hit", 0)
  BY DEF Hit
<1> DEFINE q == [requests[r] EXCEPT !.answerOf = a.by]
<1>2. Alike(q, requests[r]) /\ DOMAIN q = Fields
  BY Standing DEF Alike, Fields
<1>3. Correct(r, q, "hit", 0) /\ UNCHANGED spent /\ requests[r].pc = "embedding"
  BY <1>1 DEF Hit
<1> HIDE DEF q
<1> QED BY <1>2, <1>3, CorrectCharges DEF Alike, Ways

\* An answer is charged as reported, or as estimated.
LEMMA ServeCharges == ASSUME ChargeInv, NEW r \in Requests, Serve(r) PROVE Charged(r)
<1> DEFINE q == Counted([requests[r] EXCEPT !.tried = TRUE], "success")
<1>1. Alike(q, requests[r]) /\ DOMAIN q = Fields
  BY Standing DEF Alike, Fields, Counted
<1>2. UNCHANGED spent /\ requests[r].pc = "executing"
  BY DEF Serve
<1>3. \/ \E usage \in Usages :
            Correct(r, [q EXCEPT !.used = usage, !.total = TRUE], "served", usage)
      \/ Conclude(r, [q EXCEPT !.result = "served"])
  BY DEF Serve
<1> HIDE DEF q
<1>4. CASE Conclude(r, [q EXCEPT !.result = "served"])
  <2>1. ~ requests[r].total
    BY <1>2, Standing DEF Good, Begun, BeforeAnswer
  <2> QED BY <1>1, <1>2, <1>4, <2>1, ConcludeCharges DEF Alike
<1>5. ASSUME NEW usage \in Usages,
             Correct(r, [q EXCEPT !.used = usage, !.total = TRUE], "served", usage)
      PROVE  Charged(r)
  <2> DEFINE p == [q EXCEPT !.used = usage, !.total = TRUE]
  <2>1. /\ DOMAIN p = Fields /\ p.used = usage /\ p.total /\ p.tenant = q.tenant
        /\ p.slot = q.slot /\ p.est = q.est
    BY <1>1 DEF Fields
  <2>2. Correct(r, p, "served", usage)
    BY <1>5
  <2> HIDE DEF p
  <2> QED BY <1>1, <1>2, <2>1, <2>2, CorrectCharges DEF Alike, Ways
<1> QED BY <1>3, <1>4, <1>5

\* A request no provider serves is refunded.
LEMMA UnservedCharges == ASSUME ChargeInv, NEW r \in Requests, Unserved(r) PROVE Charged(r)
<1>1. PICK tried \in BOOLEAN, result \in {"rejected", "failed"} :
         Correct(r, [requests[r] EXCEPT !.tried = tried], result, 0)
  BY DEF Unserved
<1> DEFINE q == [requests[r] EXCEPT !.tried = tried]
<1>2. Alike(q, requests[r]) /\ DOMAIN q = Fields
  BY Standing DEF Alike, Fields
<1>3. /\ Correct(r, q, result, 0) /\ UNCHANGED spent
      /\ requests[r].pc \notin {"new", "checking", "done"}
  BY <1>1 DEF Unserved
<1>4. result \in Ways /\ result # "served"
  BY DEF Ways
<1> HIDE DEF q
<1> QED BY <1>2, <1>3, <1>4, CorrectCharges DEF Alike

\* A complete stream is charged as reported, or as estimated.
LEMMA CompleteCharges == ASSUME ChargeInv, NEW r \in Requests, Complete(r) PROVE Charged(r)
<1> DEFINE q == requests[r]
<1>1. DOMAIN q = Fields /\ UNCHANGED spent /\ q.pc = "streaming"
  BY Standing DEF Complete
<1>2. CASE ~ q.total
  <2>1. Conclude(r, [q EXCEPT !.result = "served"])
    BY <1>2 DEF Complete
  <2> QED BY <1>1, <1>2, <2>1, ConcludeCharges
<1>3. CASE q.total
  <2>1. Correct(r, q, "served", q.used)
    BY <1>3 DEF Complete
  <2> QED BY <1>1, <1>3, <2>1, CorrectCharges DEF Ways
<1> QED BY <1>2, <1>3

\* A broken stream is refunded.
LEMMA BreakCharges == ASSUME ChargeInv, NEW r \in Requests, Break(r) PROVE Charged(r)
<1> DEFINE q == Flagged(requests[r])
<1>1. Alike(q, requests[r]) /\ DOMAIN q = Fields
  BY Standing DEF Alike, Fields, Flagged
<1>2. Correct(r, q, "broken", 0) /\ UNCHANGED spent /\ requests[r].pc = "streaming"
  BY DEF Break
<1> HIDE DEF q
<1> QED BY <1>1, <1>2, CorrectCharges DEF Alike, Ways

\* A request that is not charged owes nothing.
LEMMA FreeCharges ==
    ASSUME ChargeInv, NEW r \in Requests, NEW p, Becomes(r, p), Square(p),
           ~ requests[r].slot, ~ p.slot, UNCHANGED spent
    PROVE  Charged(r)
<1>1. requests \in [Requests -> Request] /\ spent \in [Tenants -> Int]
  BY DEF ChargeInv, IInv, TypeOK
<1>2. requests'[r] = p
  BY <1>1 DEF Becomes
<1>3. Balanced(r)
  BY <1>1, <1>2 DEF Balanced, Share, Owed
<1> QED BY <1>3 DEF Charged

\* Who is turned away was not charged,
LEMMA TurnAwayCharges == ASSUME ChargeInv, NEW r \in Requests, TurnAway(r) PROVE Charged(r)
<1>1. PICK status : Becomes(r, Over(Flagged(requests[r]), status))
  BY DEF TurnAway
<1> DEFINE p == Over(Flagged(requests[r]), status)
<1>2. p.pc = "done" /\ p.slot = requests[r].slot
  BY Standing DEF Over, Flagged, Fields
<1>3. Becomes(r, p) /\ ~ requests[r].slot /\ UNCHANGED spent
  BY <1>1, Standing DEF TurnAway, Square
<1> HIDE DEF p
<1>4. Square(p)
  BY <1>2 DEF Square
<1> QED BY <1>2, <1>3, <1>4, FreeCharges

\* nor who is throttled.
LEMMA ThrottleCharges == ASSUME ChargeInv, NEW r \in Requests, Throttle(r) PROVE Charged(r)
<1> DEFINE p == Over(Counted(Flagged(requests[r]), "throttled"), 429)
<1>1. p.pc = "done" /\ p.slot = requests[r].slot
  BY Standing DEF Over, Flagged, Counted, Fields
<1>2. Becomes(r, p) /\ ~ requests[r].slot /\ UNCHANGED spent
  BY Standing DEF Throttle, Square
<1> HIDE DEF p
<1>3. Square(p)
  BY <1>1 DEF Square
<1> QED BY <1>1, <1>2, <1>3, FreeCharges

\* Admission sends a handler on and leaves alone what it is charged by.
LEMMA AdmittedIsAlike ==
    ASSUME NEW q, DOMAIN q = Fields
    PROVE  /\ Alike(Admitted(q), q)
           /\ Admitted(q).pc \in {"opening", "queued", "executing"}
<1>1. CASE q.stream
  BY <1>1 DEF Admitted, Alike, Fields
<1>2. CASE ~ q.stream /\ settings.cache
  BY <1>2 DEF Admitted, Alike, Fields
<1>3. CASE ~ q.stream /\ ~ settings.cache
  BY <1>3 DEF Admitted, Alike, Fields
<1> QED BY <1>1, <1>2, <1>3

\* Where there are no tenants nobody is charged.
LEMMA ArriveAnonymousCharges ==
    ASSUME ChargeInv, NEW r \in Requests, ArriveAnonymous(r) PROVE Charged(r)
<1>1. PICK prompt \in Prompts, stream \in BOOLEAN :
         Becomes(r, Admitted([requests[r] EXCEPT !.tenant = Anonymous,
                                 !.prompt = prompt, !.stream = stream]))
  BY DEF ArriveAnonymous
<1> DEFINE q == [requests[r] EXCEPT !.tenant = Anonymous, !.prompt = prompt, !.stream = stream]
           p == Admitted(q)
<1>2. DOMAIN q = Fields /\ q.tenant = Anonymous /\ q.slot = requests[r].slot
  BY Standing DEF Fields
<1>3. Becomes(r, p) /\ ~ requests[r].slot /\ UNCHANGED spent
  BY <1>1, Standing DEF ArriveAnonymous, Square
<1> HIDE DEF q
<1>4. p.tenant = Anonymous /\ ~ p.slot /\ p.pc \in {"opening", "queued", "executing"}
  BY <1>2, <1>3, AdmittedIsAlike DEF Alike
<1> HIDE DEF p
<1>5. Square(p)
  BY <1>4, GatewayAssumption DEF Square
<1> QED BY <1>3, <1>4, <1>5, FreeCharges

\* Whoever waits for the limiter is not charged yet.
LEMMA ArriveCharges == ASSUME ChargeInv, NEW r \in Requests, Arrive(r) PROVE Charged(r)
<1>1. PICK tenant \in Tenants, prompt \in Prompts, stream \in BOOLEAN, est \in Estimates :
         Becomes(r, [requests[r] EXCEPT !.pc = "checking", !.tenant = tenant,
                        !.prompt = prompt, !.stream = stream, !.est = est])
  BY DEF Arrive
<1> DEFINE p == [requests[r] EXCEPT !.pc = "checking", !.tenant = tenant,
                    !.prompt = prompt, !.stream = stream, !.est = est]
<1>2. p.pc = "checking" /\ p.slot = requests[r].slot
  BY Standing DEF Fields
<1>3. Becomes(r, p) /\ ~ requests[r].slot /\ UNCHANGED spent
  BY <1>1, Standing DEF Arrive, Square
<1> HIDE DEF p
<1>4. Square(p)
  BY <1>2, <1>3 DEF Square
<1> QED BY <1>2, <1>3, <1>4, FreeCharges

\* A charge to the tenant of a request squares what it owed with what it owes.
LEMMA ChargeBalances ==
    ASSUME ChargeInv, NEW r \in Requests, NEW p, Becomes(r, p),
           p.tenant = requests[r].tenant, NEW n \in Int, Charge(requests[r], n),
           Owed(requests[r]) + n = Owed(p), Owed(p) \in Int
    PROVE  Balanced(r)
<1> DEFINE q == requests[r]
<1>1. requests \in [Requests -> Request] /\ spent \in [Tenants -> Int] /\ q \in Request
  BY DEF ChargeInv, IInv, TypeOK
<1>2. requests'[r] = p
  BY <1>1 DEF Becomes
<1>3. Owed(q) \in Int
  BY <1>1, OwedType
<1>4. SUFFICES ASSUME NEW t \in Tenants
               PROVE  spent'[t] = spent[t] - Share(q, t) + Share(p, t)
  BY <1>2 DEF Balanced, Share
<1>5. CASE t = q.tenant
  <2>1. spent'[t] = spent[t] + n
    BY <1>1, <1>5 DEF Charge
  <2>2. Share(q, t) = Owed(q) /\ Share(p, t) = Owed(p)
    BY <1>5 DEF Share
  <2>3. spent[t] \in Int
    BY <1>1
  <2>4. Owed(q) + n = Owed(p)
    OBVIOUS
  <2> HIDE DEF q
  <2> QED BY <1>3, <2>1, <2>2, <2>3, <2>4
<1>6. CASE t # q.tenant
  <2>1. spent'[t] = spent[t] /\ spent[t] \in Int
    BY <1>1, <1>6 DEF Charge
  <2> QED BY <1>6, <2>1 DEF Share
<1> QED BY <1>5, <1>6

\* Admission charges the estimate.
LEMMA AdmitCharges == ASSUME ChargeInv, NEW r \in Requests, Admit(r) PROVE Charged(r)
<1> DEFINE q == [requests[r] EXCEPT !.slot = TRUE]
           p == Admitted(q)
<1>1. /\ DOMAIN q = Fields /\ q.tenant = requests[r].tenant /\ q.slot
      /\ q.est = requests[r].est
  BY Standing DEF Fields
<1>2. Becomes(r, p) /\ Charge(requests[r], requests[r].est) /\ requests[r].pc = "checking"
  BY DEF Admit
<1> HIDE DEF q
<1>3. /\ p.tenant = requests[r].tenant /\ p.slot /\ p.est = requests[r].est
      /\ p.pc \in {"opening", "queued", "executing"}
  BY <1>1, AdmittedIsAlike DEF Alike
<1> HIDE DEF p
<1>4. ~ requests[r].slot /\ requests[r].est \in Nat
  BY <1>2, Standing, Numbers DEF Square, Request
<1>5. Square(p)
  BY <1>3 DEF Square
<1>6. Owed(requests[r]) = 0 /\ Owed(p) = requests[r].est
  BY <1>3, <1>4 DEF Owed
<1>7. Balanced(r)
  BY <1>2, <1>3, <1>4, <1>6, ChargeBalances
<1> QED BY <1>2, <1>5, <1>7 DEF Charged

\* If the limiter's answer is lost the charge may have been made, but it is then
\* that of a handler that crashed.
LEMMA CheckFailsCharges ==
    ASSUME ChargeInv, NEW r \in Requests, CheckFails(r) PROVE Charged(r)
<1>1. PICK done \in BOOLEAN :
         /\ Charge(requests[r], IF done THEN requests[r].est ELSE 0)
         /\ Becomes(r, Over([requests[r] EXCEPT !.result = "crashed", !.slot = done], 500))
  BY Zenon DEF CheckFails
<1> DEFINE p == Over([requests[r] EXCEPT !.result = "crashed", !.slot = done], 500)
           n == IF done THEN requests[r].est ELSE 0
<1>2. /\ p.pc = "done" /\ p.result = "crashed" /\ p.slot = done
      /\ p.tenant = requests[r].tenant /\ p.est = requests[r].est
  BY Standing DEF Over, Fields
<1>3. Becomes(r, p) /\ Charge(requests[r], n)
  BY <1>1
<1> HIDE DEF p
<1>4. ~ requests[r].slot /\ requests[r].est \in Nat
  BY Standing, Numbers DEF CheckFails, Square
<1>5. Owed(requests[r]) = 0 /\ Owed(p) = n /\ n \in Int
  BY <1>2, <1>4 DEF Owed
<1> HIDE DEF n
<1>6. Owed(requests[r]) + n = Owed(p)
  BY <1>5
<1>7. Balanced(r)
  BY <1>2, <1>3, <1>5, <1>6, ChargeBalances
<1>8. Square(p)
  BY <1>2 DEF Square
<1> QED BY <1>3, <1>7, <1>8 DEF Charged

\* A correction that is lost leaves its own request in doubt, with its estimate,
\* or with what is due if it was made all the same; L says which.
Doubted(r) ==
    \E L \in SUBSET {r} : \E p :
        /\ Becomes(r, p) /\ p.pc = "done"
        /\ doubt' = doubt \cup {r}
        /\ \A t \in Tenants :
              spent'[t] = spent[t] - Share(requests[r], t) + Holding(p, r, {r}, L, t)

\* The books of the others are not touched.
LEMMA DoubtKeepsBooks ==
    ASSUME IsFiniteSet(Requests), ChargeInv, IInv', NEW r \in Requests,
           requests[r].pc # "done", Doubted(r)
    PROVE  ChargeInv'
<1> PICK L \in SUBSET {r} : \E p :
         /\ Becomes(r, p) /\ p.pc = "done"
         /\ doubt' = doubt \cup {r}
         /\ \A t \in Tenants :
               spent'[t] = spent[t] - Share(requests[r], t) + Holding(p, r, {r}, L, t)
  BY DEF Doubted
<1>1. PICK p :
         /\ Becomes(r, p) /\ p.pc = "done"
         /\ doubt' = doubt \cup {r}
         /\ \A t \in Tenants :
               spent'[t] = spent[t] - Share(requests[r], t) + Holding(p, r, {r}, L, t)
  OBVIOUS
<1>2. /\ requests \in [Requests -> Request] /\ requests' \in [Requests -> Request]
      /\ spent \in [Tenants -> Int]
  BY DEF ChargeInv, IInv, TypeOK
<1>3. requests'[r] = p /\ \A x \in Requests \ {r} : requests'[x] = requests[x]
  BY <1>1, <1>2 DEF Becomes
<1>4. r \notin doubt
  BY DEF ChargeInv, DoubtIsDone
<1>5. ASSUME NEW t \in Tenants
      PROVE  \E lost \in SUBSET ({x \in Requests : requests'[x].tenant = t} \cap doubt') :
                Books(requests', doubt', lost, t, spent'[t])
  <2>1. PICK lost \in SUBSET ({x \in Requests : requests[x].tenant = t} \cap doubt) :
           Books(requests, doubt, lost, t, spent[t])
    BY BooksAreCharges DEF ChargeInv
  <2> DEFINE more == IF p.tenant = t THEN lost \cup L ELSE lost
  <2>2. more \in SUBSET ({x \in Requests : requests'[x].tenant = t} \cap doubt')
    BY <1>1, <1>3, <1>4
  <2>3. \A x \in Requests \ {r} : x \in doubt' <=> x \in doubt
    BY <1>1
  <2>4. \A x \in Requests \ {r} : x \in more <=> x \in lost
    OBVIOUS
  <2>5. Holding(requests[r], r, doubt, lost, t) = Share(requests[r], t)
    BY <1>4 DEF Holding, Holds, Share
  <2>6. Holding(requests'[r], r, doubt', more, t) = Holding(p, r, {r}, L, t)
    BY <1>1, <1>3, <1>4 DEF Holding, Holds
  <2>7. spent[t] \in Int
    BY <1>2
  <2> HIDE DEF more
  <2>8. spent'[t] = spent[t] - Holding(requests[r], r, doubt, lost, t)
                             + Holding(requests'[r], r, doubt', more, t)
    BY <1>1, <2>5, <2>6
  <2>9. Books(requests', doubt', more, t, spent'[t])
    BY <1>2, <1>3, <2>1, <2>3, <2>4, <2>7, <2>8, BooksKept
  <2> QED BY <2>2, <2>9
<1>6. ChargesAreOwed'
  BY <1>5 DEF ChargesAreOwed, Books, SharesIn, Holds, Taken
<1>7. \A x \in Requests : Square(requests[x])'
  BY <1>1, <1>3 DEF ChargeInv, Square
<1>8. DoubtIsDone'
  <2>1. doubt \subseteq Requests
    BY DEF ChargeInv, IInv, TypeOK
  <2> QED BY <1>1, <1>3, <2>1 DEF ChargeInv, DoubtIsDone
<1> QED BY <1>6, <1>7, <1>8 DEF ChargeInv

\* Before its handler is over a tenant's request owes its estimate.
LEMMA EstimateOwed ==
    ASSUME ChargeInv, NEW r \in Requests, requests[r].pc \notin {"new", "checking", "done"},
           NEW t \in Tenants
    PROVE  /\ Share(requests[r], t) = IF requests[r].tenant = t THEN requests[r].est ELSE 0
           /\ requests[r].est \in Nat /\ requests[r].due \in Nat /\ spent[t] \in Int
<1>1. requests[r] \in Request /\ Square(requests[r])
  BY Standing
<1>2. requests[r].tenant = t => Owed(requests[r]) = requests[r].est
  BY <1>1 DEF Square, Owed
<1>3. spent[t] \in Int
  BY DEF ChargeInv, IInv, TypeOK
<1> QED BY <1>1, <1>2, <1>3, Numbers DEF Share

\* A stream that nobody iterates is not corrected.
LEMMA VanishCharges == ASSUME ChargeInv, NEW r \in Requests, Vanish(r) PROVE Doubted(r)
<1> DEFINE q == requests[r]
           p == Over([q EXCEPT !.result = "vanished"], 200)
<1>1. p.pc = "done" /\ p.tenant = q.tenant /\ p.est = q.est
  BY Standing DEF Over, Fields
<1>2. /\ q.pc = "responding" /\ Becomes(r, p) /\ doubt' = doubt \cup {r}
      /\ UNCHANGED spent
  BY DEF Vanish
<1> HIDE DEF p
<1>3. ASSUME NEW t \in Tenants
      PROVE  spent'[t] = spent[t] - Share(q, t) + Holding(p, r, {r}, {r}, t)
  <2>1. /\ Share(q, t) = IF q.tenant = t THEN q.est ELSE 0
        /\ q.est \in Nat /\ spent[t] \in Int
    BY <1>2, EstimateOwed
  <2>2. Holding(p, r, {r}, {r}, t) = IF q.tenant = t THEN q.est ELSE 0
    BY <1>1 DEF Holding, Holds
  <2> HIDE DEF q
  <2> QED BY <1>2, <2>1, <2>2
<1> QED BY <1>1, <1>2, <1>3 DEF Doubted

\* Whether a correction that Redis or a client prevents was made is open.
LEMMA SettleFailsCharges ==
    ASSUME ChargeInv, NEW r \in Requests, SettleFails(r) PROVE Doubted(r)
<1> DEFINE q == requests[r]
           p == IF q.stream /\ q.result \in {"served", "broken"} THEN Over(q, 200)
                ELSE Over([q EXCEPT !.result = "crashed"], 500)
<1>1. p.pc = "done" /\ p.tenant = q.tenant /\ p.est = q.est /\ p.due = q.due
  BY Standing DEF Over, Fields
<1>2. q.pc = "settling" /\ Becomes(r, p) /\ doubt' = doubt \cup {r}
  BY DEF SettleFails
<1>3. PICK done \in BOOLEAN : Charge(q, IF done THEN q.due - q.est ELSE 0)
  BY DEF SettleFails
<1> HIDE DEF p
<1> DEFINE L == IF done THEN {} ELSE {r}
<1>4. ASSUME NEW t \in Tenants
      PROVE  spent'[t] = spent[t] - Share(q, t) + Holding(p, r, {r}, L, t)
  <2>1. /\ Share(q, t) = IF q.tenant = t THEN q.est ELSE 0
        /\ q.est \in Nat /\ q.due \in Nat /\ spent[t] \in Int
    BY <1>2, EstimateOwed
  <2>2. Holding(p, r, {r}, L, t) =
           IF q.tenant = t THEN IF done THEN q.due ELSE q.est ELSE 0
    BY <1>1 DEF Holding, Holds
  <2>3. spent'[t] = IF q.tenant = t THEN spent[t] + (IF done THEN q.due - q.est ELSE 0)
                    ELSE spent[t]
    <3>1. spent \in [Tenants -> Int]
      BY DEF ChargeInv, IInv, TypeOK
    <3> HIDE DEF q
    <3> QED BY <1>3, <3>1 DEF Charge
  <2> HIDE DEF q, L
  <2> QED BY <2>1, <2>2, <2>3
<1>5. L \in SUBSET {r}
  OBVIOUS
<1> HIDE DEF L
<1> QED BY <1>1, <1>2, <1>4, <1>5 DEF Doubted

\* A handler goes on, charged as before.
LEMMA MoveCharges ==
    ASSUME ChargeInv, NEW r \in Requests, NEW p, Becomes(r, p),
           requests[r].pc \notin {"new", "checking", "done"},
           p.pc \in {"waiting", "loading", "embedding", "executing", "responding", "streaming"},
           p.tenant = requests[r].tenant, p.slot = requests[r].slot, p.est = requests[r].est,
           UNCHANGED spent
    PROVE  Charged(r)
<1>1. Square(p)
  BY Standing DEF Square
<1>2. Balanced(r)
  BY StillOwes
<1> QED BY <1>1, <1>2 DEF Charged

\* Every step from one await to the next that neither admits nor ends a request.
LEMMA MovesCharge ==
    ASSUME ChargeInv, NEW r \in Requests,
           LookForModel(r) \/ Lock(r) \/ Load(r) \/ Miss(r) \/ Open(r) \/ Start(r) \/ Tap(r)
    PROVE  Charged(r)
<1> DEFINE q == requests[r]
<1>1. DOMAIN q = Fields
  BY Standing
<1>2. CASE LookForModel(r) \/ Lock(r) \/ Load(r)
  <2>1. PICK x \in {"waiting", "loading", "embedding"} :
           /\ Becomes(r, [q EXCEPT !.pc = x]) /\ UNCHANGED spent
           /\ q.pc \in {"queued", "waiting", "loading"}
    BY <1>2 DEF LookForModel, Lock, Load
  <2> DEFINE p == [q EXCEPT !.pc = x]
  <2>2. p.pc = x /\ p.tenant = q.tenant /\ p.slot = q.slot /\ p.est = q.est
    BY <1>1 DEF Fields
  <2> HIDE DEF q
  <2>3. Becomes(r, p)
    BY <2>1
  <2> HIDE DEF p
  <2> QED BY <2>1, <2>2, <2>3, MoveCharges DEF q
<1>3. CASE Miss(r)
  <2> DEFINE p == [q EXCEPT !.pc = "executing", !.event = "miss"]
  <2>1. p.pc = "executing" /\ p.tenant = q.tenant /\ p.slot = q.slot /\ p.est = q.est
    BY <1>1 DEF Fields
  <2>2. Becomes(r, p) /\ UNCHANGED spent /\ q.pc = "embedding"
    BY <1>3 DEF Miss
  <2> HIDE DEF p
  <2> QED BY <2>1, <2>2, MoveCharges
<1>4. CASE Open(r)
  <2> DEFINE p == Counted([q EXCEPT !.pc = "responding", !.tried = TRUE, !.status = 200], "success")
  <2>1. p.pc = "responding" /\ p.tenant = q.tenant /\ p.slot = q.slot /\ p.est = q.est
    BY <1>1 DEF Fields, Counted
  <2>2. Becomes(r, p) /\ UNCHANGED spent /\ q.pc = "opening"
    BY <1>4 DEF Open
  <2> HIDE DEF p
  <2> QED BY <2>1, <2>2, MoveCharges
<1>5. CASE Start(r)
  <2> DEFINE p == [q EXCEPT !.pc = "streaming"]
  <2>1. p.pc = "streaming" /\ p.tenant = q.tenant /\ p.slot = q.slot /\ p.est = q.est
    BY <1>1 DEF Fields
  <2>2. Becomes(r, p) /\ UNCHANGED spent /\ q.pc = "responding"
    BY <1>5 DEF Start
  <2> HIDE DEF p
  <2> QED BY <2>1, <2>2, MoveCharges
<1>6. CASE Tap(r)
  <2>1. PICK usage \in Usages, total \in BOOLEAN :
           Becomes(r, [q EXCEPT !.used = usage, !.total = total])
    BY <1>6 DEF Tap
  <2> DEFINE p == [q EXCEPT !.used = usage, !.total = total]
  <2>2. p.pc = q.pc /\ p.tenant = q.tenant /\ p.slot = q.slot /\ p.est = q.est
    BY <1>1 DEF Fields
  <2>3. Becomes(r, p) /\ UNCHANGED spent /\ q.pc = "streaming"
    BY <1>6, <2>1 DEF Tap
  <2> HIDE DEF p
  <2> QED BY <2>2, <2>3, MoveCharges
<1> QED BY <1>2, <1>3, <1>4, <1>5, <1>6

\* A handler that crashes keeps its estimate.
LEMMA CrashCharges == ASSUME ChargeInv, NEW r \in Requests, Crash(r) PROVE Charged(r)
<1> DEFINE q == requests[r]
           p == Over([q EXCEPT !.result = "crashed",
                         !.tried = q.pc \in {"executing", "opening"}], 500)
<1>1. /\ p.pc = "done" /\ p.result = "crashed" /\ p.tenant = q.tenant
      /\ p.slot = q.slot /\ p.est = q.est
  BY Standing DEF Over, Fields
<1>2. Becomes(r, p) /\ UNCHANGED spent /\ q.pc # "done"
  BY DEF Crash
<1> HIDE DEF p
<1>3. Square(p)
  BY <1>1 DEF Square
<1>4. Balanced(r)
  BY <1>1, <1>2, StillOwes
<1> QED BY <1>2, <1>3, <1>4 DEF Charged

\* The correction: the estimate goes, what is due takes its place.
LEMMA SettleCharges == ASSUME ChargeInv, NEW r \in Requests, Settle(r) PROVE Charged(r)
<1> DEFINE q == requests[r]
           p == Concluded(q)
<1>1. q \in Request /\ DOMAIN q = Fields /\ Square(q) /\ Good(q, settings, r, doubt)
  BY Standing
<1>2. q.pc = "settling" /\ Charge(q, q.due - q.est) /\ Becomes(r, p)
  BY DEF Settle, Conclude
<1>3. q.result \in Ways
  BY <1>1, <1>2 DEF Good, Ended, Ways
<1> HIDE DEF q
<1>4. Alike(p, q) /\ p.result = q.result /\ p.pc = "done"
  BY <1>1, <1>3, ConcludedIsAlike
<1> HIDE DEF p
<1>5. /\ q.tenant \in Tenants /\ q.slot
      /\ q.result = "served" => q.total
      /\ q.due = IF q.result = "served" THEN q.used ELSE 0
  BY <1>1, <1>2 DEF Square
<1>6. q.est \in Nat /\ q.due \in Nat
  BY <1>1, Numbers DEF Request
<1>7. Owed(q) = q.est
  BY <1>2, <1>5 DEF Owed
<1>8. Owed(p) = q.due
  BY <1>3, <1>4, <1>5 DEF Owed, Alike, Ways
<1>9. Square(p)
  BY <1>4 DEF Square
<1>10. Owed(q) + (q.due - q.est) = Owed(p) /\ q.due - q.est \in Int /\ Owed(p) \in Int
  BY <1>6, <1>7, <1>8
<1>11. p.tenant = q.tenant
  BY <1>4 DEF Alike
<1>12. Balanced(r)
  BY <1>2, <1>5, <1>10, <1>11, ChargeBalances DEF q
<1> QED BY <1>2, <1>9, <1>12 DEF Charged

\* At the start nobody owes anything.
LEMMA InitCharges == ASSUME IsFiniteSet(Requests), Init PROVE ChargeInv
<1>1. IInv
  BY InitInv
<1>2. \A r \in Requests : Square(requests[r])
  BY DEF Init, New, Square
<1>3. ASSUME NEW t \in Tenants
      PROVE  \E lost \in SUBSET ({r \in Requests : requests[r].tenant = t} \cap doubt) :
                Books(requests, doubt, lost, t, spent[t])
  <2> DEFINE f == SharesIn(requests, Requests, doubt, {}, t)
  <2>1. {q \in Requests : requests[q].tenant = t} = {}
    BY ConstantTypes DEF Init, New
  <2>2. f \in [{} -> Int] /\ IsFiniteSet({})
    BY <2>1, FS_EmptySet DEF SharesIn
  <2> HIDE DEF f
  <2>3. SumFunction(f) = 0
    BY <2>2, SumType
  <2>4. spent[t] = 0
    BY DEF Init
  <2>5. Books(requests, doubt, {}, t, spent[t])
    BY <2>3, <2>4 DEF Books, f
  <2> QED BY <2>5
<1>4. DoubtIsDone
  BY DEF Init, DoubtIsDone
<1> QED BY <1>1, <1>2, <1>3, <1>4, BooksAreCharges DEF ChargeInv

\* A step of one request that leaves no doubt, and what it makes of the charges.
LEMMA StepCharges ==
    ASSUME IsFiniteSet(Requests), ChargeInv, IInv', NEW r \in Requests,
           requests[r].pc # "done", doubt' = doubt, Charged(r)
    PROVE  ChargeInv'
<1>1. PICK p : Becomes(r, p) /\ Square(p) /\ Balanced(r)
  BY DEF Charged
<1>2. ChargesAreOwed'
  BY <1>1, StillOwed
<1>3. requests \in [Requests -> Request] /\ doubt \subseteq Requests
  BY DEF ChargeInv, IInv, TypeOK
<1>4. \A x \in Requests : Square(requests[x])'
  BY <1>1, <1>3 DEF ChargeInv, Becomes, Square
<1>5. DoubtIsDone'
  BY <1>1, <1>3 DEF ChargeInv, DoubtIsDone, Becomes
<1> QED BY <1>2, <1>4, <1>5 DEF ChargeInv

\* Every step keeps the charges right.
LEMMA NextCharges == ASSUME IsFiniteSet(Requests), ChargeInv, [Next]_vars PROVE ChargeInv'
<1>1. IInv'
  BY NextInv DEF ChargeInv
<1>2. ASSUME NEW r \in Requests,
             \/ TurnAway(r) \/ ArriveAnonymous(r) \/ Arrive(r) \/ Admit(r) \/ Throttle(r)
             \/ CheckFails(r)
      PROVE  ChargeInv'
  <2>1. doubt' = doubt /\ requests[r].pc \in {"new", "checking"}
    BY <1>2 DEF TurnAway, ArriveAnonymous, Arrive, Admit, Throttle, CheckFails
  <2>2. Charged(r)
    BY <1>2, TurnAwayCharges, ArriveAnonymousCharges, ArriveCharges, AdmitCharges,
       ThrottleCharges, CheckFailsCharges
  <2> QED BY <1>1, <2>1, <2>2, StepCharges
<1>3. ASSUME NEW r \in Requests,
             LookForModel(r) \/ Lock(r) \/ Load(r) \/ Miss(r) \/ Open(r) \/ Start(r) \/ Tap(r)
      PROVE  ChargeInv'
  <2>1. doubt' = doubt /\ requests[r].pc # "done"
    BY <1>3 DEF LookForModel, Lock, Load, Miss, Open, Start, Tap
  <2>2. Charged(r)
    BY <1>3, MovesCharge
  <2> QED BY <1>1, <2>1, <2>2, StepCharges
<1>4. ASSUME NEW r \in Requests,
             \/ Hit(r) \/ Serve(r) \/ Unserved(r) \/ Crash(r) \/ Complete(r) \/ Break(r) \/ Settle(r)
      PROVE  ChargeInv'
  <2>1. doubt' = doubt /\ requests[r].pc # "done"
    BY <1>4 DEF Hit, Serve, Unserved, Crash, Complete, Break, Settle
  <2>2. Charged(r)
    BY <1>4, HitCharges, ServeCharges, UnservedCharges, CrashCharges, CompleteCharges,
       BreakCharges, SettleCharges
  <2> QED BY <1>1, <2>1, <2>2, StepCharges
<1>5. ASSUME NEW r \in Requests, Vanish(r) \/ SettleFails(r)
      PROVE  ChargeInv'
  <2>1. requests[r].pc # "done"
    BY <1>5 DEF Vanish, SettleFails
  <2>2. Doubted(r)
    BY <1>5, VanishCharges, SettleFailsCharges
  <2> QED BY <1>1, <2>1, <2>2, DoubtKeepsBooks
<1>6. CASE Forget \/ UNCHANGED vars
  <2>1. UNCHANGED <<requests, spent, doubt>>
    BY <1>6 DEF Forget, vars
  <2>2. (\A r \in Requests : Square(requests[r]))' /\ DoubtIsDone'
    BY <2>1 DEF ChargeInv, Square, DoubtIsDone
  <2>3. ChargesAreOwed'
    <3>1. \A t \in Tenants :
             \E lost \in SUBSET ({x \in Requests : requests'[x].tenant = t} \cap doubt') :
                Books(requests', doubt', lost, t, spent'[t])
      BY <2>1, BooksAreCharges DEF ChargeInv
    <3> QED BY <3>1 DEF ChargesAreOwed, Books, SharesIn, Holds, Taken
  <2> QED BY <1>1, <2>2, <2>3 DEF ChargeInv
<1> QED BY <1>2, <1>3, <1>4, <1>5, <1>6 DEF Next

\* With any number of requests in flight at once, and whatever fails, the tokens
\* taken of a tenant are what its requests owe; a correction that is lost leaves
\* the charge of its own request at the estimate, and no other wrong.
THEOREM ChargesOwed == ASSUME IsFiniteSet(Requests) PROVE Spec => []ChargesAreOwed
<1>1. Init => ChargeInv
  BY InitCharges
<1>2. ChargeInv /\ [Next]_vars => ChargeInv'
  BY NextCharges
<1>3. ChargeInv => ChargesAreOwed
  BY DEF ChargeInv
<1> QED BY <1>1, <1>2, <1>3, PTL DEF Spec
=============================================================================
