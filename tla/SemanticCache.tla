---------------------------- MODULE SemanticCache ----------------------------
(***************************************************************************)
(* SemanticCache (gateway/cache/semantic_cache.py) and the part of the     *)
(* pipeline (gateway/main.py) that uses it: a request embeds its prompt,   *)
(* looks for a similar answer, and on a miss calls a provider and stores   *)
(* what that returned.  get and set hold no await, so each is one step;    *)
(* between them other requests get and set, and time passes.               *)
(*                                                                         *)
(* Three structures of the cache must agree: an index of vectors per       *)
(* scope, the entries by id, and the recency order of the ids.             *)
(*                                                                         *)
(* A question stands for the vector of its prompt, Similarity for the      *)
(* inner product.  An answer is named after the request it was given to.   *)
(***************************************************************************)
EXTENDS Integers, Sequences, FiniteSets, Sublist

CONSTANTS
    Clients,        \* the requests that can be under way at once
    Scopes,         \* what build_scope_key may return
    Questions,      \* the embedded prompts
    Requests,       \* what may be asked: [scope, question]
    Similarity,     \* question -> question -> similarity
    Threshold,      \* threshold
    TTL,            \* ttl_s, in ticks; 0 for no expiry
    MaxEntries,     \* max_entries
    TopK,           \* the neighbours a search looks at, 5 in the code
    MaxSets         \* bound: how many answers are ever stored

ASSUME CacheAssumption ==
    /\ Requests \subseteq [scope : Scopes, question : Questions]
    /\ Similarity \in [Questions -> [Questions -> Nat]]
    /\ Threshold \in Nat /\ TTL \in Nat
    /\ MaxEntries \in Nat /\ TopK \in Nat \ {0} /\ MaxSets \in Nat

VARIABLES
    indexes,    \* _indexes: scope -> (id -> question)
    entries,    \* _entries: id -> [scope, answer, age since it was stored]
    lru,        \* _lru: the ids, the least recently used first
    nextId,     \* _next_id
    clients     \* client -> its request and the reply it got

vars == <<indexes, entries, lru, nextId, clients>>

-----------------------------------------------------------------------------

Ids == 0 .. MaxSets - 1

None == [scope |-> "none", question |-> "none"]

Entry == [scope : Scopes, answer : Requests, age : 0 .. TTL]

Client == [pc      : {"idle", "asking"},
           request : Requests \cup {None},
           reply   : Requests \cup {None}]

TypeOK ==
    /\ DOMAIN indexes = Scopes
    /\ \A s \in Scopes : \E ids \in SUBSET Ids : indexes[s] \in [ids -> Questions]
    /\ \E ids \in SUBSET Ids : entries \in [ids -> Entry]
    /\ lru \in Seq(Ids)
    /\ nextId \in 0 .. MaxSets
    /\ clients \in [Clients -> Client]
    /\ Cardinality(DOMAIN entries) <= MaxEntries

Init ==
    /\ indexes = [s \in Scopes |-> << >>]
    /\ entries = << >>
    /\ lru = << >>
    /\ nextId = 0
    /\ clients = [c \in Clients |->
          [pc |-> "idle", request |-> None, reply |-> None]]

-----------------------------------------------------------------------------
\* Dropping entries.

Without(f, gone) == [x \in DOMAIN f \ gone |-> f[x]]

SkipThese(seq, gone) == Sublist(seq, {n \in DOMAIN seq : seq[n] \notin gone})

UnindexedAfterPop(idx, ents, gone) == idx   \* mutant: the entry is popped first

\* _remove_from_index finds the index through the entry, which is still there.
Unindexed(idx, ents, gone) ==
    [s \in Scopes |-> Without(idx[s], {i \in gone : ents[i].scope = s})]

Expired(i) == TTL > 0 /\ entries[i].age >= TTL

-----------------------------------------------------------------------------
\* get(scope, vec).

Sim(scope, question, i) == Similarity[question][indexes[scope][i]]

Least(a, b) == IF a < b THEN a ELSE b

\* What a search may return: the TopK nearest of the index, ties at will.
Nearest(scope, question) ==
    LET ids == DOMAIN indexes[scope]
    IN  {top \in SUBSET ids :
           /\ Cardinality(top) = Least(Cardinality(ids), TopK)
           /\ \A i \in top, j \in ids \ top :
                 Sim(scope, question, i) >= Sim(scope, question, j)}

\* mutant: an expired entry ends the walk.
WalkOne(scope, question, top, gone, first) ==
    LET known == top \cap DOMAIN entries
    IN  \/ known = {} /\ gone = {} /\ first = {}
        \/ \E i \in known :
              /\ \A j \in known : Sim(scope, question, j) <= Sim(scope, question, i)
              /\ gone = {j \in {i} : Expired(j)}
              /\ first = {i} \ gone

\* The walk down the result: expired entries are removed up to the first entry
\* that is not, and that one decides.  Ids without an entry are passed over.
Walk(scope, question, top, gone, first) ==
    LET known == top \cap DOMAIN entries
        fresh == {i \in known : ~ Expired(i)}
        sim(i) == Sim(scope, question, i)
    IN  /\ first \subseteq fresh
        /\ IF fresh = {} THEN first = {} ELSE Cardinality(first) = 1
        /\ \A i \in first :
              /\ \A j \in fresh : sim(j) <= sim(i)
              /\ \A j \in gone : sim(j) >= sim(i)
              /\ \A j \in known \ fresh : sim(j) > sim(i) => j \in gone
        /\ gone \subseteq known \ fresh
        /\ fresh = {} => gone = known

TouchedByAge(gone, hit) == SkipThese(lru, gone)     \* mutant: no move_to_end

\* What is left of the recency order after a get: the hit has moved to the end.
Touched(gone, hit) == SkipThese(lru, gone \cup hit) \o
                      (IF hit = {} THEN << >> ELSE <<CHOOSE i \in hit : TRUE>>)

CloseEnough(scope, question, i) == Sim(scope, question, i) >= Threshold

\* The pipeline's cache read: a hit is the reply; after a miss the request is
\* sent upstream.
Get(c) ==
    /\ clients[c].pc = "idle"
    /\ \E r \in Requests : \E top \in Nearest(r.scope, r.question) :
       \E gone \in SUBSET top : \E first \in SUBSET top :
          /\ Walk(r.scope, r.question, top, gone, first)
          /\ LET hit == {i \in first : CloseEnough(r.scope, r.question, i)}
             IN  /\ lru' = Touched(gone, hit)
                 /\ clients' = [clients EXCEPT ![c] =
                       IF hit = {}
                       THEN [pc |-> "asking", request |-> r, reply |-> None]
                       ELSE [pc |-> "idle", request |-> r,
                             reply |-> entries[CHOOSE i \in hit : TRUE].answer]]
          /\ indexes' = Unindexed(indexes, entries, gone)
          /\ entries' = Without(entries, gone)
    /\ UNCHANGED nextId

-----------------------------------------------------------------------------
\* set(scope, vec, response).

\* How many entries _evict_if_needed drops, the least recently used first.
Excess(ids) == IF Len(ids) > MaxEntries THEN Len(ids) - MaxEntries ELSE 0

With(f, x, value) == [y \in DOMAIN f \cup {x} |-> IF y = x THEN value ELSE f[y]]

\* The upstream call returns and the answer is stored, then the least recently
\* used entries are evicted.
Set(c) ==
    /\ clients[c].pc = "asking"
    /\ nextId < MaxSets
    /\ LET r     == clients[c].request
           index == [indexes EXCEPT ![r.scope] = With(@, nextId, r.question)]
           all   == With(entries, nextId, [scope |-> r.scope, answer |-> r, age |-> 0])
           ids   == Append(lru, nextId)
           evicted == {ids[i] : i \in 1 .. Excess(ids)}
       IN  /\ indexes' = Unindexed(index, all, evicted)
           /\ entries' = Without(all, evicted)
           /\ lru' = SkipThese(ids, evicted)
           /\ clients' = [clients EXCEPT ![c].pc = "idle", ![c].reply = r]
    /\ nextId' = nextId + 1

\* The upstream call fails, or its answer is lost: nothing is stored.
Fail(c) ==
    /\ clients[c].pc = "asking"
    /\ clients' = [clients EXCEPT ![c].pc = "idle"]
    /\ UNCHANGED <<indexes, entries, lru, nextId>>

Tick ==
    /\ entries' = [i \in DOMAIN entries |-> [entries[i] EXCEPT !.age = Least(@ + 1, TTL)]]
    /\ UNCHANGED <<indexes, lru, nextId, clients>>

Next ==
    \/ Tick
    \/ \E c \in Clients : Get(c) \/ Set(c) \/ Fail(c)

Spec == Init /\ [][Next]_vars

-----------------------------------------------------------------------------
\* Properties.

\* The three structures keep their types and bounds, and describe the same
\* entries, at most MaxEntries: each id is once in the
\* recency order, has an entry, and is in the index of its own scope, and in no
\* other, under the question its answer was given to.
OneView ==
    /\ TypeOK
    /\ \A i, j \in DOMAIN lru : lru[i] = lru[j] => i = j
    /\ {lru[i] : i \in DOMAIN lru} = DOMAIN entries
    /\ \A s \in Scopes :
          indexes[s] = [i \in {j \in DOMAIN entries : entries[j].scope = s} |->
                          entries[i].answer.question]

\* The entries as one list, in the order of their last use.
Listed(id) ==
    [scope |-> entries[id].scope,
     question |-> indexes[entries[id].scope][id],
     answer |-> entries[id].answer,
     age |-> entries[id].age]

Promise == INSTANCE AnswerStore WITH store <- [i \in DOMAIN lru |-> Listed(lru[i])]

\* To its clients the cache is a bounded list of answers in the order of their
\* last use: what a get serves is fresh, of the right scope, close enough and
\* the closest; only expired entries are dropped by a get, and only the least
\* recently used by a set.
IsAnswerStore == Promise!Init /\ [][Promise!Next]_Promise!vars

\* The fresh entries that would answer a request.
Answers(r) ==
    {i \in DOMAIN entries : /\ entries[i].scope = r.scope
                            /\ ~ Expired(i)
                            /\ CloseEnough(r.scope, r.question, i)}

\* A request goes upstream although the cache holds a fresh answer for it only
\* when TopK expired entries were nearer; and then it has removed them, so that
\* this cannot go on for ever.
MissesOnlyBehindExpired ==
    [][\A c \in Clients :
         /\ clients[c].pc = "idle" /\ clients'[c].pc = "asking"
         /\ Answers(clients'[c].request) # {}
         => LET gone == DOMAIN entries \ DOMAIN entries'
            IN  Cardinality(gone) = TopK /\ \A i \in gone : Expired(i)]_vars
=============================================================================
