------------------------- MODULE SemanticCacheProofs -------------------------
(***************************************************************************)
(* Theorems about SemanticCache, for any number of clients, scopes and     *)
(* entries and any notion of similarity: index, entries and recency order  *)
(* hold the same answers, at most MaxEntries; together they implement      *)
(* AnswerStore; and when a request goes upstream although the cache holds  *)
(* an answer for it.                                                       *)
(*                                                                         *)
(* Index and entries agree whatever set drops; that the recency order      *)
(* agrees with them is about lists of distinct ids, and what is left of    *)
(* them at some places.                                                    *)
(***************************************************************************)
EXTENDS SemanticCache, FiniteSetTheorems, TLAPS

-----------------------------------------------------------------------------
\* The inductive invariant.

\* Ids are given out once, and entries keep what was asked and answered.
Stored ==
    /\ nextId \in 0 .. MaxSets
    /\ entries \in [DOMAIN entries -> Entry]
    /\ \A i \in DOMAIN entries : i \in 0 .. nextId - 1

\* The ids of a scope's entries are those in its index, each under the question
\* that its answer was given to.
Indexed(idx, ents) ==
    /\ DOMAIN idx = Scopes
    /\ \A s \in Scopes :
          /\ DOMAIN idx[s] = {i \in DOMAIN ents : ents[i].scope = s}
          /\ idx[s] \in [DOMAIN idx[s] -> Questions]
          /\ \A i \in DOMAIN idx[s] : idx[s][i] = ents[i].answer.question

IndexesMatch == Indexed(indexes, entries)

\* A list has each of some ids once.
Lists(l, ids) ==
    /\ \E n \in Nat : DOMAIN l = 1 .. n
    /\ \A m, k \in DOMAIN l : l[m] = l[k] => m = k
    /\ {l[m] : m \in DOMAIN l} = ids

\* The recency order is such a list, of the entries, and not too long.
Recent ==
    /\ lru \in Seq(Nat) /\ Lists(lru, DOMAIN entries)
    /\ Cardinality(DOMAIN entries) <= MaxEntries

\* Who asks upstream asks something.
Asking ==
    /\ clients \in [Clients -> Client]
    /\ \A c \in Clients : clients[c].pc = "asking" => clients[c].request \in Requests

IInv == Stored /\ IndexesMatch /\ Recent /\ Asking

-----------------------------------------------------------------------------
\* What is left of a list.

\* pick[m] is the m-th place that is left: each is picked once.
Picks(pick, list, places) ==
    /\ pick \in [1 .. Cardinality(places) -> places]
    /\ Sublist(list, places) = [m \in 1 .. Cardinality(places) |-> list[pick[m]]]
    /\ \A m, k \in 1 .. Cardinality(places) : pick[m] = pick[k] => m = k
    /\ \A p \in places : \E m \in 1 .. Cardinality(places) : pick[m] = p
    /\ \A m \in 1 .. Cardinality(places) : Rank(places, pick[m]) = m

\* A sublist has a place for every place that is left.
LEMMA SublistPicks ==
    ASSUME NEW list, NEW n \in Nat, NEW places \in SUBSET (1 .. n)
    PROVE  /\ Cardinality(places) \in Nat /\ Cardinality(places) <= n
           /\ \E pick : Picks(pick, list, places)
<1> DEFINE N == Cardinality(places)
           upTo(p) == {q \in places : q <= p}
<1>1. IsFiniteSet(places) /\ N \in Nat /\ N <= n
  <2>1. IsFiniteSet(1 .. n) /\ Cardinality(1 .. n) = n
    <3>1. 1 \in Int /\ n \in Int
      OBVIOUS
    <3> QED BY <3>1, FS_Interval
  <2> QED BY <2>1, FS_Subset, FS_CardinalityType
<1>2. ASSUME NEW p \in places
      PROVE  /\ IsFiniteSet(upTo(p)) /\ Rank(places, p) = Cardinality(upTo(p))
             /\ Rank(places, p) \in 1 .. N
  <2>1. upTo(p) \in SUBSET places /\ p \in upTo(p)
    OBVIOUS
  <2>2. IsFiniteSet(upTo(p)) /\ Cardinality(upTo(p)) \in Nat /\ Cardinality(upTo(p)) <= N
    BY <1>1, <2>1, FS_Subset, FS_CardinalityType
  <2>3. Cardinality(upTo(p)) # 0
    BY <2>1, <2>2, FS_EmptySet
  <2>4. Rank(places, p) = Cardinality(upTo(p))
    BY DEF Rank
  <2> HIDE DEF upTo, N
  <2> QED BY <1>1, <2>2, <2>3, <2>4
<1>3. ASSUME NEW p \in places, NEW q \in places, p < q
      PROVE  Rank(places, p) < Rank(places, q)
  <2>1. upTo(p) \in SUBSET upTo(q) /\ q \in upTo(q) /\ q \notin upTo(p)
    <3>1. p \in Nat /\ q \in Nat /\ \A x \in places : x \in Nat
      OBVIOUS
    <3>2. \A x \in places : x <= p => x <= q
      BY <1>3, <3>1
    <3>3. ~ (q <= p) /\ q <= q
      BY <1>3, <3>1
    <3> QED BY <3>2, <3>3
  <2>2. upTo(p) # upTo(q)
    BY <2>1
  <2>3. Cardinality(upTo(p)) <= Cardinality(upTo(q)) /\ Cardinality(upTo(p)) # Cardinality(upTo(q))
    <3> HIDE DEF upTo
    <3> QED BY <1>2, <2>1, <2>2, FS_Subset
  <2> HIDE DEF upTo
  <2> QED BY <1>2, <2>3
<1> HIDE DEF upTo
<1>4. \A p, q \in places : Rank(places, p) = Rank(places, q) => p = q
  <2> TAKE p, q \in places
  <2>1. p < q \/ q < p \/ p = q
    OBVIOUS
  <2> QED BY <1>2, <1>3, <2>1
<1>5. \A m \in 1 .. N : \E p \in places : Rank(places, p) = m
  <2> DEFINE f == [p \in places |-> Rank(places, p)]
  <2>1. f \in Injection(places, 1 .. N)
    BY <1>2, <1>4 DEF Injection, IsInjective
  <2>2. IsFiniteSet(1 .. N) /\ Cardinality(1 .. N) = N
    BY <1>1, FS_Interval
  <2>3. f \in Surjection(places, 1 .. N)
    <3> HIDE DEF f
    <3> QED BY <2>1, <2>2, FS_Injection
  <2> QED BY <2>3 DEF Surjection
<1> DEFINE pick == [m \in 1 .. N |-> CHOOSE p \in places : Rank(places, p) = m]
<1>6. \A m \in 1 .. N : pick[m] \in places /\ Rank(places, pick[m]) = m
  BY <1>5
<1>7. pick \in [1 .. N -> places]
  BY <1>6
<1>8. Sublist(list, places) = [m \in 1 .. N |-> list[pick[m]]]
  BY DEF Sublist
<1> HIDE DEF pick
<1>9. ASSUME NEW p \in places PROVE \E m \in 1 .. N : pick[m] = p
  <2>1. Rank(places, p) \in 1 .. N
    BY <1>2
  <2>2. pick[Rank(places, p)] \in places /\ Rank(places, pick[Rank(places, p)]) = Rank(places, p)
    BY <1>6, <2>1, Zenon
  <2>3. pick[Rank(places, p)] = p
    BY <1>4, <2>2, Zenon
  <2> QED BY <2>1, <2>3, Zenon
<1>10. \A m, k \in 1 .. N : pick[m] = pick[k] => m = k
  BY <1>6
<1>11. Picks(pick, list, places)
  BY <1>6, <1>7, <1>8, <1>9, <1>10 DEF Picks
<1> QED BY <1>1, <1>11

\* What is left when the first k places go.
LEMMA SublistSuffix ==
    ASSUME NEW list, NEW n \in Nat, NEW k \in 0 .. n
    PROVE  Sublist(list, k + 1 .. n) = [m \in 1 .. n - k |-> list[k + m]]
<1> DEFINE places == k + 1 .. n
<1>1. places \in SUBSET (1 .. n) /\ Cardinality(places) = n - k
  <2>1. k \in Int /\ k + 1 \in Int /\ n \in Int /\ k <= n
    OBVIOUS
  <2>2. Cardinality(places) = IF k + 1 > n THEN 0 ELSE n - (k + 1) + 1
    BY <2>1, FS_Interval
  <2>3. Cardinality(places) = n - k
    BY <2>1, <2>2
  <2>4. places \in SUBSET (1 .. n)
    BY <2>1
  <2> QED BY <2>3, <2>4
<1>2. \A p \in places : Rank(places, p) = p - k
  <2> TAKE p \in places
  <2>1. {q \in places : q <= p} = k + 1 .. p
    OBVIOUS
  <2>2. Cardinality(k + 1 .. p) = p - k
    BY FS_Interval
  <2> QED BY <2>1, <2>2 DEF Rank
<1> HIDE DEF places
<1>3. PICK pick \in [1 .. n - k -> places] :
         /\ Sublist(list, places) = [m \in 1 .. n - k |-> list[pick[m]]]
         /\ \A m \in 1 .. n - k : Rank(places, pick[m]) = m
  <2>1. PICK pick : Picks(pick, list, places)
    BY <1>1, SublistPicks
  <2> QED BY <1>1, <2>1 DEF Picks
<1>4. \A m \in 1 .. n - k : pick[m] = k + m
  <2> TAKE m \in 1 .. n - k
  <2>1. pick[m] \in places /\ pick[m] - k = m
    BY <1>2, <1>3
  <2> QED BY <2>1 DEF places
<1> QED BY <1>3, <1>4 DEF places

\* The places that stay when some ids go.
Staying(l, gone) == {n \in DOMAIN l : l[n] \notin gone}

\* Deleting keys from a list of distinct ids leaves a list of the other ids.
LEMMA SkippedLists ==
    ASSUME NEW l, NEW ids, Lists(l, ids), NEW gone
    PROVE  /\ Lists(SkipThese(l, gone), ids \ gone)
           /\ DOMAIN SkipThese(l, gone) = 1 .. Cardinality(Staying(l, gone))
           /\ l \in Seq(Nat) => SkipThese(l, gone) \in Seq(Nat)
<1> DEFINE places == Staying(l, gone)
           N == Cardinality(places)
           left == SkipThese(l, gone)
<1>1. PICK n \in Nat : DOMAIN l = 1 .. n
  BY DEF Lists
<1>2. places \in SUBSET (1 .. n)
  BY <1>1 DEF Staying
<1>3. left = Sublist(l, places)
  BY DEF SkipThese, Staying
<1> HIDE DEF places, Staying, left
<1>4. PICK pick : Picks(pick, l, places)
  BY <1>2, SublistPicks
<1>5. N \in Nat
  BY <1>2, SublistPicks
<1> HIDE DEF N
<1>6. /\ pick \in [1 .. N -> places] /\ left = [m \in 1 .. N |-> l[pick[m]]]
      /\ \A m, k \in 1 .. N : pick[m] = pick[k] => m = k
      /\ \A p \in places : \E m \in 1 .. N : pick[m] = p
  BY <1>3, <1>4 DEF Picks, N
<1>7. \A m \in 1 .. N : pick[m] \in DOMAIN l /\ left[m] = l[pick[m]]
  BY <1>6 DEF places, Staying
<1>8. \A m, k \in 1 .. N : left[m] = left[k] => m = k
  BY <1>6, <1>7 DEF Lists
<1>9. {left[m] : m \in 1 .. N} = ids \ gone
  <2>1. ASSUME NEW m \in 1 .. N PROVE left[m] \in ids \ gone
    BY <1>6, <1>7 DEF Lists, places, Staying
  <2>2. ASSUME NEW i \in ids \ gone PROVE \E m \in 1 .. N : left[m] = i
    <3>1. PICK k \in DOMAIN l : l[k] = i
      BY DEF Lists
    <3>2. k \in places
      BY <3>1 DEF places, Staying
    <3> QED BY <1>6, <3>1, <3>2
  <2> QED BY <2>1, <2>2
<1>10. l \in Seq(Nat) => left \in Seq(Nat)
  <2> SUFFICES ASSUME l \in Seq(Nat) PROVE left \in Seq(Nat)
    OBVIOUS
  <2>1. \A m \in 1 .. N : left[m] \in Nat
    BY <1>7
  <2>2. left \in [1 .. N -> Nat]
    BY <1>6, <2>1
  <2> QED BY <1>5, <2>2
<1> QED BY <1>5, <1>6, <1>8, <1>9, <1>10 DEF Lists, N, places, left

\* A new id is appended.
LEMMA AppendedLists ==
    ASSUME NEW l \in Seq(Nat), NEW ids, Lists(l, ids), NEW i \in Nat, i \notin ids
    PROVE  Lists(Append(l, i), ids \cup {i}) /\ Append(l, i) \in Seq(Nat)
<1> DEFINE n == Len(l)
           more == Append(l, i)
<1>1. n \in Nat /\ DOMAIN l = 1 .. n /\ DOMAIN more = 1 .. n + 1 /\ more \in Seq(Nat)
  OBVIOUS
<1>2. more[n + 1] = i /\ \A m \in 1 .. n : more[m] = l[m]
  OBVIOUS
<1> HIDE DEF n, more
<1>3. 1 .. n + 1 = (1 .. n) \cup {n + 1}
  BY <1>1
<1>4. \A m \in 1 .. n : l[m] \in ids
  BY <1>1 DEF Lists
<1>5. \A m, k \in 1 .. n + 1 : more[m] = more[k] => m = k
  BY <1>1, <1>2, <1>3, <1>4 DEF Lists
<1>6. {more[m] : m \in 1 .. n + 1} = ids \cup {i}
  BY <1>1, <1>2, <1>3 DEF Lists
<1> QED BY <1>1, <1>5, <1>6 DEF Lists, more, n

\* There are as many ids as places.
LEMMA ListsCount ==
    ASSUME NEW l, NEW ids, NEW n \in Nat, Lists(l, ids), DOMAIN l = 1 .. n
    PROVE  IsFiniteSet(ids) /\ Cardinality(ids) = n
<1> DEFINE f == [m \in 1 .. n |-> l[m]]
<1>1. f \in Surjection(1 .. n, ids) /\ f \in Injection(1 .. n, ids)
  BY DEF Surjection, Injection, IsInjective, Lists
<1>2. IsFiniteSet(1 .. n) /\ Cardinality(1 .. n) = n
  <2>1. 1 \in Int /\ n \in Int
    OBVIOUS
  <2> QED BY <2>1, FS_Interval
<1> HIDE DEF f
<1> QED BY <1>1, <1>2, FS_Surjection

-----------------------------------------------------------------------------
\* Dropping and adding.

LEMMA WithoutTypes ==
    ASSUME NEW f, NEW T, f \in [DOMAIN f -> T], NEW gone
    PROVE  /\ Without(f, gone) \in [DOMAIN Without(f, gone) -> T]
           /\ DOMAIN Without(f, gone) = DOMAIN f \ gone
<1> QED BY DEF Without

LEMMA WithTypes ==
    ASSUME NEW f, NEW T, f \in [DOMAIN f -> T], NEW x, NEW value \in T
    PROVE  /\ With(f, x, value) \in [DOMAIN With(f, x, value) -> T]
           /\ DOMAIN With(f, x, value) = DOMAIN f \cup {x}
<1>1. ASSUME NEW y \in DOMAIN f \cup {x}
      PROVE  (IF y = x THEN value ELSE f[y]) \in T
  OBVIOUS
<1> QED BY <1>1 DEF With

\* What is dropped from the entries is dropped from its index, whatever it is.
LEMMA DroppedFromBoth ==
    ASSUME NEW idx, NEW ents, Indexed(idx, ents), NEW gone
    PROVE  Indexed(Unindexed(idx, ents, gone), Without(ents, gone))
<1> DEFINE left(s) == {i \in gone : ents[i].scope = s}
           idx2 == Unindexed(idx, ents, gone)
           ents2 == Without(ents, gone)
<1>1. DOMAIN idx2 = Scopes /\ \A s \in Scopes : idx2[s] = Without(idx[s], left(s))
  BY DEF Unindexed
<1>2. DOMAIN ents2 = DOMAIN ents \ gone /\ \A i \in DOMAIN ents2 : ents2[i] = ents[i]
  BY DEF Without
<1> HIDE DEF idx2, ents2
<1>3. ASSUME NEW s \in Scopes
      PROVE  /\ DOMAIN idx2[s] = {i \in DOMAIN ents2 : ents2[i].scope = s}
             /\ idx2[s] \in [DOMAIN idx2[s] -> Questions]
             /\ \A i \in DOMAIN idx2[s] : idx2[s][i] = ents2[i].answer.question
  <2>1. /\ DOMAIN idx[s] = {i \in DOMAIN ents : ents[i].scope = s}
        /\ idx[s] \in [DOMAIN idx[s] -> Questions]
        /\ \A i \in DOMAIN idx[s] : idx[s][i] = ents[i].answer.question
    BY DEF Indexed
  <2>2. DOMAIN idx2[s] = DOMAIN idx[s] \ left(s)
        /\ \A i \in DOMAIN idx2[s] : idx2[s][i] = idx[s][i]
    <3>1. idx2[s] = Without(idx[s], left(s))
      BY <1>1
    <3> HIDE DEF left
    <3> QED BY <3>1 DEF Without
  <2>3. \A i \in DOMAIN idx2[s] : idx2[s][i] = idx[s][i]
    BY <2>2
  <2>4. DOMAIN idx2[s] = {i \in DOMAIN ents2 : ents2[i].scope = s}
    <3>1. \A i : i \in DOMAIN idx2[s] <=> i \in DOMAIN ents /\ ents[i].scope = s /\ i \notin gone
      BY <2>1, <2>2
    <3>2. \A i : i \in DOMAIN ents2 /\ ents2[i].scope = s
                   <=> i \in DOMAIN ents /\ ents[i].scope = s /\ i \notin gone
      BY <1>2
    <3> HIDE DEF left
    <3> QED BY <3>1, <3>2
  <2>5. idx2[s] \in [DOMAIN idx2[s] -> Questions]
    <3>1. idx2[s] = Without(idx[s], left(s)) /\ idx[s] \in [DOMAIN idx[s] -> Questions]
      BY <1>1, <2>1
    <3> HIDE DEF left
    <3>2. PICK f, g : f = idx[s] /\ g = left(s)
      OBVIOUS
    <3>3. Without(f, g) \in [DOMAIN Without(f, g) -> Questions]
      BY <3>1, <3>2, WithoutTypes, Zenon
    <3> QED BY <3>1, <3>2, <3>3
  <2> QED BY <1>2, <2>1, <2>2, <2>3, <2>4, <2>5
<1> QED BY <1>1, <1>3 DEF Indexed, idx2, ents2

\* A new answer is added to its index and to the entries.
LEMMA AddedToBoth ==
    ASSUME NEW idx, NEW ents, Indexed(idx, ents), NEW id, id \notin DOMAIN ents,
           NEW r \in Requests
    PROVE  Indexed([idx EXCEPT ![r.scope] = With(@, id, r.question)],
                   With(ents, id, [scope |-> r.scope, answer |-> r, age |-> 0]))
<1> DEFINE e == [scope |-> r.scope, answer |-> r, age |-> 0]
           idx2 == [idx EXCEPT ![r.scope] = With(@, id, r.question)]
           ents2 == With(ents, id, e)
<1>1. r.scope \in Scopes /\ DOMAIN idx = Scopes
  BY CacheAssumption DEF Indexed
<1>2. /\ DOMAIN idx2 = Scopes
      /\ \A s \in Scopes : idx2[s] = IF s = r.scope THEN With(idx[s], id, r.question) ELSE idx[s]
  BY <1>1
<1>3. e.scope = r.scope /\ e.answer.question = r.question
  OBVIOUS
<1> HIDE DEF e
<1>4. /\ DOMAIN ents2 = DOMAIN ents \cup {id} /\ ents2[id] = e
      /\ \A i \in DOMAIN ents : ents2[i] = ents[i]
  BY DEF With
<1> HIDE DEF idx2, ents2
<1>5. ASSUME NEW s \in Scopes
      PROVE  /\ DOMAIN idx2[s] = {i \in DOMAIN ents2 : ents2[i].scope = s}
             /\ idx2[s] \in [DOMAIN idx2[s] -> Questions]
             /\ \A i \in DOMAIN idx2[s] : idx2[s][i] = ents2[i].answer.question
  <2>1. /\ DOMAIN idx[s] = {i \in DOMAIN ents : ents[i].scope = s}
        /\ idx[s] \in [DOMAIN idx[s] -> Questions]
        /\ \A i \in DOMAIN idx[s] : idx[s][i] = ents[i].answer.question
    BY DEF Indexed
  <2>2. CASE s = r.scope
    <3>1. /\ DOMAIN idx2[s] = DOMAIN idx[s] \cup {id} /\ idx2[s][id] = r.question
          /\ \A i \in DOMAIN idx[s] \ {id} : idx2[s][i] = idx[s][i]
      BY <1>2, <2>2 DEF With
    <3>2. DOMAIN idx2[s] = {i \in DOMAIN ents2 : ents2[i].scope = s}
      BY <1>3, <1>4, <2>1, <2>2, <3>1
    <3>3. idx2[s] \in [DOMAIN idx2[s] -> Questions]
      <4>1. PICK q \in Questions : q = r.question
        BY CacheAssumption
      <4>2. idx2[s] = With(idx[s], id, q) /\ idx[s] \in [DOMAIN idx[s] -> Questions]
        BY <1>2, <2>1, <2>2, <4>1
      <4>3. With(idx[s], id, q) \in [DOMAIN With(idx[s], id, q) -> Questions]
        BY <4>2, WithTypes, Zenon
      <4> QED BY <4>2, <4>3
    <3> QED BY <1>3, <1>4, <2>1, <3>1, <3>2, <3>3
  <2>3. CASE s # r.scope
    <3>1. idx2[s] = idx[s]
      BY <1>2, <2>3
    <3>2. DOMAIN idx2[s] = {i \in DOMAIN ents2 : ents2[i].scope = s}
      BY <1>3, <1>4, <2>1, <2>3, <3>1
    <3> QED BY <1>4, <2>1, <3>1, <3>2
  <2> QED BY <2>2, <2>3
<1> QED BY <1>2, <1>5 DEF Indexed, idx2, ents2, e

-----------------------------------------------------------------------------
\* Every step keeps the invariant.

LEMMA InitInv == Init => IInv
<1> SUFFICES ASSUME Init PROVE IInv
  OBVIOUS
<1>1. DOMAIN entries = {}
  BY DEF Init
<1>2. Stored
  <2>1. entries \in [{} -> Entry]
    BY DEF Init
  <2> QED BY <1>1, <2>1, CacheAssumption DEF Init, Stored
<1>3. IndexesMatch
  BY <1>1 DEF Init, IndexesMatch, Indexed
<1>4. Asking
  BY DEF Init, Asking, Client
<1>5. Recent
  <2>1. DOMAIN lru = 1 .. 0 /\ lru \in Seq(Nat)
    BY DEF Init
  <2>2. Lists(lru, {})
    BY <2>1 DEF Lists
  <2> QED BY <1>1, <2>1, <2>2, FS_EmptySet, CacheAssumption DEF Recent
<1> QED BY <1>2, <1>3, <1>4, <1>5 DEF IInv

\* The ids of an index have entries, and their similarity is a number.
LEMMA IndexedSim ==
    ASSUME IInv, NEW r \in Requests
    PROVE  /\ DOMAIN indexes[r.scope] = {i \in DOMAIN entries : entries[i].scope = r.scope}
           /\ IsFiniteSet(DOMAIN indexes[r.scope])
           /\ \A i \in DOMAIN indexes[r.scope] : Sim(r.scope, r.question, i) \in Nat
<1>1. r.scope \in Scopes /\ r.question \in Questions
  BY CacheAssumption
<1>2. DOMAIN indexes[r.scope] = {i \in DOMAIN entries : entries[i].scope = r.scope}
  BY <1>1 DEF IInv, IndexesMatch, Indexed
<1>3. IsFiniteSet(DOMAIN indexes[r.scope])
  <2>1. IsFiniteSet(0 .. nextId - 1)
    BY FS_Interval DEF IInv, Stored
  <2>2. DOMAIN indexes[r.scope] \subseteq 0 .. nextId - 1
    BY <1>2 DEF IInv, Stored
  <2> QED BY <2>1, <2>2, FS_Subset
<1>4. ASSUME NEW i \in DOMAIN indexes[r.scope] PROVE Sim(r.scope, r.question, i) \in Nat
  <2>1. entries[i].answer \in Requests
    BY <1>2 DEF IInv, Stored, Entry
  <2>2. entries[i].answer.question \in Questions
    BY <2>1, CacheAssumption
  <2>3. indexes[r.scope][i] = entries[i].answer.question
    BY <1>1 DEF IInv, IndexesMatch, Indexed
  <2> QED BY <1>1, <2>2, <2>3, CacheAssumption DEF Sim
<1> QED BY <1>2, <1>3, <1>4

\* A walk stops at one entry at most, which stays.
StopsAtOne(gone, first) ==
    /\ gone \subseteq DOMAIN entries /\ first \subseteq DOMAIN entries \ gone
    /\ first = {} \/ \E f : first = {f}

LEMMA WalkStops ==
    ASSUME IInv, NEW r \in Requests, NEW top \in Nearest(r.scope, r.question),
           NEW gone, NEW first, Walk(r.scope, r.question, top, gone, first)
    PROVE  StopsAtOne(gone, first)
<1> DEFINE known == top \cap DOMAIN entries
           fresh == {i \in known : ~ Expired(i)}
<1>1. /\ first \subseteq fresh /\ gone \subseteq known \ fresh
      /\ first # {} => Cardinality(first) = 1
  BY DEF Walk
<1>2. IsFiniteSet(first)
  <2>1. first \subseteq DOMAIN indexes[r.scope]
    BY <1>1 DEF Nearest
  <2> QED BY <2>1, IndexedSim, FS_Subset
<1>3. first = {} \/ \E f : first = {f}
  BY <1>1, <1>2, FS_Singleton
<1> QED BY <1>1, <1>3 DEF StopsAtOne

\* What a get for request r does after its walk.
Searched(c, r, top, gone, first) ==
    LET hit == {i \in first : CloseEnough(r.scope, r.question, i)}
    IN  /\ Walk(r.scope, r.question, top, gone, first)
        /\ lru' = Touched(gone, hit)
        /\ clients' = [clients EXCEPT ![c] =
              IF hit = {}
              THEN [pc |-> "asking", request |-> r, reply |-> None]
              ELSE [pc |-> "idle", request |-> r,
                    reply |-> entries[CHOOSE i \in hit : TRUE].answer]]
        /\ indexes' = Unindexed(indexes, entries, gone)
        /\ entries' = Without(entries, gone)
        /\ nextId' = nextId

LEMMA GetSearches ==
    ASSUME NEW c \in Clients, Get(c)
    PROVE  \E r \in Requests : \E top \in Nearest(r.scope, r.question) : \E gone, first :
              Searched(c, r, top, gone, first)
<1> QED BY DEF Get, Searched

\* What a hit moves, and what a miss leaves.
LEMMA TouchedIs ==
    ASSUME lru \in Seq(Nat), Lists(lru, DOMAIN entries), NEW gone
    PROVE  /\ SkipThese(lru, gone) \in Seq(Nat) /\ Touched(gone, {}) = SkipThese(lru, gone)
           /\ \A f \in Nat : /\ SkipThese(lru, gone \cup {f}) \in Seq(Nat)
                            /\ Touched(gone, {f}) = Append(SkipThese(lru, gone \cup {f}), f)
<1>1. ASSUME NEW drop PROVE SkipThese(lru, drop) \in Seq(Nat)
  BY SkippedLists
<1>2. Touched(gone, {}) = SkipThese(lru, gone)
  <2>1. PICK l \in Seq(Nat) : l = SkipThese(lru, gone)
    BY <1>1
  <2>2. gone \cup {} = gone
    OBVIOUS
  <2>3. Touched(gone, {}) = l \o << >>
    BY <2>1, <2>2 DEF Touched
  <2>4. l \o << >> = l
    OBVIOUS
  <2> QED BY <2>1, <2>3, <2>4
<1>3. ASSUME NEW f \in Nat
      PROVE  Touched(gone, {f}) = Append(SkipThese(lru, gone \cup {f}), f)
  <2>1. PICK l \in Seq(Nat) : l = SkipThese(lru, gone \cup {f})
    BY <1>1
  <2>2. (CHOOSE i \in {f} : TRUE) = f
    OBVIOUS
  <2>3. Touched(gone, {f}) = l \o <<f>>
    BY <2>1, <2>2 DEF Touched
  <2>4. l \o <<f>> = Append(l, f)
    OBVIOUS
  <2> QED BY <2>1, <2>3, <2>4
<1> QED BY <1>1, <1>2, <1>3

\* A get leaves the ids that it does not drop, each once.
LEMMA TouchedLists ==
    ASSUME IInv, NEW gone, NEW hit \in SUBSET (DOMAIN entries \ gone),
           hit = {} \/ \E f : hit = {f}
    PROVE  /\ Lists(Touched(gone, hit), DOMAIN entries \ gone)
           /\ Touched(gone, hit) \in Seq(Nat)
<1>1. lru \in Seq(Nat) /\ Lists(lru, DOMAIN entries)
  BY DEF IInv, Recent
<1>2. CASE hit = {}
  BY <1>1, <1>2, TouchedIs, SkippedLists
<1>3. CASE hit # {}
  <2>1. PICK f \in DOMAIN entries \ gone : hit = {f}
    BY <1>3
  <2>2. f \in Nat
    BY <2>1 DEF IInv, Stored
  <2>3. PICK l \in Seq(Nat) : l = SkipThese(lru, gone \cup {f})
    BY <1>1, <2>2, TouchedIs
  <2>4. Lists(l, DOMAIN entries \ (gone \cup {f}))
    BY <1>1, <2>3, SkippedLists
  <2>5. Lists(Append(l, f), (DOMAIN entries \ (gone \cup {f})) \cup {f}) /\ Append(l, f) \in Seq(Nat)
    BY <2>2, <2>3, <2>4, AppendedLists
  <2>6. (DOMAIN entries \ (gone \cup {f})) \cup {f} = DOMAIN entries \ gone
    BY <2>1
  <2>7. Touched(gone, hit) = Append(l, f)
    BY <1>1, <2>1, <2>2, <2>3, TouchedIs
  <2> QED BY <2>5, <2>6, <2>7
<1> QED BY <1>2, <1>3

LEMMA GetStep == ASSUME IInv, NEW c \in Clients, Get(c) PROVE IInv'
<1>0. PICK r \in Requests : \E top \in Nearest(r.scope, r.question) : \E gone, first :
        Searched(c, r, top, gone, first)
  BY GetSearches
<1>1. PICK top \in Nearest(r.scope, r.question) : \E gone, first : Searched(c, r, top, gone, first)
  BY <1>0
<1>2. PICK gone, first : Searched(c, r, top, gone, first)
  BY <1>1
<1> DEFINE hit == {i \in first : CloseEnough(r.scope, r.question, i)}
<1>3. Stored'
  <2>1. entries' = Without(entries, gone) /\ nextId' = nextId
    BY <1>2, Zenon DEF Searched
  <2>2. PICK ents : ents = entries'
    OBVIOUS
  <2>3. ents \in [DOMAIN ents -> Entry] /\ DOMAIN ents = DOMAIN entries \ gone
    BY <2>1, <2>2, WithoutTypes DEF IInv, Stored
  <2> QED BY <2>1, <2>2, <2>3 DEF IInv, Stored
<1>4. IndexesMatch'
  <2>1. entries' = Without(entries, gone) /\ indexes' = Unindexed(indexes, entries, gone)
    BY <1>2, Zenon DEF Searched
  <2> QED BY <2>1, DroppedFromBoth DEF IInv, IndexesMatch
<1>5. Asking'
  <2>1. CASE hit = {}
    <3>1. [pc |-> "asking", request |-> r, reply |-> None] \in Client
      BY DEF Client
    <3>2. clients' = [clients EXCEPT ![c] = [pc |-> "asking", request |-> r, reply |-> None]]
      BY <1>2, <2>1 DEF Searched
    <3> QED BY <3>1, <3>2 DEF IInv, Asking
  <2>2. CASE hit # {}
    <3>1. PICK i \in hit : i = CHOOSE x \in hit : TRUE
      BY <2>2
    <3>2. first \subseteq DOMAIN entries
      BY <1>2 DEF Walk, Searched
    <3>3. entries[i].answer \in Requests
      BY <3>1, <3>2 DEF IInv, Stored, Entry
    <3>4. PICK reply \in Requests : reply = entries[i].answer
      BY <3>3
    <3>5. [pc |-> "idle", request |-> r, reply |-> reply] \in Client
      BY DEF Client
    <3>6. clients' = [clients EXCEPT ![c] = [pc |-> "idle", request |-> r, reply |-> reply]]
      BY <1>2, <2>2, <3>1, <3>4 DEF Searched
    <3> QED BY <3>5, <3>6 DEF IInv, Asking
  <2> QED BY <2>1, <2>2
<1>6. Recent'
  <2>1. /\ gone \subseteq DOMAIN entries /\ hit \subseteq DOMAIN entries \ gone
        /\ hit = {} \/ \E f : hit = {f}
    <3>1. /\ gone \subseteq DOMAIN entries /\ first \subseteq DOMAIN entries \ gone
          /\ first = {} \/ \E f : first = {f}
      <4>1. Walk(r.scope, r.question, top, gone, first)
        BY <1>2, Zenon DEF Searched
      <4>2. StopsAtOne(gone, first)
        BY <4>1, WalkStops
      <4> QED BY <4>2 DEF StopsAtOne
    <3>2. hit \subseteq first
      OBVIOUS
    <3> HIDE DEF hit
    <3>3. hit = {} \/ \E f : hit = {f}
      BY <3>1, <3>2
    <3> QED BY <3>1, <3>2, <3>3
  <2>2. lru' = Touched(gone, hit) /\ DOMAIN entries' = DOMAIN entries \ gone
    BY <1>2 DEF Searched, Without
  <2> HIDE DEF hit
  <2>3. Lists(lru', DOMAIN entries') /\ lru' \in Seq(Nat)
    BY <2>1, <2>2, TouchedLists
  <2>4. Cardinality(DOMAIN entries') <= MaxEntries
    <3>1. IsFiniteSet(DOMAIN entries) /\ Cardinality(DOMAIN entries) \in Nat
      BY ListsCount DEF IInv, Recent, Lists
    <3>2. /\ Cardinality(DOMAIN entries') <= Cardinality(DOMAIN entries)
          /\ IsFiniteSet(DOMAIN entries')
      BY <2>2, <3>1, FS_Subset
    <3>3. Cardinality(DOMAIN entries') \in Nat /\ Cardinality(DOMAIN entries) <= MaxEntries
      BY <3>2, FS_CardinalityType DEF IInv, Recent
    <3> QED BY <3>1, <3>2, <3>3, CacheAssumption
  <2> QED BY <2>3, <2>4 DEF Recent
<1> QED BY <1>3, <1>4, <1>5, <1>6 DEF IInv

\* Those that make room are at the first places.
LEMMA EvictedFirst ==
    ASSUME NEW l \in Seq(Nat), NEW ids, Lists(l, ids)
    PROVE  LET gone == {l[i] : i \in 1 .. Excess(l)}
           IN  /\ Excess(l) \in 0 .. Len(l)
               /\ Staying(l, gone) = Excess(l) + 1 .. Len(l)
               /\ Cardinality(Staying(l, gone)) = Len(l) - Excess(l)
<1> DEFINE gone == {l[i] : i \in 1 .. Excess(l)}
           left == Staying(l, gone)
<1>1. Len(l) \in Nat /\ DOMAIN l = 1 .. Len(l)
  OBVIOUS
<1>2. Excess(l) \in 0 .. Len(l)
  BY <1>1, CacheAssumption DEF Excess
<1>3. \A n \in DOMAIN l : l[n] \in gone <=> n \in 1 .. Excess(l)
  BY <1>1, <1>2 DEF Lists
<1>4. left = Excess(l) + 1 .. Len(l)
  <2> HIDE DEF gone
  <2> QED BY <1>1, <1>2, <1>3 DEF Staying
<1>5. Cardinality(Excess(l) + 1 .. Len(l)) = Len(l) - Excess(l)
  <2>1. Excess(l) + 1 \in Int /\ Len(l) \in Int
    BY <1>1, <1>2
  <2>2. Cardinality(Excess(l) + 1 .. Len(l))
           = IF Excess(l) + 1 > Len(l) THEN 0 ELSE Len(l) - (Excess(l) + 1) + 1
    BY <2>1, FS_Interval
  <2>3. \A e \in Nat, n \in Nat : e <= n => (IF e + 1 > n THEN 0 ELSE n - (e + 1) + 1) = n - e
    OBVIOUS
  <2>4. Excess(l) \in Nat /\ Excess(l) <= Len(l)
    BY <1>1, <1>2
  <2> QED BY <1>1, <2>2, <2>3, <2>4
<1> QED BY <1>2, <1>4, <1>5

LEMMA SetStep == ASSUME IInv, NEW c \in Clients, Set(c) PROVE IInv'
<1>1. PICK r \in Requests : r = clients[c].request
  BY DEF IInv, Asking, Set
<1> DEFINE index == [indexes EXCEPT ![r.scope] = With(@, nextId, r.question)]
           e     == [scope |-> r.scope, answer |-> r, age |-> 0]
           all   == With(entries, nextId, e)
           ids   == Append(lru, nextId)
           evicted == {ids[i] : i \in 1 .. Excess(ids)}
<1>2. /\ indexes' = Unindexed(index, all, evicted) /\ entries' = Without(all, evicted)
      /\ clients' = [clients EXCEPT ![c].pc = "idle", ![c].reply = r]
      /\ nextId' = nextId + 1
  BY <1>1 DEF Set
<1>3. nextId \in Nat /\ nextId < MaxSets /\ MaxSets \in Nat /\ nextId \notin DOMAIN entries
  BY CacheAssumption DEF IInv, Stored, Set
<1>4. Indexed(index, all)
  BY <1>3, AddedToBoth DEF IInv, IndexesMatch
<1>5. all \in [DOMAIN all -> Entry] /\ \A i \in DOMAIN all : i \in 0 .. (nextId + 1) - 1
  <2>1. e \in Entry
    BY CacheAssumption DEF Entry
  <2> HIDE DEF e
  <2>2. /\ DOMAIN all = DOMAIN entries \cup {nextId} /\ all[nextId] = e
        /\ all = [i \in DOMAIN all |-> all[i]]
        /\ \A i \in DOMAIN entries : i # nextId => all[i] = entries[i]
    BY DEF With
  <2> HIDE DEF all
  <2>3. ASSUME NEW i \in DOMAIN all PROVE i \in 0 .. (nextId + 1) - 1 /\ all[i] \in Entry
    <3>1. CASE i = nextId
      BY <1>3, <2>1, <2>2, <3>1
    <3>2. CASE i # nextId
      <4>1. i \in DOMAIN entries /\ all[i] = entries[i]
        BY <2>2, <3>2
      <4> QED BY <1>3, <4>1 DEF IInv, Stored
    <3> QED BY <3>1, <3>2
  <2> QED BY <2>2, <2>3
<1> HIDE DEF index, all, evicted
<1>6. IndexesMatch'
  BY <1>2, <1>4, DroppedFromBoth DEF IndexesMatch
<1>7. Stored'
  <2>1. nextId + 1 \in 0 .. MaxSets
    BY <1>3
  <2>2. /\ Without(all, evicted) \in [DOMAIN Without(all, evicted) -> Entry]
        /\ DOMAIN Without(all, evicted) = DOMAIN all \ evicted
    BY <1>5, WithoutTypes, Zenon
  <2> QED BY <1>2, <1>5, <2>1, <2>2 DEF Stored
<1>8. Asking'
  <2>1. PICK old \in Client : old = clients[c]
    BY DEF IInv, Asking
  <2>2. PICK new \in Client : new = [old EXCEPT !.pc = "idle", !.reply = r]
    <3>1. [old EXCEPT !.pc = "idle", !.reply = r] \in Client
      BY DEF Client
    <3> QED BY <3>1
  <2>3. new.pc = "idle"
    BY <2>2 DEF Client
  <2>4. clients' = [clients EXCEPT ![c] = new]
    BY <1>2, <2>1, <2>2
  <2> QED BY <2>3, <2>4 DEF IInv, Asking
<1>9. Recent'
  <2>1. lru \in Seq(Nat) /\ Lists(lru, DOMAIN entries)
    BY DEF IInv, Recent
  <2>2. Lists(ids, DOMAIN entries \cup {nextId}) /\ ids \in Seq(Nat)
    BY <1>3, <2>1, AppendedLists
  <2>3. lru' = SkipThese(ids, evicted) /\ DOMAIN entries' = DOMAIN all \ evicted
    BY <1>2 DEF Set, Without, evicted
  <2>4. DOMAIN all = DOMAIN entries \cup {nextId}
    BY DEF all, With
  <2>5. Lists(lru', DOMAIN entries') /\ lru' \in Seq(Nat)
    <3>1. PICK seq \in Seq(Nat) : seq = ids
      BY <2>2, <2>4
    <3>2. Lists(SkipThese(seq, evicted), DOMAIN all \ evicted) /\ SkipThese(seq, evicted) \in Seq(Nat)
      BY <2>2, <2>4, <3>1, SkippedLists
    <3> QED BY <2>3, <3>1, <3>2
  <2>6. DOMAIN lru' = 1 .. Len(ids) - Excess(ids) /\ Excess(ids) \in 0 .. Len(ids)
    <3>1. PICK seq \in Seq(Nat) : seq = ids /\ Lists(seq, DOMAIN entries \cup {nextId})
      BY <2>2
    <3>2. PICK gone : gone = evicted
      OBVIOUS
    <3>3. DOMAIN SkipThese(seq, gone) = 1 .. Cardinality(Staying(seq, gone))
      BY <3>1, SkippedLists
    <3>4. gone = {seq[i] : i \in 1 .. Excess(seq)}
      BY <3>1, <3>2 DEF evicted
    <3>5. /\ Excess(seq) \in 0 .. Len(seq)
          /\ Cardinality(Staying(seq, gone)) = Len(seq) - Excess(seq)
      BY <3>1, <3>4, EvictedFirst
    <3> HIDE DEF ids
    <3> QED BY <2>3, <3>1, <3>2, <3>3, <3>5
  <2>7. Cardinality(DOMAIN entries') = Len(ids) - Excess(ids)
    <3>1. Len(ids) - Excess(ids) \in Nat
      BY <2>2, <2>6
    <3> QED BY <2>5, <2>6, <3>1, ListsCount
  <2>8. Len(ids) - Excess(ids) <= MaxEntries
    BY <2>2, CacheAssumption DEF Excess
  <2> QED BY <2>5, <2>7, <2>8 DEF Recent
<1> QED BY <1>6, <1>7, <1>8, <1>9 DEF IInv

LEMMA FailStep == ASSUME IInv, NEW c \in Clients, Fail(c) PROVE IInv'
<1>1. UNCHANGED <<indexes, entries, nextId>> /\ clients' = [clients EXCEPT ![c].pc = "idle"]
  BY DEF Fail
<1>2. Stored' /\ IndexesMatch'
  BY <1>1 DEF IInv, Stored, IndexesMatch
<1>3. Asking'
  <2>1. PICK old \in Client : old = clients[c]
    BY DEF IInv, Asking
  <2>2. PICK new \in Client : new = [old EXCEPT !.pc = "idle"]
    <3>1. [old EXCEPT !.pc = "idle"] \in Client
      BY DEF Client
    <3> QED BY <3>1
  <2>3. new.pc = "idle"
    BY <2>2 DEF Client
  <2>4. clients' = [clients EXCEPT ![c] = new]
    BY <1>1, <2>1, <2>2
  <2> QED BY <2>3, <2>4 DEF IInv, Asking
<1>4. Recent'
  BY DEF Fail, IInv, Recent
<1> QED BY <1>2, <1>3, <1>4 DEF IInv

\* Time changes only the age of an entry.
LEMMA TickStep == ASSUME IInv, Tick PROVE IInv'
<1>1. /\ entries' = [i \in DOMAIN entries |-> [entries[i] EXCEPT !.age = Least(@ + 1, TTL)]]
      /\ UNCHANGED <<indexes, nextId, clients>>
  BY DEF Tick
<1>2. ASSUME NEW i \in DOMAIN entries
      PROVE  /\ entries'[i] \in Entry /\ entries'[i].scope = entries[i].scope
             /\ entries'[i].answer = entries[i].answer
  <2>1. PICK e \in Entry : e = entries[i]
    BY DEF IInv, Stored
  <2>2. Least(e.age + 1, TTL) \in 0 .. TTL
    BY CacheAssumption DEF Entry, Least
  <2>3. entries'[i] = [e EXCEPT !.age = Least(e.age + 1, TTL)]
    BY <1>1, <2>1
  <2> QED BY <2>1, <2>2, <2>3 DEF Entry
<1>3. DOMAIN entries' = DOMAIN entries
  BY <1>1
<1>4. Stored'
  BY <1>1, <1>2, <1>3 DEF IInv, Stored
<1>5. IndexesMatch'
  <2>1. \A s \in Scopes : {i \in DOMAIN entries' : entries'[i].scope = s}
                             = {i \in DOMAIN entries : entries[i].scope = s}
    BY <1>2, <1>3
  <2> QED BY <1>1, <1>2, <2>1 DEF IInv, IndexesMatch, Indexed
<1>6. Recent'
  BY <1>3 DEF Tick, IInv, Recent
<1> QED BY <1>1, <1>4, <1>5, <1>6 DEF IInv, Asking

LEMMA NextInv == IInv /\ [Next]_vars => IInv'
<1> SUFFICES ASSUME IInv, [Next]_vars PROVE IInv'
  OBVIOUS
<1>1. CASE UNCHANGED vars
  <2>1. UNCHANGED <<indexes, entries, lru, nextId, clients>>
    BY <1>1 DEF vars
  <2> QED BY <2>1 DEF IInv, Stored, IndexesMatch, Recent, Asking
<1> QED BY <1>1, TickStep, GetStep, SetStep, FailStep DEF Next

\* The invariant holds of every behaviour.
THEOREM Inductive == Spec => []IInv
BY InitInv, NextInv, PTL DEF Spec

-----------------------------------------------------------------------------
\* When a request goes upstream past an answer.

\* A search that serves nothing although an answer is there has found only
\* expired entries, as many as it looks at, and removes them all.
LEMMA WalkedInVain ==
    ASSUME IInv, NEW r \in Requests, NEW top \in Nearest(r.scope, r.question),
           NEW gone, NEW first, Walk(r.scope, r.question, top, gone, first),
           \A i \in first : ~ CloseEnough(r.scope, r.question, i),
           NEW a \in Answers(r)
    PROVE  /\ gone = top /\ top \subseteq DOMAIN entries
           /\ \A i \in gone : Expired(i)
           /\ Cardinality(gone) = TopK
<1> DEFINE ids == DOMAIN indexes[r.scope]
           fresh == {i \in top \cap DOMAIN entries : ~ Expired(i)}
           sim(i) == Sim(r.scope, r.question, i)
<1>1. /\ ids = {i \in DOMAIN entries : entries[i].scope = r.scope}
      /\ IsFiniteSet(ids) /\ \A i \in ids : sim(i) \in Nat
  BY IndexedSim
<1>2. /\ top \subseteq ids
      /\ Cardinality(top) = Least(Cardinality(ids), TopK)
      /\ \A i \in top, j \in ids \ top : sim(i) >= sim(j)
  BY DEF Nearest
<1>3. top \cap DOMAIN entries = top
  BY <1>1, <1>2
<1>4. a \in ids /\ ~ Expired(a) /\ sim(a) >= Threshold
  BY <1>1 DEF Answers, CloseEnough
<1>5. /\ first \subseteq fresh
      /\ fresh # {} => Cardinality(first) = 1
      /\ \A i \in first : \A j \in fresh : sim(j) <= sim(i)
      /\ fresh = {} => gone = top
  BY <1>3 DEF Walk
<1>6. \A i \in first : sim(i) < Threshold
  <2>1. \A i \in first : sim(i) \in Nat /\ ~ (sim(i) >= Threshold)
    BY <1>1, <1>2, <1>5 DEF CloseEnough
  <2> QED BY <2>1, CacheAssumption
<1> HIDE DEF sim
<1>7. fresh = {}
  <2> SUFFICES ASSUME fresh # {} PROVE FALSE
    OBVIOUS
  <2>1. PICK f \in first : TRUE
    BY <1>5, FS_EmptySet
  <2>2. f \in top /\ f \in ids /\ sim(f) < Threshold
    BY <1>2, <1>5, <1>6, <2>1
  <2>3. sim(a) <= sim(f)
    <3>1. CASE a \in top
      BY <1>3, <1>4, <1>5, <2>1, <3>1
    <3>2. CASE a \notin top
      BY <1>1, <1>2, <1>4, <2>2, <3>2
    <3> QED BY <3>1, <3>2
  <2> QED BY <1>1, <1>4, <2>2, <2>3, CacheAssumption
<1>8. gone = top /\ \A i \in top : Expired(i)
  BY <1>3, <1>5, <1>7
<1>9. Cardinality(top) = TopK
  <2>1. top # ids
    BY <1>4, <1>8
  <2>2. Cardinality(top) < Cardinality(ids) /\ Cardinality(ids) \in Nat
    BY <1>1, <1>2, <2>1, FS_Subset, FS_CardinalityType
  <2> QED BY <1>2, <2>2, CacheAssumption DEF Least
<1> QED BY <1>2, <1>3, <1>8, <1>9

\* A request that goes upstream has just searched.
LEMMA MissedStep ==
    ASSUME IInv, [Next]_vars, NEW c \in Clients,
           clients[c].pc = "idle", clients'[c].pc = "asking"
    PROVE  Get(c)
<1>1. clients # clients' /\ clients \in [Clients -> Client]
  BY DEF IInv, Asking
<1>2. PICK d \in Clients : Get(d) \/ Set(d) \/ Fail(d)
  BY <1>1 DEF Next, Tick, vars
<1>3. c = d
  <2>1. \A e \in Clients : e # d => clients'[e] = clients[e]
    <3>1. CASE Get(d)
      BY <1>1, <3>1 DEF Get
    <3>2. CASE Set(d)
      BY <1>1, <3>2 DEF Set
    <3>3. CASE Fail(d)
      BY <1>1, <3>3 DEF Fail
    <3> QED BY <1>2, <3>1, <3>2, <3>3
  <2> QED BY <2>1
<1> QED BY <1>2, <1>3 DEF Set, Fail

LEMMA MissStep ==
    ASSUME IInv, [Next]_vars, NEW c \in Clients,
           clients[c].pc = "idle", clients'[c].pc = "asking",
           Answers(clients'[c].request) # {}
    PROVE  LET gone == DOMAIN entries \ DOMAIN entries'
           IN  Cardinality(gone) = TopK /\ \A i \in gone : Expired(i)
<1>1. Get(c)
  BY MissedStep
<1>2. PICK r \in Requests : \E top \in Nearest(r.scope, r.question) : \E gone, first :
        Searched(c, r, top, gone, first)
  BY <1>1, GetSearches
<1>3. PICK top \in Nearest(r.scope, r.question) : \E gone, first : Searched(c, r, top, gone, first)
  BY <1>2
<1>4. PICK gone, first : Searched(c, r, top, gone, first)
  BY <1>3
<1> DEFINE hit == {i \in first : CloseEnough(r.scope, r.question, i)}
<1>5. hit = {} /\ clients'[c].request = r
  <2>1. clients'[c] = IF hit = {}
                      THEN [pc |-> "asking", request |-> r, reply |-> None]
                      ELSE [pc |-> "idle", request |-> r,
                            reply |-> entries[CHOOSE i \in hit : TRUE].answer]
    BY <1>4 DEF IInv, Asking, Searched
  <2> HIDE DEF hit
  <2> QED BY <2>1
<1>6. /\ gone = top /\ top \subseteq DOMAIN entries
      /\ \A i \in gone : Expired(i)
      /\ Cardinality(gone) = TopK
  <2>1. PICK a \in Answers(r) : TRUE
    BY <1>5
  <2>2. \A i \in first : ~ CloseEnough(r.scope, r.question, i)
    BY <1>5
  <2> QED BY <1>4, <2>1, <2>2, WalkedInVain DEF Searched
<1>7. DOMAIN entries \ DOMAIN entries' = gone
  BY <1>4, <1>6 DEF Without, Searched
<1> QED BY <1>6, <1>7

\* A request goes upstream past a fresh answer only behind TopK expired entries,
\* and takes them with it.
THEOREM MissesExplained == Spec => MissesOnlyBehindExpired
<1>1. IInv /\ [Next]_vars =>
        [\A c \in Clients :
           /\ clients[c].pc = "idle" /\ clients'[c].pc = "asking"
           /\ Answers(clients'[c].request) # {}
           => LET gone == DOMAIN entries \ DOMAIN entries'
              IN  Cardinality(gone) = TopK /\ \A i \in gone : Expired(i)]_vars
  BY MissStep
<1> QED BY <1>1, Inductive, PTL DEF Spec, MissesOnlyBehindExpired

-----------------------------------------------------------------------------
\* The three structures.

LEMMA TypesFollow == IInv => TypeOK
<1> SUFFICES ASSUME IInv PROVE TypeOK
  OBVIOUS
<1>1. nextId \in 0 .. MaxSets /\ MaxSets \in Nat
  BY CacheAssumption DEF IInv, Stored
<1>2. DOMAIN entries \subseteq Ids
  BY <1>1 DEF IInv, Stored, Ids
<1>3. entries \in [DOMAIN entries -> Entry]
  BY DEF IInv, Stored
<1>4. DOMAIN indexes = Scopes
  BY DEF IInv, IndexesMatch, Indexed
<1>5. ASSUME NEW s \in Scopes
      PROVE  DOMAIN indexes[s] \in SUBSET Ids /\ indexes[s] \in [DOMAIN indexes[s] -> Questions]
  BY <1>2 DEF IInv, IndexesMatch, Indexed
<1>6. lru \in Seq(Ids)
  <2>1. Len(lru) \in Nat /\ lru \in [1 .. Len(lru) -> Nat]
    BY DEF IInv, Recent
  <2>2. \A n \in 1 .. Len(lru) : lru[n] \in Ids
    BY <1>2, <2>1 DEF IInv, Recent, Lists
  <2>3. lru \in [1 .. Len(lru) -> Ids]
    BY <2>1, <2>2
  <2> QED BY <2>1, <2>3
<1>7. clients \in [Clients -> Client] /\ Cardinality(DOMAIN entries) <= MaxEntries
  BY DEF IInv, Recent, Asking
<1> QED BY <1>1, <1>2, <1>3, <1>4, <1>5, <1>6, <1>7 DEF TypeOK

\* Index, entries and recency order hold the same answers, at most MaxEntries,
\* whatever is stored, expires or is evicted between one request's get and set.
THEOREM OneCache == Spec => []OneView
<1>1. IInv => OneView
  <2> SUFFICES ASSUME IInv PROVE OneView
    OBVIOUS
  <2>1. TypeOK
    BY TypesFollow
  <2>2. /\ \A i, j \in DOMAIN lru : lru[i] = lru[j] => i = j
        /\ {lru[i] : i \in DOMAIN lru} = DOMAIN entries
    BY DEF IInv, Recent, Lists
  <2>3. ASSUME NEW s \in Scopes
        PROVE  indexes[s] = [i \in {j \in DOMAIN entries : entries[j].scope = s} |->
                                entries[i].answer.question]
    <3>1. /\ DOMAIN indexes[s] = {j \in DOMAIN entries : entries[j].scope = s}
          /\ indexes[s] = [i \in DOMAIN indexes[s] |-> indexes[s][i]]
          /\ \A i \in DOMAIN indexes[s] : indexes[s][i] = entries[i].answer.question
      BY DEF IInv, IndexesMatch, Indexed
    <3> QED BY <3>1
  <2> QED BY <2>1, <2>2, <2>3 DEF OneView
<1> QED BY <1>1, Inductive, PTL

-----------------------------------------------------------------------------
\* The refinement.

\* An entry as the list of answers has it.
View(e) == [scope |-> e.scope, question |-> e.answer.question, answer |-> e.answer, age |-> e.age]

Viewed(l, ents) == [i \in DOMAIN l |-> View(ents[l[i]])]

\* The list of answers, by the entries alone.
LEMMA ListIsViewed ==
    ASSUME NEW l, NEW idx, NEW ents, Lists(l, DOMAIN ents), Indexed(idx, ents),
           ents \in [DOMAIN ents -> Entry]
    PROVE  \A i \in DOMAIN l :
              [scope |-> ents[l[i]].scope, question |-> idx[ents[l[i]].scope][l[i]],
               answer |-> ents[l[i]].answer, age |-> ents[l[i]].age] = View(ents[l[i]])
<1> SUFFICES ASSUME NEW i \in DOMAIN l
             PROVE  [scope |-> ents[l[i]].scope, question |-> idx[ents[l[i]].scope][l[i]],
                     answer |-> ents[l[i]].answer, age |-> ents[l[i]].age] = View(ents[l[i]])
  OBVIOUS
<1>1. PICK id \in DOMAIN ents : id = l[i]
  BY DEF Lists
<1>2. PICK e \in Entry : e = ents[id]
  OBVIOUS
<1>3. e.scope \in Scopes
  BY <1>2 DEF Entry
<1>4. idx[e.scope][id] = e.answer.question
  BY <1>2, <1>3 DEF Indexed
<1> QED BY <1>1, <1>2, <1>4 DEF View

\* The entries at these places of a list are the same.
SameAt(l, places, ents, ents2) == \A p \in places : ents2[l[p]] = ents[l[p]]

\* Places keep their view when a list is cut, as long as their entries stay.
LEMMA ViewedSublist ==
    ASSUME NEW l, NEW n \in Nat, DOMAIN l = 1 .. n, NEW places, places \subseteq 1 .. n,
           NEW ents, NEW ents2, SameAt(l, places, ents, ents2)
    PROVE  Viewed(Sublist(l, places), ents2) = Sublist(Viewed(l, ents), places)
<1>1. PICK pick : Picks(pick, l, places)
  BY SublistPicks
<1>2. PICK pick2 : Picks(pick2, Viewed(l, ents), places)
  BY SublistPicks
<1> DEFINE N == Cardinality(places)
<1> HIDE DEF N
<1>3. /\ pick \in [1 .. N -> places] /\ Sublist(l, places) = [m \in 1 .. N |-> l[pick[m]]]
      /\ pick2 \in [1 .. N -> places]
      /\ Sublist(Viewed(l, ents), places) = [m \in 1 .. N |-> Viewed(l, ents)[pick2[m]]]
      /\ \A m \in 1 .. N : Rank(places, pick[m]) = m /\ Rank(places, pick2[m]) = m
      /\ \A p \in places : \E m \in 1 .. N : pick[m] = p
  BY <1>1, <1>2 DEF Picks, N
<1>4. \A m \in 1 .. N : pick[m] = pick2[m]
  BY <1>3
<1>5. \A m \in 1 .. N : pick[m] \in places /\ pick[m] \in DOMAIN l
  BY <1>3
<1>6. \A m \in 1 .. N : Viewed(l, ents)[pick2[m]] = View(ents2[l[pick[m]]])
  BY <1>4, <1>5 DEF Viewed, SameAt
<1>7. DOMAIN Sublist(l, places) = 1 .. N /\ \A m \in 1 .. N : Sublist(l, places)[m] = l[pick[m]]
  BY <1>3
<1>8. Viewed(Sublist(l, places), ents2) = [m \in 1 .. N |-> View(ents2[l[pick[m]]])]
  BY <1>7 DEF Viewed
<1>9. Sublist(Viewed(l, ents), places) = [m \in 1 .. N |-> View(ents2[l[pick[m]]])]
  <2>1. PICK seen : seen = Viewed(l, ents)
    OBVIOUS
  <2>2. Sublist(seen, places) = [m \in 1 .. N |-> seen[pick2[m]]]
    BY <1>3, <2>1
  <2> QED BY <1>6, <2>1, <2>2
<1> QED BY <1>8, <1>9

LEMMA PromisedSublist ==
    ASSUME NEW l, NEW places PROVE Promise!Sublist(l, places) = Sublist(l, places)
<1> QED BY DEF Promise!Sublist, Sublist, Promise!Rank, Rank, Promise!Cardinality, Cardinality

LEMMA ViewedAppend ==
    ASSUME NEW l \in Seq(Nat), NEW i \in Nat, NEW ents
    PROVE  Viewed(Append(l, i), ents) = Append(Viewed(l, ents), View(ents[i]))
<1>1. /\ Len(l) \in Nat /\ DOMAIN l = 1 .. Len(l) /\ DOMAIN Append(l, i) = 1 .. Len(l) + 1
      /\ \A m \in 1 .. Len(l) : Append(l, i)[m] = l[m]
      /\ Append(l, i)[Len(l) + 1] = i
  OBVIOUS
<1> DEFINE n == Len(l)
           v == Viewed(l, ents)
           longer == Append(v, View(ents[i]))
<1> HIDE DEF n
<1>2. v = [m \in 1 .. n |-> View(ents[l[m]])]
  BY <1>1 DEF Viewed, n
<1>3. Len(v) = n /\ DOMAIN v = 1 .. n /\ n \in Nat
  BY <1>1, <1>2 DEF n
<1>4. longer = [m \in 1 .. n + 1 |-> IF m = n + 1 THEN View(ents[i]) ELSE v[m]]
  BY <1>3
<1>5. Viewed(Append(l, i), ents) = [m \in 1 .. n + 1 |-> View(ents[Append(l, i)[m]])]
  BY <1>1 DEF Viewed, n
<1>6. \A m \in 1 .. n + 1 : m # n + 1 => m \in 1 .. n
  BY <1>3
<1>7. \A m \in 1 .. n + 1 :
        View(ents[Append(l, i)[m]]) = IF m = n + 1 THEN View(ents[i]) ELSE v[m]
  BY <1>1, <1>2, <1>6 DEF n
<1> QED BY <1>4, <1>5, <1>7

\* What the list of answers is, now and after a step.
LEMMA ListNow == IInv => [i \in DOMAIN lru |-> Listed(lru[i])] = Viewed(lru, entries)
<1> SUFFICES ASSUME IInv PROVE \A i \in DOMAIN lru : Listed(lru[i]) = View(entries[lru[i]])
  BY DEF Viewed
<1> QED BY ListIsViewed DEF IInv, Stored, IndexesMatch, Recent, Listed

LEMMA ListNext == IInv' => [i \in DOMAIN lru |-> Listed(lru[i])]' = Viewed(lru', entries')
<1>1. [i \in DOMAIN lru |-> Listed(lru[i])]' = [i \in DOMAIN lru' |->
         [scope |-> entries'[lru'[i]].scope, question |-> indexes'[entries'[lru'[i]].scope][lru'[i]],
          answer |-> entries'[lru'[i]].answer, age |-> entries'[lru'[i]].age]]
  BY DEF Listed
<1>2. IInv' => /\ Lists(lru', DOMAIN entries') /\ Indexed(indexes', entries')
               /\ entries' \in [DOMAIN entries' -> Entry]
  BY DEF IInv, Stored, IndexesMatch, Recent
<1>3. PICK l, idx, ents : l = lru' /\ idx = indexes' /\ ents = entries'
  OBVIOUS
<1> SUFFICES ASSUME IInv' PROVE
       \A i \in DOMAIN l : [scope |-> ents[l[i]].scope, question |-> idx[ents[l[i]].scope][l[i]],
               answer |-> ents[l[i]].answer, age |-> ents[l[i]].age] = View(ents[l[i]])
  BY <1>1, <1>3 DEF Viewed
<1> QED BY <1>2, <1>3, ListIsViewed

\* The abstract store's operators, in terms of the cache.
LEMMA PromiseTerms ==
    ASSUME IInv
    PROVE  /\ \A s : Promise!Fresh(s)
                     = {i \in DOMAIN lru : entries[lru[i]].scope = s /\ ~ Expired(lru[i])}
           /\ \A q : \A i \in DOMAIN lru :
                 Promise!Close(i, q) = Sim(entries[lru[i]].scope, q, lru[i])
           /\ Promise!StalePlaces = {i \in DOMAIN lru : Expired(lru[i])}
           /\ \A gone : Promise!Without(gone) = Sublist(Viewed(lru, entries), DOMAIN lru \ gone)
           /\ Promise!None = None
<1>1. ASSUME NEW s
      PROVE  Promise!Fresh(s)
                     = {i \in DOMAIN lru : entries[lru[i]].scope = s /\ ~ Expired(lru[i])}
  BY DEF Promise!Fresh, Promise!Stale, Listed, Expired
<1>2. ASSUME NEW q, NEW i \in DOMAIN lru
      PROVE  Promise!Close(i, q) = Sim(entries[lru[i]].scope, q, lru[i])
  BY DEF Promise!Close, Listed, Sim
<1>3. Promise!StalePlaces = {i \in DOMAIN lru : Expired(lru[i])}
  BY DEF Promise!StalePlaces, Promise!Stale, Listed, Expired
<1>4. ASSUME NEW gone
      PROVE  Promise!Without(gone) = Sublist(Viewed(lru, entries), DOMAIN lru \ gone)
  <2>1. Promise!Without(gone)
           = Promise!Sublist([i \in DOMAIN lru |-> Listed(lru[i])],
                             DOMAIN [i \in DOMAIN lru |-> Listed(lru[i])] \ gone)
    BY DEF Promise!Without
  <2>2. DOMAIN Viewed(lru, entries) = DOMAIN lru
    BY DEF Viewed
  <2>3. [i \in DOMAIN lru |-> Listed(lru[i])] = Viewed(lru, entries)
    BY ListNow
  <2>4. Promise!Without(gone) = Promise!Sublist(Viewed(lru, entries), DOMAIN lru \ gone)
    BY <2>1, <2>2, <2>3
  <2> QED BY <2>4, PromisedSublist
<1>5. Promise!None = None
  BY DEF Promise!None, None
<1> QED BY <1>1, <1>2, <1>3, <1>4, <1>5

\* Cutting the recency order cuts the list of answers at the same places.
LEMMA SkippedView ==
    ASSUME NEW l, NEW ids, Lists(l, ids), NEW gone, NEW ents, NEW ents2,
           \A id \in ids \ gone : ents2[id] = ents[id]
    PROVE  Viewed(SkipThese(l, gone), ents2) = Sublist(Viewed(l, ents), Staying(l, gone))
<1>1. PICK n \in Nat : DOMAIN l = 1 .. n
  BY DEF Lists
<1>2. PICK places \in SUBSET (1 .. n) : places = Staying(l, gone)
  BY <1>1 DEF Staying
<1>3. SameAt(l, places, ents, ents2) /\ places \subseteq 1 .. n
  BY <1>2 DEF Staying, Lists, SameAt
<1>4. SkipThese(l, gone) = Sublist(l, places)
  BY <1>2 DEF SkipThese, Staying
<1>5. Viewed(Sublist(l, places), ents2) = Sublist(Viewed(l, ents), places)
  BY <1>1, <1>3, ViewedSublist
<1> QED BY <1>2, <1>4, <1>5

\* Every step is one of the abstract store, or none.
LEMMA GetMapped == ASSUME IInv, IInv', NEW c \in Clients, Get(c) PROVE Promise!Ask(c)
<1>1. PICK r \in Requests : \E top \in Nearest(r.scope, r.question) : \E gone, first :
        Searched(c, r, top, gone, first)
  BY GetSearches
<1>2. PICK top \in Nearest(r.scope, r.question) : \E gone, first : Searched(c, r, top, gone, first)
  BY <1>1
<1>3. PICK gone, first : Searched(c, r, top, gone, first)
  BY <1>2
<1> DEFINE hit == {i \in first : CloseEnough(r.scope, r.question, i)}
           places == {n \in DOMAIN lru : lru[n] \in gone}
           list == [i \in DOMAIN lru |-> Listed(lru[i])]
<1>4. /\ Walk(r.scope, r.question, top, gone, first)
      /\ lru' = Touched(gone, hit)
      /\ clients' = [clients EXCEPT ![c] =
            IF hit = {}
            THEN [pc |-> "asking", request |-> r, reply |-> None]
            ELSE [pc |-> "idle", request |-> r,
                  reply |-> entries[CHOOSE i \in hit : TRUE].answer]]
      /\ entries' = Without(entries, gone)
  BY <1>3 DEF Searched
<1>5. /\ gone \subseteq DOMAIN entries /\ first \subseteq DOMAIN entries \ gone
      /\ first = {} \/ \E f : first = {f}
  <2>1. StopsAtOne(gone, first)
    BY <1>3, WalkStops DEF Searched
  <2> QED BY <2>1 DEF StopsAtOne
<1>6. lru \in Seq(Nat) /\ Lists(lru, DOMAIN entries)
  BY DEF IInv, Recent
<1>7. list' = Viewed(lru', entries') /\ list = Viewed(lru, entries)
  BY ListNow, ListNext
<1>8. \A id \in DOMAIN entries \ gone : entries'[id] = entries[id]
  BY <1>4 DEF Without
<1>9. clients[c].pc = "idle"
  BY DEF Get
<1>10. places \in SUBSET Promise!StalePlaces
  <2>1. \A i \in gone : Expired(i)
    BY <1>4 DEF Walk
  <2> QED BY <2>1, PromiseTerms
<1> HIDE DEF list
<1>11. CASE hit = {}
  <2>1. lru' = SkipThese(lru, gone)
    BY <1>4, <1>6, <1>11, TouchedIs
  <2>2. Viewed(lru', entries') = Sublist(Viewed(lru, entries), Staying(lru, gone))
    BY <1>6, <1>8, <2>1, SkippedView
  <2>3. Staying(lru, gone) = DOMAIN lru \ places
    BY DEF Staying
  <2>4. list' = Promise!Without(places)
    <3> HIDE DEF places
    <3> QED BY <1>7, <2>2, <2>3, PromiseTerms
  <2>5. clients' = [clients EXCEPT ![c] = [pc |-> "asking", request |-> r, reply |-> Promise!None]]
    BY <1>4, <1>11, PromiseTerms
  <2> HIDE DEF places
  <2>6. Promise!Send(c, r)
    BY <1>10, <2>4, <2>5 DEF Promise!Send, list
  <2> QED BY <1>9, <2>6 DEF Promise!Ask
<1>12. CASE hit # {}
  <2>1. PICK f \in first : hit = {f} /\ first = {f}
    BY <1>5, <1>12
  <2>2. f \in DOMAIN entries \ gone /\ f \in Nat
    BY <1>5, <2>1 DEF IInv, Stored
  <2>3. PICK i \in DOMAIN lru : lru[i] = f
    BY <1>6, <2>2 DEF Lists
  <2>4. i \in Promise!Fresh(r.scope) /\ Promise!Close(i, r.question) >= Threshold
    <3>1. f \in top /\ ~ Expired(f)
      BY <1>4, <2>1 DEF Walk
    <3>2. entries[f].scope = r.scope
      BY <3>1, IndexedSim DEF Nearest
    <3>3. Sim(r.scope, r.question, f) >= Threshold
      BY <2>1 DEF CloseEnough
    <3> QED BY <2>3, <3>1, <3>2, <3>3, PromiseTerms
  <2>5. \A j \in Promise!Fresh(r.scope) : Promise!Close(j, r.question) <= Promise!Close(i, r.question)
    <3> TAKE j \in Promise!Fresh(r.scope)
    <3>1. /\ j \in DOMAIN lru /\ entries[lru[j]].scope = r.scope /\ ~ Expired(lru[j])
          /\ entries[f].scope = r.scope
      BY <2>3, <2>4, PromiseTerms
    <3>2. PICK g \in DOMAIN entries : g = lru[j]
      BY <1>6, <3>1 DEF Lists
    <3>3. /\ g \in DOMAIN indexes[r.scope] /\ Sim(r.scope, r.question, g) \in Nat
          /\ f \in DOMAIN indexes[r.scope] /\ Sim(r.scope, r.question, f) \in Nat
      BY <2>2, <3>1, <3>2, IndexedSim
    <3>4. Sim(r.scope, r.question, g) <= Sim(r.scope, r.question, f)
      <4>1. CASE g \in top
        <5>1. g \in {x \in top \cap DOMAIN entries : ~ Expired(x)}
          BY <3>1, <3>2, <4>1
        <5> QED BY <1>4, <2>1, <5>1 DEF Walk
      <4>2. CASE g \notin top
        <5>1. f \in top
          BY <1>4, <2>1 DEF Walk
        <5>2. Sim(r.scope, r.question, f) >= Sim(r.scope, r.question, g)
          BY <3>3, <4>2, <5>1 DEF Nearest
        <5> QED BY <3>3, <5>2
      <4> QED BY <4>1, <4>2
    <3> QED BY <2>3, <3>1, <3>2, <3>4, PromiseTerms
  <2>6. list' = Append(Promise!Without(places \cup {i}), list[i])
    <3>1. PICK l \in Seq(Nat) : l = SkipThese(lru, gone \cup {f}) /\ lru' = Append(l, f)
      BY <1>4, <1>6, <2>1, <2>2, TouchedIs
    <3>2. \A id \in DOMAIN entries \ (gone \cup {f}) : entries'[id] = entries[id]
      BY <1>8
    <3>3. Viewed(l, entries') = Sublist(Viewed(lru, entries), Staying(lru, gone \cup {f}))
      BY <1>6, <3>1, <3>2, SkippedView
    <3>4. Staying(lru, gone \cup {f}) = DOMAIN lru \ (places \cup {i})
      BY <1>6, <2>3 DEF Staying, Lists
    <3> HIDE DEF places
    <3>5. Viewed(l, entries') = Promise!Without(places \cup {i})
      BY <3>3, <3>4, PromiseTerms
    <3>6. Viewed(lru', entries') = Append(Viewed(l, entries'), View(entries'[f]))
      BY <2>2, <3>1, ViewedAppend
    <3>7. list[i] = View(entries'[f])
      BY <1>7, <1>8, <2>2, <2>3 DEF Viewed
    <3> QED BY <1>7, <3>5, <3>6, <3>7
  <2>7. clients' = [clients EXCEPT ![c] = [pc |-> "idle", request |-> r, reply |-> list[i].answer]]
    <3>1. (CHOOSE x \in hit : TRUE) = f
      BY <2>1
    <3>2. list[i].answer = entries[f].answer
      BY <1>7, <2>3 DEF Viewed, View
    <3> HIDE DEF hit
    <3> QED BY <1>4, <1>12, <3>1, <3>2
  <2> HIDE DEF places
  <2>8. Promise!Serve(c, r)
    BY <1>10, <2>4, <2>5, <2>6, <2>7 DEF Promise!Serve, list
  <2> QED BY <1>9, <2>8 DEF Promise!Ask
<1> QED BY <1>11, <1>12

LEMMA SetMapped == ASSUME IInv, IInv', NEW c \in Clients, Set(c) PROVE Promise!Keep(c)
<1>1. PICK r \in Requests : r = clients[c].request /\ clients[c].pc = "asking"
  BY DEF IInv, Asking, Set
<1> DEFINE e == [scope |-> r.scope, answer |-> r, age |-> 0]
           all == With(entries, nextId, e)
           ids == Append(lru, nextId)
           evicted == {ids[i] : i \in 1 .. Excess(ids)}
           list == [i \in DOMAIN lru |-> Listed(lru[i])]
           new == [scope |-> r.scope, question |-> r.question, answer |-> r, age |-> 0]
           longer == Append(list, new)
           n == Len(lru) + 1
<1>2. /\ entries' = Without(all, evicted) /\ lru' = SkipThese(ids, evicted)
      /\ clients' = [clients EXCEPT ![c].pc = "idle", ![c].reply = r]
  BY <1>1 DEF Set
<1>3. /\ lru \in Seq(Nat) /\ Lists(lru, DOMAIN entries)
      /\ nextId \in Nat /\ nextId \notin DOMAIN entries
  BY DEF IInv, Recent, Stored
<1>4. ids \in Seq(Nat) /\ Lists(ids, DOMAIN entries \cup {nextId}) /\ Len(ids) = n /\ n \in Nat
  <2>1. Lists(ids, DOMAIN entries \cup {nextId}) /\ ids \in Seq(Nat)
    BY <1>3, AppendedLists
  <2>2. Len(ids) = Len(lru) + 1 /\ Len(lru) \in Nat
    BY <1>3
  <2> QED BY <2>1, <2>2
<1>5. list' = Viewed(lru', entries') /\ list = Viewed(lru, entries)
  BY ListNow, ListNext
<1>6. longer = Viewed(ids, all)
  <2>1. /\ all[nextId] = e /\ \A id \in DOMAIN entries : all[id] = entries[id]
    BY <1>3 DEF With
  <2>2. Viewed(ids, all) = Append(Viewed(lru, all), View(all[nextId]))
    <3> HIDE DEF all
    <3> QED BY <1>3, ViewedAppend
  <2>3. Viewed(lru, all) = Viewed(lru, entries)
    <3>1. \A i \in DOMAIN lru : all[lru[i]] = entries[lru[i]]
      BY <1>3, <2>1 DEF Lists
    <3> HIDE DEF all
    <3> QED BY <3>1 DEF Viewed
  <2>4. View(all[nextId]) = new
    BY <2>1 DEF View
  <2> HIDE DEF list, all, new
  <2> QED BY <1>5, <2>2, <2>3, <2>4
<1>7. PICK k \in 0 .. n : /\ k = Excess(ids) /\ Staying(ids, evicted) = k + 1 .. n
  <2>1. PICK seq \in Seq(Nat) : seq = ids
    BY <1>4
  <2>2. PICK gone : gone = evicted
    OBVIOUS
  <2>3. gone = {seq[i] : i \in 1 .. Excess(seq)}
    BY <2>1, <2>2
  <2>4. Excess(seq) \in 0 .. Len(seq) /\ Staying(seq, gone) = Excess(seq) + 1 .. Len(seq)
    BY <1>4, <2>1, <2>3, EvictedFirst
  <2> HIDE DEF ids, evicted, n
  <2> QED BY <1>4, <2>1, <2>2, <2>4
<1>8. Viewed(lru', entries') = Sublist(longer, k + 1 .. n)
  <2>1. \A id \in (DOMAIN entries \cup {nextId}) \ evicted : Without(all, evicted)[id] = all[id]
    BY DEF Without, With
  <2> HIDE DEF ids, evicted, all, longer, n
  <2>2. Viewed(SkipThese(ids, evicted), Without(all, evicted)) = Sublist(Viewed(ids, all), Staying(ids, evicted))
    BY <1>4, <2>1, SkippedView
  <2> QED BY <1>2, <1>6, <1>7, <2>2
<1>9. Len(longer) = n
  <2>1. DOMAIN Viewed(ids, all) = DOMAIN ids
    BY DEF Viewed
  <2>2. DOMAIN longer = 1 .. n
    <3> HIDE DEF ids, all, longer
    <3> QED BY <1>4, <1>6, <2>1
  <2> HIDE DEF longer, n
  <2> QED BY <1>4, <2>2
<1>10. SubSeq(longer, k + 1, n) = [m \in 1 .. n - k |-> longer[k + m]]
  <2> HIDE DEF longer, n
  <2>1. SubSeq(longer, k + 1, n) = [m \in 1 .. 1 + n - (k + 1) |-> longer[m + (k + 1) - 1]]
    <3>1. PICK from \in Int : from = k + 1 /\ n \in Int
      BY <1>4, <1>7
    <3>2. SubSeq(longer, from, n) = [m \in 1 .. 1 + n - from |-> longer[m + from - 1]]
      BY <3>1
    <3> QED BY <3>1, <3>2
  <2>2. 1 + n - (k + 1) = n - k /\ \A m \in 1 .. n - k : m + (k + 1) - 1 = k + m
    BY <1>4, <1>7
  <2> QED BY <2>1, <2>2
<1>11. list' = SubSeq(longer, k + 1, Len(longer))
  <2> HIDE DEF longer, n, list
  <2>1. Sublist(longer, k + 1 .. n) = [m \in 1 .. n - k |-> longer[k + m]]
    <3>1. n \in Nat /\ k \in 0 .. n
      BY <1>4
    <3> QED BY <3>1, SublistSuffix, Zenon
  <2> QED BY <1>5, <1>8, <1>9, <1>10, <2>1
<1>12. k = IF Len(longer) > MaxEntries THEN Len(longer) - MaxEntries ELSE 0
  BY <1>4, <1>7, <1>9 DEF Excess
<1> HIDE DEF ids, evicted, all, n
<1> QED BY <1>1, <1>2, <1>11, <1>12 DEF Promise!Keep

LEMMA PassMapped == ASSUME IInv, IInv', Tick PROVE Promise!Pass
<1> DEFINE list == [i \in DOMAIN lru |-> Listed(lru[i])]
<1>1. /\ entries' = [i \in DOMAIN entries |-> [entries[i] EXCEPT !.age = Least(@ + 1, TTL)]]
      /\ lru' = lru /\ clients' = clients
  BY DEF Tick
<1>2. list' = Viewed(lru', entries') /\ list = Viewed(lru, entries)
  BY ListNow, ListNext
<1>3. ASSUME NEW i \in DOMAIN lru PROVE View(entries'[lru[i]]) = Promise!Age(View(entries[lru[i]]))
  <2>1. PICK id \in DOMAIN entries : id = lru[i]
    BY DEF IInv, Recent, Lists
  <2>2. PICK e \in Entry : e = entries[id]
    BY DEF IInv, Stored
  <2>3. e.age \in Nat /\ e.age <= TTL /\ TTL \in Nat
    BY <2>2, CacheAssumption DEF Entry
  <2>4. entries'[id] = [e EXCEPT !.age = Least(e.age + 1, TTL)]
    BY <1>1, <2>2
  <2>5. Least(e.age + 1, TTL) = IF e.age < TTL THEN e.age + 1 ELSE e.age
    BY <2>3 DEF Least
  <2>6. View(entries'[id]) = [scope |-> e.scope, question |-> e.answer.question,
                              answer |-> e.answer, age |-> Least(e.age + 1, TTL)]
    BY <2>2, <2>4 DEF View, Entry
  <2>7. Promise!Age(View(e)) = [scope |-> e.scope, question |-> e.answer.question,
                                answer |-> e.answer, age |-> IF e.age < TTL THEN e.age + 1 ELSE e.age]
    BY DEF Promise!Age, View
  <2> QED BY <2>1, <2>2, <2>5, <2>6, <2>7
<1>4. DOMAIN list = DOMAIN lru /\ \A i \in DOMAIN lru : list[i] = View(entries[lru[i]])
  BY <1>2 DEF Viewed
<1> HIDE DEF list
<1>5. list' = [i \in DOMAIN list |-> Promise!Age(list[i])]
  BY <1>1, <1>2, <1>3, <1>4 DEF Viewed
<1> QED BY <1>1, <1>5 DEF Promise!Pass, list

\* To its clients the cache is one bounded list of answers in the order of their
\* last use, whatever the requests, their overlap and the similarity.
THEOREM Implements == Spec => IsAnswerStore
<1>1. Init => Promise!Init
  <2> SUFFICES ASSUME Init PROVE Promise!Init
    OBVIOUS
  <2>1. lru = << >> /\ DOMAIN lru = {}
    BY DEF Init
  <2>2. [i \in DOMAIN lru |-> Listed(lru[i])] = << >>
    BY <2>1
  <2> QED BY <2>2 DEF Init, Promise!Init, Promise!None, None
<1>2. IInv /\ IInv' /\ [Next]_vars => [Promise!Next]_Promise!vars
  <2> SUFFICES ASSUME IInv, IInv', [Next]_vars PROVE Promise!Next \/ UNCHANGED Promise!vars
    OBVIOUS
  <2>1. CASE Tick
    BY <2>1, PassMapped DEF Promise!Next
  <2>2. ASSUME NEW c \in Clients, Get(c) PROVE Promise!Next
    BY <2>2, GetMapped DEF Promise!Next
  <2>3. ASSUME NEW c \in Clients, Set(c) PROVE Promise!Next
    BY <2>3, SetMapped DEF Promise!Next
  <2>4. ASSUME NEW c \in Clients, Fail(c) PROVE Promise!Next
    <3>1. UNCHANGED <<indexes, entries, lru>>
      BY <2>4 DEF Fail
    <3>2. [i \in DOMAIN lru |-> Listed(lru[i])]' = [i \in DOMAIN lru |-> Listed(lru[i])]
      BY <3>1 DEF Listed
    <3>3. Promise!Leave(c)
      BY <2>4, <3>2 DEF Fail, Promise!Leave
    <3> QED BY <3>3 DEF Promise!Next
  <2>5. CASE UNCHANGED vars
    <3>1. UNCHANGED <<indexes, entries, lru, clients>>
      BY <2>5 DEF vars
    <3> QED BY <3>1 DEF Promise!vars, Listed
  <2> QED BY <2>1, <2>2, <2>3, <2>4, <2>5 DEF Next
<1> QED BY <1>1, <1>2, Inductive, PTL DEF Spec, IsAnswerStore
=============================================================================
