----------------------------- MODULE AnswerStore -----------------------------
(***************************************************************************)
(* What the semantic cache promises its clients: one list of answers in    *)
(* the order of their last use, the least recent first, at most MaxEntries *)
(* long.  A client is only ever served a fresh answer from its own scope   *)
(* to a question like its own, and no fresh answer is closer than that.    *)
(* There are no ids, vector indexes or expiry stamps here.                 *)
(*                                                                         *)
(* SemanticCache.tla is shown to implement this.                           *)
(***************************************************************************)
EXTENDS Integers, Sequences, FiniteSets, Sublist

CONSTANTS Clients, Requests, Similarity, Threshold, TTL, MaxEntries

VARIABLES
    store,      \* sequence of answers [scope, question, answer, age]
    clients     \* client -> [pc, request, reply]

vars == <<store, clients>>

None == [scope |-> "none", question |-> "none"]

Init ==
    /\ store = << >>
    /\ clients = [c \in Clients |->
          [pc |-> "idle", request |-> None, reply |-> None]]

Stale(e) == TTL > 0 /\ e.age >= TTL

\* The list without the places in gone.
Without(gone) == Sublist(store, DOMAIN store \ gone)

StalePlaces == {i \in DOMAIN store : Stale(store[i])}

Fresh(scope) == {i \in DOMAIN store : store[i].scope = scope /\ ~ Stale(store[i])}

Close(i, question) == Similarity[question][store[i].question]

\* A fresh answer, close enough and second to none, is served and becomes the
\* most recent.
Serve(c, r) ==
    \E i \in Fresh(r.scope), gone \in SUBSET StalePlaces :
        /\ Close(i, r.question) >= Threshold
        /\ \A j \in Fresh(r.scope) : Close(j, r.question) <= Close(i, r.question)
        /\ store' = Append(Without(gone \cup {i}), store[i])
        /\ clients' = [clients EXCEPT
              ![c] = [pc |-> "idle", request |-> r, reply |-> store[i].answer]]

\* No answer is served; the client goes and gets one.
Send(c, r) ==
    \E gone \in SUBSET StalePlaces :
        /\ store' = Without(gone)
        /\ clients' = [clients EXCEPT
              ![c] = [pc |-> "asking", request |-> r, reply |-> None]]

Ask(c) ==
    /\ clients[c].pc = "idle"
    /\ \E r \in Requests : Serve(c, r) \/ Send(c, r)

\* The client has its answer and leaves it here; the least recent makes room.
Keep(c) ==
    /\ clients[c].pc = "asking"
    /\ LET r      == clients[c].request
           longer == Append(store, [scope |-> r.scope, question |-> r.question,
                                    answer |-> r, age |-> 0])
           excess == IF Len(longer) > MaxEntries THEN Len(longer) - MaxEntries ELSE 0
       IN  /\ store' = SubSeq(longer, excess + 1, Len(longer))
           /\ clients' = [clients EXCEPT ![c].pc = "idle", ![c].reply = r]

Leave(c) ==
    /\ clients[c].pc = "asking"
    /\ clients' = [clients EXCEPT ![c].pc = "idle"]
    /\ UNCHANGED store

Age(e) == [e EXCEPT !.age = IF @ < TTL THEN @ + 1 ELSE @]

Pass ==
    /\ store' = [i \in DOMAIN store |-> Age(store[i])]
    /\ UNCHANGED clients

Next ==
    \/ Pass
    \/ \E c \in Clients : Ask(c) \/ Keep(c) \/ Leave(c)

Spec == Init /\ [][Next]_vars
=============================================================================
