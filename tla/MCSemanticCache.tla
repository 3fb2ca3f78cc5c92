-------------------------- MODULE MCSemanticCache --------------------------
EXTENDS SemanticCache, TLC

\* near1 and near2 answer for each other, near2 and edge too; near1 and edge do
\* not, and far is like nothing else.
Alike(a, b) ==
    IF a = b THEN 4
    ELSE CASE {a, b} = {"near1", "near2"} -> 3
           [] {a, b} = {"near2", "edge"}  -> 2
           [] {a, b} = {"near1", "edge"}  -> 1
           [] OTHER -> 0

Prompts == {"near1", "near2", "edge"}

Likeness == [a \in Prompts |-> [b \in Prompts |-> Alike(a, b)]]

Asked == [scope : {"s1"}, question : Prompts] \cup [scope : {"s2"}, question : {"near1"}]

ClientSymmetry == Permutations(Clients)
=============================================================================
