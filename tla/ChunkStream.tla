----------------------------- MODULE ChunkStream -----------------------------
(***************************************************************************)
(* What a streamed answer promises to the client and to the accounting     *)
(* (the docstring of gateway/streaming/sse.py): the provider's chunks, in  *)
(* order and without a gap; then perhaps [DONE]; and one settlement, which *)
(* says what the chunks reported only if the client took all of them.      *)
(***************************************************************************)
EXTENDS Naturals, Sequences, FiniteSetsExt

CONSTANTS
    Usages,     \* what a chunk may report as used
    NoUsage     \* a chunk that reports nothing

VARIABLES
    wire,       \* the chunks sent: their number, and the usage they show
    done,       \* was [DONE] sent?
    settled     \* the calls of on_finish

vars == <<wire, done, settled>>

Init == wire = <<>> /\ done = FALSE /\ settled = <<>>

\* The usage of the last chunk on the wire that shows one.
LastUsage ==
    LET shown == {i \in DOMAIN wire : wire[i].usage # NoUsage}
    IN  IF shown = {} THEN NoUsage ELSE wire[Max(shown)].usage

Send ==
    /\ ~ done /\ settled = <<>>
    /\ \E usage \in Usages \cup {NoUsage} :
          wire' = Append(wire, [n |-> Len(wire) + 1, usage |-> usage])
    /\ UNCHANGED <<done, settled>>

Terminate ==
    /\ ~ done /\ settled = <<>>
    /\ done' = TRUE
    /\ UNCHANGED <<wire, settled>>

Settle ==
    /\ settled = <<>>
    /\ \/ done /\ settled' = <<[usage |-> LastUsage, completed |-> TRUE]>>
       \/ settled' = <<[usage |-> NoUsage, completed |-> FALSE]>>
    /\ UNCHANGED <<wire, done>>

Next == Send \/ Terminate \/ Settle

Spec == Init /\ [][Next]_vars
=============================================================================
