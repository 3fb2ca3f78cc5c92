------------------------------ MODULE Streaming ------------------------------
(***************************************************************************)
(* One streamed answer, from the provider's connection to the client: the  *)
(* adapter's generator (providers/openai_compat.py, and providers/gemini.py*)
(* which keeps a chunk back), the peek at the first chunk (execute_stream  *)
(* in resilience/retry.py), and stream_sse (streaming/sse.py), which the   *)
(* framework iterates.                                                     *)
(*                                                                         *)
(* The generators pull: a chunk is read when the client has taken the one  *)
(* before.  A step runs from one await or yield to the next.  Lines that   *)
(* are blank, not data, malformed or not an object are no chunks: they are *)
(* skipped.  That the stream ends with [DONE] and that the connection just *)
(* ends are the same to the adapter.                                       *)
(***************************************************************************)
EXTENDS Naturals, Sequences, FiniteSetsExt

CONSTANTS
    Usages,     \* what a chunk may report as used
    NoUsage,    \* a chunk that reports nothing
    MaxChunks   \* bound: the chunks of the provider

ASSUME StreamingAssumption ==
    /\ NoUsage \notin Usages
    /\ MaxChunks \in Nat \ {0}

VARIABLES
    gemini,     \* is the adapter Gemini's?
    produced,   \* the usage of each chunk read from the provider
    held,       \* prev: the number of the chunk Gemini's adapter keeps back, or 0
    conn,       \* the httpx stream
    pc,         \* where the answer stands
    first,      \* the chunk that was peeked, or none
    wire,       \* the chunks yielded to the client
    done,       \* was [DONE] yielded?
    usage,      \* the usage that stream_sse has tapped
    completed,
    settled     \* the calls of on_finish

provider == <<gemini, produced, held>>
client == <<wire, done>>
vars == <<gemini, produced, held, conn, pc, first, wire, done, usage, completed, settled>>

Reported == Usages \cup {NoUsage}

Chunk == [n : 1 .. MaxChunks, usage : Reported]

None == [n |-> 0, usage |-> NoUsage]

TypeOK ==
    /\ gemini \in BOOLEAN
    /\ produced \in Seq(Reported) /\ Len(produced) <= MaxChunks
    /\ held \in 0 .. MaxChunks
    /\ conn \in {"none", "open", "released", "abandoned"}
    /\ pc \in {"peeking", "handed", "yielded", "pulling", "closing", "settling",
               "over", "failed", "vanished"}
    /\ first \in Chunk \cup {None}
    /\ wire \in Seq(Chunk)
    /\ done \in BOOLEAN
    /\ usage \in Reported
    /\ completed \in BOOLEAN
    /\ settled \in Seq([usage : Reported, completed : BOOLEAN])

Init ==
    /\ gemini \in BOOLEAN
    /\ produced = <<>> /\ held = 0
    /\ conn = "none"
    /\ pc = "peeking"
    /\ first = None
    /\ wire = <<>> /\ done = FALSE
    /\ usage = NoUsage /\ completed = FALSE
    /\ settled = <<>>

-----------------------------------------------------------------------------
\* stream_sse

\* A chunk: its usage is tapped, then it is yielded.
Yield(chunk) ==
    /\ usage' = IF chunk.usage = NoUsage THEN usage ELSE chunk.usage
    /\ wire' = Append(wire, chunk)
    /\ pc' = "yielded"

\* The adapter hands on a chunk, to execute_stream or to stream_sse.
Deliver(chunk) ==
    \/ /\ pc = "peeking"
       /\ first' = chunk
       /\ pc' = "handed"
       /\ UNCHANGED <<wire, usage>>
    \/ /\ pc = "pulling"
       /\ Yield(chunk)
       /\ UNCHANGED first

\* The adapter's generator is at its end: execute_stream returns no first
\* chunk, stream_sse yields [DONE].
Exhausted ==
    \/ /\ pc = "peeking"
       /\ pc' = "handed"
       /\ UNCHANGED done
    \/ /\ pc = "pulling"
       /\ done' = TRUE
       /\ pc' = "yielded"

\* The framework iterates the response for the first time.
Start ==
    /\ pc = "handed"
    /\ \/ first # None /\ Yield(first)
       \/ first = None /\ pc' = "pulling" /\ UNCHANGED <<wire, usage>>
    /\ UNCHANGED <<provider, conn, first, done, completed, settled>>

\* The client has taken what was yielded.
Resume ==
    /\ pc = "yielded"
    /\ pc' = IF done THEN "closing" ELSE "pulling"
    /\ completed' = done
    /\ UNCHANGED <<provider, conn, first, client, usage, settled>>

DisconnectUnsettled ==                  \* mutant: GeneratorExit passes the finally by
    /\ pc = "yielded"
    /\ pc' = "over"
    /\ UNCHANGED <<provider, conn, first, client, usage, completed, settled>>

\* The client has gone, and the suspended generator is closed.
Disconnect ==
    /\ pc = "yielded"
    /\ pc' = "closing"
    /\ UNCHANGED <<provider, conn, first, client, usage, completed, settled>>

CloseNothing ==                         \* mutant: rest.aclose() is not called
    /\ pc = "closing"
    /\ pc' = "settling"
    /\ UNCHANGED <<provider, conn, first, client, usage, completed, settled>>

\* rest.aclose(): the adapter's generator leaves its async with.  Gemini's has
\* that generator inside it and only drops it: the connection is then closed
\* when the interpreter finalizes the inner generator.
CloseUpstream ==
    /\ pc = "closing"
    /\ pc' = "settling"
    /\ conn' = IF conn # "open" THEN conn ELSE IF gemini THEN "abandoned" ELSE "released"
    /\ UNCHANGED <<provider, first, client, usage, completed, settled>>

SettleAnyway ==                         \* mutant: the usage is given whether completed or not
    /\ pc = "settling"
    /\ settled' = Append(settled, [usage |-> usage, completed |-> completed])
    /\ pc' = "over"
    /\ UNCHANGED <<provider, conn, first, client, usage, completed>>

\* on_finish
Settle ==
    /\ pc = "settling"
    /\ settled' = Append(settled, [usage |-> IF completed THEN usage ELSE NoUsage,
                                   completed |-> completed])
    /\ pc' = "over"
    /\ UNCHANGED <<provider, conn, first, client, usage, completed>>

-----------------------------------------------------------------------------
\* The adapter: what the generator does when it is asked for a chunk.

Asked == pc \in {"peeking", "pulling"}

Connect ==
    /\ pc = "peeking" /\ conn = "none"
    /\ conn' = "open"
    /\ UNCHANGED <<provider, pc, first, client, usage, completed, settled>>

\* No connection, or a status that is no success: execute_stream sees it raised.
Refuse ==
    /\ pc = "peeking" /\ produced = <<>> /\ conn \in {"none", "open"}
    /\ conn' = IF conn = "open" THEN "released" ELSE conn
    /\ pc' = "failed"
    /\ UNCHANGED <<provider, first, client, usage, completed, settled>>

ReadAhead ==                            \* mutant: chunks are read while the client is slow
    /\ Asked \/ (pc = "yielded" /\ ~ done)
    /\ conn = "open"
    /\ Len(produced) < MaxChunks
    /\ \E u \in Reported : produced' = Append(produced, u)
    /\ IF Asked /\ ~ gemini THEN Deliver([n |-> Len(wire) + 1, usage |-> produced'[Len(wire) + 1]])
       ELSE UNCHANGED <<pc, first, wire, usage>>
    /\ UNCHANGED <<gemini, held, conn, done, completed, settled>>

ReadKeepingUsage ==                     \* mutant: the usage of a chunk kept back stays
    /\ Asked /\ conn = "open"
    /\ Len(produced) < MaxChunks
    /\ \E u \in Reported : produced' = Append(produced, u)
    /\ IF ~ gemini
       THEN Deliver([n |-> Len(produced'), usage |-> produced'[Len(produced')]]) /\ UNCHANGED held
       ELSE /\ held' = Len(produced')
            /\ IF held = 0 THEN UNCHANGED <<pc, first, wire, usage>>
               ELSE Deliver([n |-> held, usage |-> produced[held]])
    /\ UNCHANGED <<gemini, conn, done, completed, settled>>

\* A chunk arrives.  Gemini's adapter keeps it back and hands on the one it
\* had, which is then not the last, without its usage.
Read ==
    /\ Asked /\ conn = "open"
    /\ Len(produced) < MaxChunks
    /\ \E u \in Reported : produced' = Append(produced, u)
    /\ IF ~ gemini
       THEN Deliver([n |-> Len(produced'), usage |-> produced'[Len(produced')]]) /\ UNCHANGED held
       ELSE /\ held' = Len(produced')
            /\ IF held = 0 THEN UNCHANGED <<pc, first, wire, usage>>
               ELSE Deliver([n |-> held, usage |-> NoUsage])
    /\ UNCHANGED <<gemini, conn, done, completed, settled>>

EndDropping ==                          \* mutant: the chunk kept back is forgotten
    /\ Asked /\ conn = "open"
    /\ conn' = "released"
    /\ held' = 0
    /\ Exhausted /\ UNCHANGED <<first, wire, usage>>
    /\ UNCHANGED <<gemini, produced, completed, settled>>

\* [DONE], or the end of the response; a chunk kept back is the last.
End ==
    /\ Asked /\ conn = "open"
    /\ conn' = "released"
    /\ held' = 0
    /\ IF held # 0
       THEN Deliver([n |-> held, usage |-> produced[held]]) /\ UNCHANGED done
       ELSE Exhausted /\ UNCHANGED <<first, wire, usage>>
    /\ UNCHANGED <<gemini, produced, completed, settled>>

\* The generator has returned, or has nothing after the chunk kept back.
Drained ==
    /\ pc = "pulling" /\ conn = "released"
    /\ Exhausted
    /\ UNCHANGED <<provider, conn, first, wire, usage, completed, settled>>

\* httpx raises within the body, or the client's end cancels the await: before
\* the first chunk execute_stream sees it, later the finally of stream_sse.
Break ==
    /\ Asked /\ conn = "open"
    /\ conn' = "released"
    /\ pc' = IF pc = "peeking" THEN "failed" ELSE "closing"
    /\ held' = 0
    /\ UNCHANGED <<gemini, produced, first, client, usage, completed, settled>>

\* The client is gone before the response is iterated: no finally runs.
Vanish ==
    /\ pc = "handed"
    /\ pc' = "vanished"
    /\ conn' = IF conn = "open" THEN "abandoned" ELSE conn
    /\ UNCHANGED <<provider, first, client, usage, completed, settled>>

\* The event loop closes a generator that nothing refers to.
Finalize ==
    /\ conn = "abandoned"
    /\ conn' = "released"
    /\ UNCHANGED <<provider, pc, first, client, usage, completed, settled>>

Next ==
    \/ Start \/ Resume \/ Disconnect \/ CloseUpstream \/ Settle
    \/ Connect \/ Refuse \/ Read \/ End \/ Drained \/ Break
    \/ Vanish \/ Finalize

Spec == Init /\ [][Next]_vars

\* httpx's timeouts end every wait for the provider, the framework takes what
\* is yielded or closes the generator, and the rest is stream_sse's own code.
Fairness ==
    /\ WF_vars(Connect \/ Refuse \/ Read \/ End \/ Drained \/ Break)
    /\ WF_vars(Resume \/ Disconnect)
    /\ WF_vars(CloseUpstream)
    /\ WF_vars(Settle)
    /\ WF_vars(Finalize)

FairSpec == Spec /\ Fairness

-----------------------------------------------------------------------------
\* Properties.

Promise == INSTANCE ChunkStream

\* To client and accounting the answer is a ChunkStream: nothing is lost,
\* repeated or out of order, [DONE] is last, and on_finish is called at most
\* once, with the usage that the client has been shown.
IsChunkStream == Promise!Spec

\* The last usage the provider reported; Gemini's counts in the last chunk only.
LastReported ==
    LET reporting == {i \in DOMAIN produced :
                        produced[i] # NoUsage /\ (gemini => i = Len(produced))}
    IN  IF reporting = {} THEN NoUsage ELSE produced[Max(reporting)]

\* A completed answer is all that the provider sent, and is settled by the last
\* usage the provider reported, Gemini's lookahead and its repeated usage
\* notwithstanding.
WholeWhenCompleted ==
    \A i \in DOMAIN settled : settled[i].completed =>
        Len(wire) = Len(produced) /\ settled[i].usage = LastReported

\* Gemini reports usage in every chunk: the client sees it in the last at most.
UsageOnLastOnly ==
    gemini => \A i \in DOMAIN wire :
        wire[i].usage # NoUsage => wire[i].n = Len(produced) /\ conn # "open"

\* Back-pressure: of what was read from the provider, no more than one chunk is
\* on its way to the client, and one that Gemini's adapter keeps: a slow client
\* stops the reading.
Backpressure == Len(produced) - Len(wire) <= (IF gemini THEN 2 ELSE 1)

\* The connection is given back before the accounting is done, even for a
\* client that leaves in mid-stream.  (A disconnect from Gemini is excepted.)
ReleasedBeforeSettled ==
    \A i \in DOMAIN settled :
        (gemini => settled[i].completed) => conn = "released"

\* Once iterated, an answer is settled, whatever provider and client do.
AlwaysSettled == wire # <<>> \/ done ~> settled # <<>>
=============================================================================
