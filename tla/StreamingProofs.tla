--------------------------- MODULE StreamingProofs ---------------------------
(***************************************************************************)
(* Theorems about Streaming, for any number of chunks and any usage: the   *)
(* type invariant, the safety properties, and that a streamed answer       *)
(* implements ChunkStream.  All follow from one inductive invariant.       *)
(***************************************************************************)
EXTENDS Streaming, TLAPS

-----------------------------------------------------------------------------
\* The inductive invariant.

Live == pc \in {"peeking", "handed", "yielded", "pulling"}

\* The chunks that have left the adapter.
Delivered == Len(wire) + (IF pc = "handed" /\ first # None THEN 1 ELSE 0)

\* Before the response is iterated nothing has been yielded.
EarlyInv ==
    /\ pc \in {"peeking", "handed", "failed", "vanished"} =>
          wire = <<>> /\ ~ done /\ usage = NoUsage
    /\ pc = "peeking" => first = None
    /\ pc = "handed" /\ first # None => first.n = 1

\* What the provider sent is on the wire, in the peek, or kept back.
CountInv ==
    /\ Live => Len(produced) = Delivered + (IF held = 0 THEN 0 ELSE 1)
    /\ Live /\ held # 0 => gemini /\ held = Len(produced) /\ conn = "open"
    /\ Live /\ gemini /\ conn = "open" /\ produced # <<>> => held # 0
    /\ Len(wire) <= Len(produced)

\* Where the connection may be.
ConnInv ==
    /\ conn = "none" => pc \in {"peeking", "failed"} /\ produced = <<>> /\ held = 0
    /\ conn = "abandoned" => pc = "vanished" \/ (gemini /\ pc \in {"settling", "over"})
    /\ pc \in {"settling", "over"} => conn = "released" \/ (gemini /\ ~ completed)

\* A chunk on the wire has its place, and shows the usage it came with; Gemini's
\* only if it is the last.
Shown(n) == IF gemini /\ n # Len(produced) THEN NoUsage ELSE produced[n]

WireInv ==
    /\ \A i \in DOMAIN wire : wire[i].n = i /\ wire[i].usage = Shown(i)
    /\ pc = "handed" /\ first # None => first.usage = Shown(1)

\* The tapped usage is the last that the wire shows.
UsageInv ==
    IF usage = NoUsage THEN \A i \in DOMAIN wire : wire[i].usage = NoUsage
    ELSE \E k \in DOMAIN wire :
            /\ wire[k].usage = usage
            /\ \A i \in DOMAIN wire : wire[i].usage # NoUsage => i <= k

\* [DONE] means that there was no more, and a completed answer has had it.
DoneInv ==
    /\ done => Len(wire) = Len(produced) /\ conn = "released" /\ pc # "pulling"
    /\ completed => done /\ pc \in {"closing", "settling", "over"}

\* The settlement, if it has been made.
SettledInv ==
    settled = IF pc = "over"
              THEN <<[usage |-> IF completed THEN usage ELSE NoUsage, completed |-> completed]>>
              ELSE <<>>

IInv ==
    /\ TypeOK
    /\ EarlyInv /\ CountInv /\ ConnInv /\ WireInv /\ UsageInv /\ DoneInv /\ SettledInv
    /\ Backpressure

-----------------------------------------------------------------------------
\* Lemmas.

\* What a sequence is after Append.
LEMMA Appended ==
    ASSUME NEW S, NEW s \in Seq(S), NEW e \in S
    PROVE  /\ Append(s, e) \in Seq(S)
           /\ Len(s) \in Nat /\ Len(Append(s, e)) = Len(s) + 1
           /\ DOMAIN s = 1 .. Len(s) /\ DOMAIN Append(s, e) = 1 .. Len(s) + 1
           /\ \A i \in 1 .. Len(s) : Append(s, e)[i] = s[i] /\ s[i] \in S
           /\ Append(s, e)[Len(s) + 1] = e
OBVIOUS

\* An answer that has not begun satisfies the invariant.
LEMMA InitInv == Init => IInv
<1> SUFFICES ASSUME Init PROVE IInv
  OBVIOUS
<1> USE StreamingAssumption DEF StreamingAssumption
<1>1. TypeOK
  <2>1. produced \in Seq(Reported) /\ Len(produced) = 0
    BY DEF Init
  <2>2. wire \in Seq(Chunk) /\ settled \in Seq([usage : Reported, completed : BOOLEAN])
    BY DEF Init
  <2>3. held \in 0 .. MaxChunks /\ Len(produced) <= MaxChunks
    BY <2>1 DEF Init
  <2>4. gemini \in BOOLEAN /\ done \in BOOLEAN /\ completed \in BOOLEAN
    BY DEF Init
  <2>5. first \in Chunk \cup {None} /\ usage \in Reported
    BY DEF Init, Reported
  <2> QED BY <2>1, <2>2, <2>3, <2>4, <2>5 DEF Init, TypeOK
<1>2. EarlyInv /\ ConnInv /\ DoneInv /\ SettledInv
  BY DEF Init, EarlyInv, ConnInv, DoneInv, SettledInv
<1>3. CountInv /\ Backpressure
  BY DEF Init, CountInv, Backpressure, Delivered, Live
<1>4. WireInv /\ UsageInv
  BY DEF Init, WireInv, UsageInv
<1> QED BY <1>1, <1>2, <1>3, <1>4 DEF IInv

\* stream_sse yields the next chunk: the wire grows by one that has its place,
\* and the tapped usage is still the last that the wire shows.
LEMMA YieldKeeps ==
    ASSUME TypeOK, UsageInv, NEW chunk \in Chunk, Yield(chunk)
    PROVE  /\ wire' \in Seq(Chunk) /\ Len(wire) \in Nat /\ Len(wire') = Len(wire) + 1
           /\ DOMAIN wire = 1 .. Len(wire) /\ DOMAIN wire' = 1 .. Len(wire) + 1
           /\ \A i \in 1 .. Len(wire) : wire'[i] = wire[i]
           /\ wire'[Len(wire) + 1] = chunk
           /\ usage' \in Reported /\ pc' = "yielded"
           /\ UsageInv'
<1>1. wire \in Seq(Chunk) /\ usage \in Reported /\ wire' = Append(wire, chunk)
  BY DEF TypeOK, Yield
<1>2. /\ wire' \in Seq(Chunk) /\ Len(wire) \in Nat /\ Len(wire') = Len(wire) + 1
      /\ DOMAIN wire = 1 .. Len(wire) /\ DOMAIN wire' = 1 .. Len(wire) + 1
      /\ \A i \in 1 .. Len(wire) : wire'[i] = wire[i] /\ wire[i] \in Chunk
      /\ wire'[Len(wire) + 1] = chunk
  BY <1>1, Appended
<1>3. usage' \in Reported /\ pc' = "yielded"
  BY <1>1 DEF Yield, Chunk
<1>4. UsageInv'
  <2>1. CASE chunk.usage = NoUsage
    <3>1. usage' = usage
      BY <2>1 DEF Yield
    <3>2. CASE usage = NoUsage
      BY <1>2, <2>1, <3>1, <3>2 DEF UsageInv
    <3>3. CASE usage # NoUsage
      <4>1. PICK k \in DOMAIN wire :
               /\ wire[k].usage = usage
               /\ \A i \in DOMAIN wire : wire[i].usage # NoUsage => i <= k
        BY <3>3 DEF UsageInv
      <4>2. k \in DOMAIN wire' /\ wire'[k].usage = usage'
        BY <1>2, <3>1, <4>1
      <4>3. \A i \in DOMAIN wire' : wire'[i].usage # NoUsage => i <= k
        BY <1>2, <2>1, <4>1
      <4> QED BY <3>1, <3>3, <4>2, <4>3 DEF UsageInv
    <3> QED BY <3>2, <3>3
  <2>2. CASE chunk.usage # NoUsage
    <3>1. usage' = chunk.usage
      BY <2>2 DEF Yield
    <3>2. /\ Len(wire) + 1 \in DOMAIN wire'
          /\ wire'[Len(wire) + 1].usage = usage'
          /\ \A i \in DOMAIN wire' : i <= Len(wire) + 1
      BY <1>2, <3>1
    <3> QED BY <2>2, <3>1, <3>2 DEF UsageInv
  <2> QED BY <2>1, <2>2
<1> QED BY <1>2, <1>3, <1>4

\* A step that touches neither chunks nor usage keeps what is said of them.
LEMMA QuietKeeps ==
    ASSUME WireInv, UsageInv, UNCHANGED <<gemini, produced, first, wire, usage>>,
           pc' = "handed" => pc = "handed"
    PROVE  WireInv' /\ UsageInv'
<1>1. WireInv'
  BY DEF WireInv, Shown
<1>2. UsageInv'
  BY DEF UsageInv
<1> QED BY <1>1, <1>2

-----------------------------------------------------------------------------
\* The steps.

\* The control steps: they move pc and the connection only.
LEMMA ControlStep ==
    ASSUME IInv,
           \/ Resume \/ Disconnect \/ CloseUpstream \/ Connect \/ Refuse
           \/ Drained \/ Vanish \/ Finalize
    PROVE  IInv'
<1> USE DEF IInv, provider, client
<1>1. WireInv' /\ UsageInv'
  BY QuietKeeps DEF Resume, Disconnect, CloseUpstream, Connect, Refuse, Drained, Vanish,
                    Finalize, Exhausted
<1>2. TypeOK'
  BY DEF TypeOK, Resume, Disconnect, CloseUpstream, Connect, Refuse, Drained, Vanish,
         Finalize, Exhausted
<1>3. EarlyInv'
  BY DEF EarlyInv, Resume, Disconnect, CloseUpstream, Connect, Refuse, Drained, Vanish,
         Finalize, Exhausted
<1>4. CountInv' /\ Backpressure'
  <2>1. CASE Resume
    BY <2>1 DEF Resume, TypeOK, EarlyInv, CountInv, ConnInv, Backpressure, Live, Delivered
  <2>2. CASE Disconnect
    BY <2>2 DEF Disconnect, TypeOK, EarlyInv, CountInv, ConnInv, Backpressure, Live, Delivered
  <2>3. CASE CloseUpstream
    BY <2>3 DEF CloseUpstream, TypeOK, EarlyInv, CountInv, ConnInv, Backpressure, Live, Delivered
  <2>4. CASE Connect
    BY <2>4 DEF Connect, TypeOK, EarlyInv, CountInv, ConnInv, Backpressure, Live, Delivered
  <2>5. CASE Refuse
    BY <2>5 DEF Refuse, TypeOK, EarlyInv, CountInv, ConnInv, Backpressure, Live, Delivered
  <2>6. CASE Drained
    BY <2>6 DEF Drained, Exhausted, TypeOK, EarlyInv, CountInv, ConnInv, Backpressure, Live, Delivered
  <2>7. CASE Vanish
    BY <2>7 DEF Vanish, TypeOK, EarlyInv, CountInv, ConnInv, Backpressure, Live, Delivered
  <2>8. CASE Finalize
    BY <2>8 DEF Finalize, TypeOK, EarlyInv, CountInv, ConnInv, Backpressure, Live, Delivered
  <2> QED BY <2>1, <2>2, <2>3, <2>4, <2>5, <2>6, <2>7, <2>8
<1>5. ConnInv'
  BY DEF TypeOK, ConnInv, DoneInv, Resume, Disconnect, CloseUpstream, Connect, Refuse, Drained,
         Vanish, Finalize, Exhausted
<1>6. DoneInv'
  <2>1. CASE Resume
    BY <2>1 DEF Resume, TypeOK, EarlyInv, CountInv, ConnInv, DoneInv, Live, Delivered
  <2>2. CASE Disconnect
    BY <2>2 DEF Disconnect, TypeOK, EarlyInv, CountInv, ConnInv, DoneInv, Live, Delivered
  <2>3. CASE CloseUpstream
    BY <2>3 DEF CloseUpstream, TypeOK, EarlyInv, CountInv, ConnInv, DoneInv, Live, Delivered
  <2>4. CASE Connect
    BY <2>4 DEF Connect, TypeOK, EarlyInv, CountInv, ConnInv, DoneInv, Live, Delivered
  <2>5. CASE Refuse
    BY <2>5 DEF Refuse, TypeOK, EarlyInv, CountInv, ConnInv, DoneInv, Live, Delivered
  <2>6. CASE Drained
    BY <2>6 DEF Drained, Exhausted, TypeOK, EarlyInv, CountInv, ConnInv, DoneInv, Live, Delivered
  <2>7. CASE Vanish
    BY <2>7 DEF Vanish, TypeOK, EarlyInv, CountInv, ConnInv, DoneInv, Live, Delivered
  <2>8. CASE Finalize
    BY <2>8 DEF Finalize, TypeOK, EarlyInv, CountInv, ConnInv, DoneInv, Live, Delivered
  <2> QED BY <2>1, <2>2, <2>3, <2>4, <2>5, <2>6, <2>7, <2>8
<1>7. SettledInv'
  BY DEF SettledInv, Resume, Disconnect, CloseUpstream, Connect, Refuse, Drained, Vanish,
         Finalize, Exhausted
<1> QED BY <1>1, <1>2, <1>3, <1>4, <1>5, <1>6, <1>7

\* on_finish is called once, and is the last step.
LEMMA SettleStep == ASSUME IInv, Settle PROVE IInv'
<1> USE DEF IInv, Settle, provider, client
<1>1. WireInv' /\ UsageInv'
  BY QuietKeeps
<1>2. SettledInv' /\ TypeOK'
  BY DEF SettledInv, TypeOK, Reported
<1>3. EarlyInv' /\ CountInv' /\ ConnInv' /\ DoneInv' /\ Backpressure'
  BY DEF TypeOK, EarlyInv, CountInv, ConnInv, DoneInv, Backpressure, Live, Delivered
<1> QED BY <1>1, <1>2, <1>3

\* A break loses the chunk that was kept back, and nothing else.
LEMMA BreakStep == ASSUME IInv, Break PROVE IInv'
<1> USE DEF IInv, Break, Asked, client
<1>1. WireInv' /\ UsageInv'
  BY QuietKeeps
<1>2. TypeOK' /\ EarlyInv' /\ ConnInv' /\ DoneInv' /\ SettledInv'
  BY StreamingAssumption DEF TypeOK, EarlyInv, ConnInv, DoneInv, SettledInv, StreamingAssumption
<1>3. CountInv' /\ Backpressure'
  BY DEF TypeOK, CountInv, Backpressure, Live, Delivered
<1> QED BY <1>1, <1>2, <1>3

\* A chunk that is the next one, and shows what it may, is handed on: to the peek
\* or to the wire.
LEMMA DeliverKeeps ==
    ASSUME IInv, Asked, NEW chunk \in Chunk, Deliver(chunk), done' = done,
           chunk.n = Len(wire) + 1,
           chunk.usage = Shown(chunk.n)',
           \A i \in DOMAIN wire : wire[i].usage = Shown(i)'
    PROVE  /\ wire' \in Seq(Chunk) /\ usage' \in Reported /\ first' \in Chunk \cup {None}
           /\ Len(wire) \in Nat /\ Delivered = Len(wire) /\ Delivered' = Len(wire) + 1
           /\ Len(wire') <= Len(wire) + 1 /\ Len(wire') >= Len(wire)
           /\ \/ pc = "peeking" /\ pc' = "handed"
              \/ pc = "pulling" /\ pc' = "yielded"
           /\ EarlyInv' /\ WireInv' /\ UsageInv'
<1> USE DEF IInv
<1>1. CASE pc = "peeking"
  <2>1. first' = chunk /\ pc' = "handed" /\ UNCHANGED <<wire, usage>> /\ wire = <<>>
    BY <1>1 DEF Deliver, EarlyInv
  <2>2. chunk # None
    BY DEF Chunk, None
  <2>3. EarlyInv'
    BY <1>1, <2>1 DEF EarlyInv
  <2>4. WireInv'
    BY <2>1 DEF WireInv
  <2>5. UsageInv'
    BY <2>1 DEF UsageInv
  <2>6. Len(wire) = 0 /\ Delivered = 0 /\ Delivered' = 1
    BY <1>1, <2>1, <2>2 DEF Delivered
  <2> QED BY <1>1, <2>1, <2>3, <2>4, <2>5, <2>6 DEF TypeOK
<1>2. CASE pc = "pulling"
  <2>1. Yield(chunk) /\ first' = first
    BY <1>2 DEF Deliver
  <2>2. /\ wire' \in Seq(Chunk) /\ Len(wire) \in Nat /\ Len(wire') = Len(wire) + 1
        /\ DOMAIN wire = 1 .. Len(wire) /\ DOMAIN wire' = 1 .. Len(wire) + 1
        /\ \A i \in 1 .. Len(wire) : wire'[i] = wire[i]
        /\ wire'[Len(wire) + 1] = chunk
        /\ usage' \in Reported /\ pc' = "yielded"
        /\ UsageInv'
    BY <2>1, YieldKeeps
  <2>3. WireInv'
    <3> SUFFICES ASSUME NEW i \in DOMAIN wire' PROVE wire'[i].n = i /\ wire'[i].usage = Shown(i)'
      BY <2>2 DEF WireInv
    <3>1. CASE i \in DOMAIN wire
      BY <2>2, <3>1 DEF WireInv
    <3>2. CASE i = Len(wire) + 1
      BY <2>2, <3>2
    <3> QED BY <2>2, <3>1, <3>2
  <2>4. EarlyInv'
    BY <2>2 DEF EarlyInv
  <2>5. Delivered = Len(wire) /\ Delivered' = Len(wire) + 1
    BY <1>2, <2>2 DEF Delivered
  <2> QED BY <1>2, <2>1, <2>2, <2>3, <2>4, <2>5 DEF TypeOK
<1> QED BY <1>1, <1>2 DEF Asked

\* The first chunk, which has been peeked, is the first on the wire.
LEMMA StartStep == ASSUME IInv, Start PROVE IInv'
<1> USE DEF IInv, provider
<1>1. CASE first = None
  <2>1. WireInv' /\ UsageInv'
    BY <1>1, QuietKeeps DEF Start
  <2>2. TypeOK' /\ EarlyInv' /\ ConnInv' /\ SettledInv'
    BY <1>1 DEF Start, TypeOK, EarlyInv, ConnInv, SettledInv
  <2>3. CountInv' /\ Backpressure'
    BY <1>1 DEF Start, TypeOK, CountInv, Backpressure, Live, Delivered
  <2>4. DoneInv'
    BY <1>1 DEF Start, EarlyInv, DoneInv
  <2> QED BY <2>1, <2>2, <2>3, <2>4
<1>2. CASE first # None
  <2>1. first \in Chunk /\ Yield(first) /\ first.n = 1 /\ wire = <<>> /\ ~ done /\ pc = "handed"
    BY <1>2 DEF Start, TypeOK, EarlyInv
  <2>2. /\ wire' \in Seq(Chunk) /\ Len(wire) = 0 /\ Len(wire') = 1 /\ DOMAIN wire' = 1 .. 1
        /\ wire'[1] = first /\ usage' \in Reported /\ pc' = "yielded" /\ UsageInv'
    BY <2>1, YieldKeeps
  <2>3. TypeOK' /\ EarlyInv' /\ ConnInv' /\ SettledInv'
    BY <1>2, <2>2 DEF Start, TypeOK, EarlyInv, ConnInv, SettledInv
  <2>4. WireInv'
    BY <1>2, <2>1, <2>2 DEF Start, WireInv, Shown
  <2>5. CountInv' /\ Backpressure'
    <3>1. Delivered = 1 /\ Delivered' = 1
      BY <1>2, <2>1, <2>2 DEF Delivered
    <3>2. Len(produced) \in Nat /\ held \in Nat
      BY DEF TypeOK
    <3>3. Live /\ Live' /\ UNCHANGED <<gemini, produced, held, conn>>
      BY <2>1, <2>2 DEF Live, Start
    <3>4. CountInv'
      BY <2>2, <3>1, <3>3 DEF CountInv
    <3>5. Backpressure'
      BY <2>2, <3>2, <3>3 DEF Backpressure
    <3> QED BY <3>4, <3>5
  <2>6. DoneInv'
    BY <1>2, <2>1, <2>2 DEF Start, DoneInv
  <2> QED BY <2>2, <2>3, <2>4, <2>5, <2>6
<1> QED BY <1>1, <1>2

\* What is known of the adapter when it is asked.
LEMMA AskedFacts ==
    ASSUME IInv, Asked, conn = "open"
    PROVE  /\ produced \in Seq(Reported) /\ Len(produced) \in Nat
           /\ DOMAIN produced = 1 .. Len(produced)
           /\ Len(wire) \in Nat /\ Delivered = Len(wire)
           /\ held = 0 => Len(produced) = Len(wire)
           /\ held # 0 => gemini /\ held = Len(produced) /\ held = Len(wire) + 1
           /\ gemini /\ held = 0 => Len(produced) = 0
           /\ Live /\ ~ done /\ ~ completed /\ settled = <<>>
<1> USE DEF IInv
<1>1. Delivered = Len(wire) /\ Live /\ ~ done /\ ~ completed /\ settled = <<>>
  BY DEF Asked, Delivered, Live, DoneInv, SettledInv
<1>2. /\ produced \in Seq(Reported) /\ Len(produced) \in Nat
      /\ DOMAIN produced = 1 .. Len(produced) /\ Len(wire) \in Nat
  BY DEF TypeOK
<1>3. gemini /\ held = 0 => Len(produced) = 0
  BY <1>1, <1>2 DEF CountInv
<1>4. /\ held = 0 => Len(produced) = Len(wire)
      /\ held # 0 => gemini /\ held = Len(produced) /\ held = Len(wire) + 1
  <2>1. CASE held = 0
    BY <1>1, <1>2, <2>1 DEF CountInv
  <2>2. CASE held # 0
    <3>1. gemini /\ held = Len(produced)
      BY <1>1, <2>2 DEF CountInv
    <3>2. Len(produced) = Len(wire) + 1
      BY <1>1, <1>2, <2>2 DEF CountInv
    <3> QED BY <2>2, <3>1, <3>2
  <2> QED BY <2>1, <2>2
<1> QED BY <1>1, <1>2, <1>3, <1>4

\* A chunk arrives: the plain adapter hands it on, Gemini's the one before.
LEMMA ReadStep == ASSUME IInv, Read PROVE IInv'
<1> USE DEF IInv
<1> DEFINE L == Len(produced)
<1>1. PICK u \in Reported : produced' = Append(produced, u)
  BY DEF Read
<1>2. /\ Asked /\ conn = "open" /\ L < MaxChunks
      /\ UNCHANGED <<gemini, conn, done, completed, settled>>
  BY DEF Read
<1>3. /\ L \in Nat /\ DOMAIN produced = 1 .. L
      /\ Len(wire) \in Nat /\ Delivered = Len(wire)
      /\ held = 0 => L = Len(wire)
      /\ held # 0 => gemini /\ held = L /\ held = Len(wire) + 1
      /\ gemini /\ held = 0 => L = 0
      /\ Live /\ ~ done /\ ~ completed /\ settled = <<>>
  BY <1>2, AskedFacts
<1>4. /\ produced' \in Seq(Reported) /\ Len(produced') = L + 1
      /\ \A i \in 1 .. L : produced'[i] = produced[i]
      /\ produced'[L + 1] = u
  BY <1>1, Appended DEF TypeOK
<1>5. \A i \in DOMAIN wire : wire[i].usage = Shown(i)'
  <2> SUFFICES ASSUME NEW i \in DOMAIN wire PROVE wire[i].usage = Shown(i)'
    OBVIOUS
  <2>1. i \in 1 .. Len(wire) /\ wire[i].usage = Shown(i)
    BY DEF WireInv, TypeOK
  <2>2. i \in 1 .. L
    BY <1>3, <2>1
  <2>3. CASE gemini
    <3>1. i # L /\ i # L + 1
      BY <1>3, <2>1, <2>2, <2>3
    <3> QED BY <1>2, <1>4, <2>1, <2>3, <3>1 DEF Shown
  <2>4. CASE ~ gemini
    BY <1>2, <1>4, <2>1, <2>2, <2>4 DEF Shown
  <2> QED BY <2>3, <2>4
<1>6. MaxChunks \in Nat /\ NoUsage \in Reported
  BY StreamingAssumption DEF StreamingAssumption, Reported
<1>7. CASE gemini /\ held = 0
  <2>1. held' = L + 1 /\ UNCHANGED <<pc, first, wire, usage>>
    BY <1>4, <1>7 DEF Read
  <2>2. TypeOK'
    <3>1. held' \in 0 .. MaxChunks /\ Len(produced') <= MaxChunks
      BY <1>2, <1>3, <1>4, <1>6, <2>1
    <3> QED BY <1>2, <1>4, <2>1, <3>1 DEF TypeOK
  <2>6. EarlyInv' /\ ConnInv'
    BY <1>2, <2>1 DEF EarlyInv, ConnInv
  <2>7. DoneInv' /\ SettledInv'
    BY <1>2, <1>3, <2>1 DEF DoneInv, SettledInv, Asked
  <2>3. WireInv' /\ UsageInv'
    BY <1>2, <1>5, <2>1 DEF WireInv, UsageInv, Asked
  <2>4. Delivered' = Len(wire') /\ Len(wire') = 0
    BY <1>2, <1>3, <1>7, <2>1 DEF Delivered, Asked
  <2>5. CountInv' /\ Backpressure'
    BY <1>2, <1>3, <1>4, <1>7, <2>1, <2>4 DEF CountInv, Backpressure
  <2> QED BY <2>2, <2>3, <2>5, <2>6, <2>7
<1>8. CASE ~ (gemini /\ held = 0)
  <2>0. PICK chunk : chunk = IF gemini THEN [n |-> L, usage |-> NoUsage]
                             ELSE [n |-> L + 1, usage |-> u]
    OBVIOUS
  <2>1. chunk \in Chunk /\ chunk.n = Len(wire) + 1 /\ chunk.usage = Shown(chunk.n)'
    <3>1. CASE gemini
      <4>1. chunk.n = L /\ chunk.usage = NoUsage /\ held = L /\ L # 0
        BY <1>3, <1>8, <2>0, <3>1
      <4> QED BY <1>2, <1>3, <1>4, <1>6, <2>0, <3>1, <4>1 DEF Chunk, Shown
    <3>2. CASE ~ gemini
      <4>1. chunk.n = L + 1 /\ chunk.usage = u /\ held = 0
        BY <1>3, <2>0, <3>2
      <4> QED BY <1>1, <1>2, <1>3, <1>4, <1>6, <2>0, <3>2, <4>1 DEF Chunk, Shown
    <3> QED BY <3>1, <3>2
  <2>2. Deliver(chunk) /\ held' = IF gemini THEN L + 1 ELSE 0
    <3>1. CASE gemini
      BY <1>3, <1>4, <1>8, <2>0, <3>1 DEF Read
    <3>2. CASE ~ gemini
      BY <1>3, <1>4, <2>0, <3>2 DEF Read
    <3> QED BY <3>1, <3>2
  <2>3. /\ wire' \in Seq(Chunk) /\ usage' \in Reported /\ first' \in Chunk \cup {None}
        /\ Delivered' = Len(wire) + 1
        /\ Len(wire') <= Len(wire) + 1 /\ Len(wire') >= Len(wire)
        /\ \/ pc = "peeking" /\ pc' = "handed"
           \/ pc = "pulling" /\ pc' = "yielded"
        /\ EarlyInv' /\ WireInv' /\ UsageInv'
    BY <1>2, <1>5, <2>1, <2>2, DeliverKeeps
  <2>4. TypeOK'
    <3>1. held' \in 0 .. MaxChunks /\ Len(produced') <= MaxChunks
      BY <1>2, <1>3, <1>4, <1>6, <2>2
    <3>2. pc' \in {"handed", "yielded"}
      BY <2>3
    <3> QED BY <1>2, <1>4, <2>3, <3>1, <3>2 DEF TypeOK
  <2>5. ConnInv' /\ DoneInv' /\ SettledInv'
    BY <1>2, <1>3, <2>3 DEF ConnInv, DoneInv, SettledInv
  <2>6. CountInv' /\ Backpressure'
    <3>1. CASE gemini
      BY <1>2, <1>3, <1>4, <1>8, <2>2, <2>3, <3>1 DEF CountInv, Backpressure
    <3>2. CASE ~ gemini
      <4>1. held' = 0 /\ held = 0 /\ ~ gemini'
        BY <1>2, <1>3, <2>2, <3>2
      <4>2. Len(produced') = Delivered' + 0 /\ Len(wire') <= Len(produced')
        BY <1>3, <1>4, <2>3, <4>1
      <4>3. CountInv'
        BY <4>1, <4>2 DEF CountInv
      <4>4. Backpressure'
        BY <1>3, <1>4, <2>3, <4>1 DEF Backpressure
      <4> QED BY <4>3, <4>4
    <3> QED BY <3>1, <3>2
  <2> QED BY <2>3, <2>4, <2>5, <2>6
<1> QED BY <1>7, <1>8

\* The provider has ended: a chunk kept back is the last, and shows its usage.
LEMMA EndStep == ASSUME IInv, End PROVE IInv'
<1> USE DEF IInv
<1> DEFINE L == Len(produced)
<1>1. /\ Asked /\ conn = "open" /\ conn' = "released" /\ held' = 0
      /\ UNCHANGED <<gemini, produced, completed, settled>>
  BY DEF End
<1>2. /\ L \in Nat /\ DOMAIN produced = 1 .. L /\ produced \in Seq(Reported)
      /\ Len(wire) \in Nat /\ Delivered = Len(wire)
      /\ held = 0 => L = Len(wire)
      /\ held # 0 => gemini /\ held = L /\ held = Len(wire) + 1
      /\ Live /\ ~ done /\ ~ completed /\ settled = <<>>
  BY <1>1, AskedFacts
<1>3. MaxChunks \in Nat
  BY StreamingAssumption DEF StreamingAssumption
<1>4. CASE held = 0
  <2>1. Exhausted /\ UNCHANGED <<first, wire, usage>>
    BY <1>4 DEF End
  <2>2. /\ \/ pc = "peeking" /\ pc' = "handed" /\ done' = done
           \/ pc = "pulling" /\ pc' = "yielded" /\ done' = TRUE
  BY <2>1 DEF Exhausted
  <2>3. TypeOK'
    <3>1. held' \in 0 .. MaxChunks
      BY <1>1, <1>3
    <3>2. pc' \in {"handed", "yielded"} /\ done' \in BOOLEAN
      BY <2>2 DEF TypeOK
    <3> QED BY <1>1, <2>1, <3>1, <3>2 DEF TypeOK
  <2>7. EarlyInv' /\ ConnInv'
    BY <1>1, <2>1, <2>2 DEF EarlyInv, ConnInv
  <2>8. DoneInv' /\ SettledInv'
    BY <1>1, <1>2, <1>4, <2>1, <2>2 DEF DoneInv, SettledInv
  <2>4. WireInv' /\ UsageInv'
    BY <1>1, <2>1, <2>2 DEF WireInv, UsageInv, Shown, EarlyInv
  <2>5. Delivered' = Len(wire')
    BY <2>1, <2>2 DEF Delivered, EarlyInv
  <2>6. CountInv' /\ Backpressure'
    BY <1>1, <1>2, <1>4, <2>1, <2>5 DEF CountInv, Backpressure
  <2> QED BY <2>3, <2>4, <2>6, <2>7, <2>8
<1>5. CASE held # 0
  <2>0. PICK chunk : chunk = [n |-> L, usage |-> produced[L]]
    OBVIOUS
  <2>1. Deliver(chunk) /\ done' = done
    BY <1>2, <1>5, <2>0 DEF End
  <2>2. chunk \in Chunk /\ chunk.n = Len(wire) + 1 /\ chunk.usage = Shown(chunk.n)'
    <3>1. L \in 1 .. MaxChunks /\ produced[L] \in Reported
      BY <1>2, <1>3, <1>5 DEF TypeOK
    <3> QED BY <1>1, <1>2, <1>5, <2>0, <3>1 DEF Chunk, Shown
  <2>3. \A i \in DOMAIN wire : wire[i].usage = Shown(i)'
    BY <1>1 DEF WireInv, Shown
  <2>4. /\ wire' \in Seq(Chunk) /\ usage' \in Reported /\ first' \in Chunk \cup {None}
        /\ Delivered' = Len(wire) + 1
        /\ Len(wire') <= Len(wire) + 1 /\ Len(wire') >= Len(wire)
        /\ \/ pc = "peeking" /\ pc' = "handed"
           \/ pc = "pulling" /\ pc' = "yielded"
        /\ EarlyInv' /\ WireInv' /\ UsageInv'
    BY <1>1, <2>1, <2>2, <2>3, DeliverKeeps
  <2>5. TypeOK'
    <3>1. pc' \in {"handed", "yielded"} /\ held' \in 0 .. MaxChunks
      BY <1>1, <1>3, <2>4
    <3> QED BY <1>1, <2>1, <2>4, <3>1 DEF TypeOK
  <2>6. ConnInv' /\ DoneInv' /\ SettledInv'
    BY <1>1, <1>2, <2>1, <2>4 DEF ConnInv, DoneInv, SettledInv
  <2>7. CountInv' /\ Backpressure'
    BY <1>1, <1>2, <1>5, <2>4 DEF CountInv, Backpressure
  <2> QED BY <2>4, <2>5, <2>6, <2>7
<1> QED BY <1>4, <1>5

\* Every step keeps the invariant.
LEMMA StepInv == IInv /\ [Next]_vars => IInv'
<1> SUFFICES ASSUME IInv, [Next]_vars PROVE IInv'
  OBVIOUS
<1>1. CASE Next
  <2>1. CASE \/ Resume \/ Disconnect \/ CloseUpstream \/ Connect \/ Refuse
             \/ Drained \/ Vanish \/ Finalize
    BY <2>1, ControlStep
  <2>2. CASE Start
    BY <2>2, StartStep
  <2>3. CASE Settle
    BY <2>3, SettleStep
  <2>4. CASE Read
    BY <2>4, ReadStep
  <2>5. CASE End
    BY <2>5, EndStep
  <2>6. CASE Break
    BY <2>6, BreakStep
  <2> QED BY <1>1, <2>1, <2>2, <2>3, <2>4, <2>5, <2>6 DEF Next
<1>2. CASE UNCHANGED vars
  BY <1>2 DEF vars, IInv, TypeOK, EarlyInv, CountInv, ConnInv, WireInv, Shown, UsageInv, DoneInv,
              SettledInv, Backpressure, Live, Delivered
<1> QED BY <1>1, <1>2

\* The invariant holds throughout.
LEMMA Invariant == Spec => []IInv
<1>1. Init => IInv
  BY InitInv
<1>2. IInv /\ [Next]_vars => IInv'
  BY StepInv
<1> QED BY <1>1, <1>2, PTL DEF Spec

\* The greatest of a set of numbers.
LEMMA GreatestIsMax ==
    ASSUME NEW S \in SUBSET Nat, NEW k \in S, \A i \in S : i <= k
    PROVE  Max(S) = k /\ Promise!Max(S) = k
<1>1. \A x \in S : (\A y \in S : x >= y) => x = k
  OBVIOUS
<1>2. \A y \in S : k >= y
  OBVIOUS
<1> QED BY <1>1, <1>2 DEF Max, Promise!Max

\* What stream_sse has tapped is the last usage that the client was shown.
LEMMA TappedIsLast == ASSUME IInv PROVE usage = Promise!LastUsage
<1> USE DEF IInv
<1> DEFINE Shows == {i \in DOMAIN wire : wire[i].usage # NoUsage}
<1>1. Shows \in SUBSET Nat
  BY DEF TypeOK
<1>2. CASE usage = NoUsage
  <2>1. Shows = {}
    BY <1>2 DEF UsageInv
  <2> QED BY <1>2, <2>1 DEF Promise!LastUsage
<1>3. CASE usage # NoUsage
  <2>1. PICK k \in DOMAIN wire :
           /\ wire[k].usage = usage
           /\ \A i \in DOMAIN wire : wire[i].usage # NoUsage => i <= k
    BY <1>3 DEF UsageInv
  <2>2. k \in Shows /\ \A i \in Shows : i <= k
    BY <1>3, <2>1
  <2>3. Promise!Max(Shows) = k
    <3> HIDE DEF Shows
    <3> QED BY <1>1, <2>2, GreatestIsMax
  <2> QED BY <2>1, <2>2, <2>3 DEF Promise!LastUsage
<1> QED BY <1>2, <1>3

\* When all has been delivered, what was shown last is what was reported last.
LEMMA LastShownIsReported ==
    ASSUME IInv, Len(wire) = Len(produced)
    PROVE  usage = LastReported
<1> USE DEF IInv
<1> DEFINE Reporting == {i \in DOMAIN produced :
                           produced[i] # NoUsage /\ (gemini => i = Len(produced))}
<1>1. DOMAIN wire = 1 .. Len(wire) /\ DOMAIN produced = 1 .. Len(wire)
  BY DEF TypeOK
<1>2. \A i \in DOMAIN wire : wire[i].usage # NoUsage <=> i \in Reporting
  BY <1>1 DEF WireInv, Shown
<1>3. Reporting \in SUBSET Nat
  BY DEF TypeOK
<1>4. CASE usage = NoUsage
  <2>1. Reporting = {}
    BY <1>1, <1>2, <1>4 DEF UsageInv
  <2> QED BY <1>4, <2>1 DEF LastReported
<1>5. CASE usage # NoUsage
  <2>1. PICK k \in DOMAIN wire :
           /\ wire[k].usage = usage
           /\ \A i \in DOMAIN wire : wire[i].usage # NoUsage => i <= k
    BY <1>5 DEF UsageInv
  <2>2. k \in Reporting /\ \A i \in Reporting : i <= k
    BY <1>1, <1>2, <1>5, <2>1
  <2>3. Max(Reporting) = k
    <3> HIDE DEF Reporting
    <3> QED BY <1>3, <2>2, GreatestIsMax
  <2>4. produced[k] = usage
    BY <1>5, <2>1 DEF WireInv, Shown
  <2> QED BY <2>2, <2>3, <2>4 DEF LastReported
<1> QED BY <1>4, <1>5

-----------------------------------------------------------------------------
\* The theorems.

\* Whatever the provider sends and whenever the client leaves, the state of
\* stream_sse and its adapters stays within its types; in particular Gemini's
\* lookahead holds the number of a chunk that was read.
THEOREM TypeCorrect == Spec => []TypeOK
<1>1. IInv => TypeOK
  BY DEF IInv
<1> QED BY <1>1, Invariant, PTL

\* An answer that on_finish is told was completed has been delivered whole, and
\* is accounted with the usage the provider reported last, for Gemini the usage
\* of its last chunk.
THEOREM Whole == Spec => []WholeWhenCompleted
<1>1. IInv => WholeWhenCompleted
  <2> SUFFICES ASSUME IInv, NEW i \in DOMAIN settled, settled[i].completed
               PROVE  Len(wire) = Len(produced) /\ settled[i].usage = LastReported
    BY DEF WholeWhenCompleted
  <2>1. /\ settled[i] = [usage |-> IF completed THEN usage ELSE NoUsage, completed |-> completed]
    BY DEF IInv, SettledInv
  <2>2. completed /\ settled[i].usage = usage
    BY <2>1
  <2>3. Len(wire) = Len(produced)
    BY <2>2 DEF IInv, DoneInv
  <2> QED BY <2>2, <2>3, LastShownIsReported
<1> QED BY <1>1, Invariant, PTL

\* Gemini's adapter strips the usage of every chunk but the last, however many
\* there are and whether or not the client stays.
THEOREM LastOnly == Spec => []UsageOnLastOnly
<1> DEFINE Gap == gemini /\ conn = "open" => wire = <<>> \/ Len(wire) < Len(produced)
<1>1. Init => Gap
  BY DEF Init
<1>2. IInv /\ IInv' /\ Gap /\ [Next]_vars => Gap'
  <2> SUFFICES ASSUME IInv, IInv', Gap, [Next]_vars, gemini', conn' = "open"
               PROVE  wire' = <<>> \/ Len(wire') < Len(produced')
    OBVIOUS
  <2>1. CASE Live'
    <3>1. CASE produced' = <<>>
      BY <3>1 DEF IInv, TypeOK, CountInv
    <3>2. CASE produced' # <<>>
      <4>1. held' # 0 /\ Len(produced') = Delivered' + 1
        BY <2>1, <3>2 DEF IInv, CountInv
      <4>2. Len(wire') \in Nat /\ Delivered' \in Nat /\ Delivered' >= Len(wire')
        BY DEF IInv, TypeOK, Delivered
      <4> QED BY <4>1, <4>2
    <3> QED BY <3>1, <3>2
  <2>2. CASE ~ Live'
    <3>1. UNCHANGED <<gemini, conn, wire, produced>>
      BY <2>2 DEF Next, vars, Live, Start, Yield, Resume, Disconnect, CloseUpstream, Settle, Connect,
                  Refuse, Read, End, Drained, Break, Vanish, Finalize, Asked, Deliver, Exhausted,
                  provider, client
    <3> QED BY <3>1
  <2> QED BY <2>1, <2>2
<1>3. IInv /\ Gap => UsageOnLastOnly
  <2> SUFFICES ASSUME IInv, Gap, gemini, NEW i \in DOMAIN wire, wire[i].usage # NoUsage
               PROVE  wire[i].n = Len(produced) /\ conn # "open"
    BY DEF UsageOnLastOnly
  <2>1. wire[i].n = i /\ i = Len(produced)
    BY DEF IInv, WireInv, Shown
  <2>2. i \in 1 .. Len(wire) /\ Len(wire) \in Nat /\ wire # <<>>
    BY DEF IInv, TypeOK
  <2> QED BY <2>1, <2>2
<1> QED BY <1>1, <1>2, <1>3, Invariant, PTL DEF Spec

\* However slow the client, at most one chunk is under way to it, and one more
\* kept back by Gemini's adapter: reading is driven by the client.
THEOREM BackpressureHolds == Spec => []Backpressure
<1>1. IInv => Backpressure
  BY DEF IInv
<1> QED BY <1>1, Invariant, PTL

\* rest.aclose() comes before on_finish: the accounting never holds the
\* provider's connection, but for a client that leaves Gemini in mid-stream.
THEOREM ReleasedFirst == Spec => []ReleasedBeforeSettled
<1>1. IInv => ReleasedBeforeSettled
  <2> SUFFICES ASSUME IInv, NEW i \in DOMAIN settled, gemini => settled[i].completed
               PROVE  conn = "released"
    BY DEF ReleasedBeforeSettled
  <2>1. pc = "over" /\ settled[i].completed = completed
    BY DEF IInv, SettledInv
  <2> QED BY <2>1 DEF IInv, ConnInv
<1> QED BY <1>1, Invariant, PTL

\* A streamed answer implements ChunkStream: to client and accounting, however
\* the generators suspend, peek, keep back and close, it is chunks in order,
\* then perhaps [DONE], and one settlement that tells the truth.
THEOREM Implements == Spec => IsChunkStream
<1>1. Init => Promise!Init
  BY DEF Init, Promise!Init
<1>2. IInv /\ IInv' /\ [Next]_vars => [Promise!Next]_Promise!vars
  <2> SUFFICES ASSUME IInv, IInv', [Next]_vars
               PROVE  Promise!Next \/ UNCHANGED <<wire, done, settled>>
    BY DEF Promise!vars
  <2>1. ASSUME NEW chunk, Yield(chunk), ~ done, settled = <<>>,
               UNCHANGED <<done, settled>>
        PROVE  Promise!Next
    <3>1. wire' = Append(wire, chunk) /\ wire \in Seq(Chunk) /\ wire' \in Seq(Chunk)
      BY <2>1 DEF Yield, IInv, TypeOK
    <3>2. Len(wire) + 1 \in DOMAIN wire' /\ wire'[Len(wire) + 1] = chunk
      BY <3>1
    <3>3. chunk \in Chunk /\ chunk.n = Len(wire) + 1
      BY <3>1, <3>2 DEF IInv, WireInv
    <3>4. chunk = [n |-> Len(wire) + 1, usage |-> chunk.usage] /\ chunk.usage \in Usages \cup {NoUsage}
      BY <3>3 DEF Chunk, Reported
    <3> QED BY <2>1, <3>1, <3>4 DEF Promise!Next, Promise!Send
  <2>2. ASSUME Asked, Exhausted, UNCHANGED <<wire, settled>>
        PROVE  Promise!Next \/ UNCHANGED <<wire, done, settled>>
    BY <2>2 DEF Exhausted, Asked, IInv, DoneInv, SettledInv, Promise!Next, Promise!Terminate
  <2>3. ASSUME NEW chunk, Asked, Deliver(chunk), UNCHANGED <<done, settled>>
        PROVE  Promise!Next \/ UNCHANGED <<wire, done, settled>>
    <3>1. ~ done /\ settled = <<>>
      BY <2>3 DEF Asked, IInv, DoneInv, EarlyInv, SettledInv
    <3> QED BY <2>1, <2>3, <3>1 DEF Deliver
  <2>4. CASE Settle
    <3>1. settled = <<>> /\ settled' = <<[usage |-> IF completed THEN usage ELSE NoUsage,
                                          completed |-> completed]>>
      BY <2>4 DEF Settle, IInv, SettledInv
    <3>2. completed => done
      BY DEF IInv, DoneInv
    <3>3. UNCHANGED <<wire, done>> /\ completed \in BOOLEAN
      BY <2>4 DEF Settle, client, IInv, TypeOK
    <3> QED BY <3>1, <3>2, <3>3, TappedIsLast DEF Promise!Next, Promise!Settle
  <2>5. CASE Start
    <3>1. CASE first = None
      BY <2>5, <3>1 DEF Start
    <3>2. CASE first # None
      <4>1. first \in Chunk /\ ~ done /\ settled = <<>>
        BY <2>5, <3>2 DEF Start, IInv, TypeOK, EarlyInv, SettledInv
      <4> QED BY <2>1, <2>5, <3>2, <4>1 DEF Start
    <3> QED BY <3>1, <3>2
  <2>6. CASE Drained
    BY <2>2, <2>6 DEF Drained, Asked
  <2>7. CASE Read
    <3>1. Asked /\ UNCHANGED <<done, settled>>
      BY <2>7 DEF Read
    <3>2. CASE UNCHANGED wire
      BY <3>1, <3>2
    <3>3. CASE wire' # wire
      <4>1. PICK chunk : Deliver(chunk)
        BY <2>7, <3>3 DEF Read
      <4> QED BY <2>3, <3>1, <4>1
    <3> QED BY <3>2, <3>3
  <2>8. CASE End
    <3>1. Asked /\ UNCHANGED settled
      BY <2>8 DEF End
    <3>2. CASE held = 0
      BY <2>2, <2>8, <3>1, <3>2 DEF End
    <3>3. CASE held # 0
      <4>1. PICK chunk : Deliver(chunk) /\ done' = done
        BY <2>8, <3>3 DEF End
      <4> QED BY <2>3, <3>1, <4>1
    <3> QED BY <3>2, <3>3
  <2>9. CASE \/ Resume \/ Disconnect \/ CloseUpstream \/ Connect \/ Refuse
             \/ Break \/ Vanish \/ Finalize
    BY <2>9 DEF Resume, Disconnect, CloseUpstream, Connect, Refuse, Break, Vanish, Finalize, client
  <2>10. CASE UNCHANGED vars
    BY <2>10 DEF vars
  <2> QED BY <2>4, <2>5, <2>6, <2>7, <2>8, <2>9, <2>10 DEF Next
<1> QED BY <1>1, <1>2, Invariant, PTL DEF Spec, IsChunkStream, Promise!Spec
=============================================================================
