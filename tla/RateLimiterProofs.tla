-------------------------- MODULE RateLimiterProofs --------------------------
(***************************************************************************)
(* Theorems about RateLimiter, for every rate, window, lag and number of   *)
(* calls: the type invariant, the bound on debt, who makes a hash          *)
(* unreadable, that nobody does when no call outlives the keys and that it *)
(* stays so, that the hashes implement TokenBuckets; and about             *)
(* TenantUsage, that no interval lets through more than its budget, and    *)
(* none refuses what its refill would pay for.                             *)
(***************************************************************************)
EXTENDS TenantUsage, FiniteSetTheorems, TLAPS

-----------------------------------------------------------------------------
\* Arithmetic, and what the script computes.

\* The constants are natural numbers.
LEMMA ConstantTypes ==
    /\ Window \in Nat /\ Window >= 1 /\ ReqRate \in Nat /\ TokRate \in Nat
    /\ ReqCap \in Nat /\ TokCap \in Nat /\ TTL \in Nat /\ TTL >= 2
    /\ MaxLag \in Nat /\ MaxFlight \in Nat /\ Shortfall \in Nat
    /\ Estimates \subseteq Nat /\ Actuals \subseteq Nat
    /\ \A a \in Actuals, e \in Estimates : a - e <= Shortfall
<1>1. ASSUME NEW a \in Nat, NEW b \in Nat PROVE a * b \in Nat
  OBVIOUS
<1> QED BY <1>1, LimiterAssumption DEF LimiterAssumption, ReqCap, TokCap, TTL

\* What is refilled in some ticks at some rate.
LEMMA Products ==
    ASSUME NEW a \in Nat, NEW b \in Nat, NEW r \in Nat
    PROVE  /\ a * r \in Nat
           /\ (a + b) * r = a * r + b * r
           /\ a <= b => a * r <= b * r /\ (b - a) * r = b * r - a * r
OBVIOUS

\* The level of a hash: never over the capacity, never below its tokens unless
\* they are over it, and not in debt if they are not.
LEMMA LevelBounds ==
    ASSUME NEW h \in Hash, NEW cap \in Nat, NEW rate \in Nat, NEW lag \in Nat
    PROVE  /\ Level(h, cap, rate, lag) \in Int
           /\ Level(h, cap, rate, lag) <= cap
           /\ h.tokens >= 0 => Level(h, cap, rate, lag) >= 0
           /\ h.kind # "absent" =>
                 Level(h, cap, rate, lag) >= h.tokens \/ Level(h, cap, rate, lag) = cap
<1> DEFINE refill == IF h.age > lag THEN (h.age - lag) * rate ELSE 0
<1>1. h.tokens \in Int /\ h.age \in Nat
  BY DEF Hash
<1>2. refill \in Nat
  <2>1. CASE h.age > lag
    <3>1. h.age - lag \in Nat
      BY <1>1, <2>1
    <3> QED BY <2>1, <3>1, Products
  <2>2. CASE ~ (h.age > lag)
    BY <2>2
  <2> QED BY <2>1, <2>2
<1>3. Level(h, cap, rate, lag) = IF h.kind = "absent" THEN cap ELSE Least(cap, h.tokens + refill)
  BY DEF Level
<1> HIDE DEF refill
<1> QED BY <1>1, <1>2, <1>3 DEF Least

-----------------------------------------------------------------------------
\* The inductive invariant.

\* A call under way has an estimate that estimate_tokens may give.
EstimateInv == \A c \in Calls : calls[c].pc # "idle" => calls[c].est \in Estimates

\* A hash that can be read is at least as old as the last use of the keys, and
\* is gone at the end of their life; one that is gone has been unused that long.
LifeOf(h) ==
    /\ h.kind = "whole" => h.age >= unused /\ unused < TTL
    /\ h.kind = "absent" => unused = TTL

LifeInv ==
    /\ LifeOf(req) /\ LifeOf(tok)
    /\ req.kind # "unstamped"

\* An admitted call is at least as old as the last use of the keys.
FlightInv == \A c \in InFlight : calls[c].for >= unused

IInv == TypeOK /\ EstimateInv /\ LifeInv /\ FlightInv

\* The invariant, of the state of the calls only.
CallsInv ==
    /\ calls \in [Calls -> Call]
    /\ \A c \in Calls : calls[c].for <=
          CASE calls[c].pc = "idle"     -> 0
            [] calls[c].pc = "checking" -> MaxLag
            [] calls[c].pc = "admitted" -> MaxFlight
    /\ EstimateInv /\ FlightInv

\* Two empty keys satisfy the invariant.
LEMMA InitInv == Init => IInv
<1> SUFFICES ASSUME Init PROVE IInv
  OBVIOUS
<1>1. Absent \in Hash /\ Absent.tokens = 0 /\ Absent.kind = "absent"
  BY DEF Absent, Hash
<1>2. Away \in Call /\ Away.pc = "idle" /\ Away.for = 0
  BY DEF Away, Call
<1>3. TypeOK
  BY <1>1, <1>2, ConstantTypes DEF Init, TypeOK
<1>4. EstimateInv /\ FlightInv
  BY <1>2 DEF Init, EstimateInv, FlightInv, InFlight
<1>5. LifeInv
  BY <1>1 DEF Init, LifeInv, LifeOf
<1> QED BY <1>3, <1>4, <1>5 DEF IInv

\* What the invariant says of calls and time.
LEMMA Parts == ASSUME IInv PROVE CallsInv /\ unused \in Nat /\ unused <= TTL
<1>1. CallsInv
  BY Zenon DEF IInv, TypeOK, CallsInv
<1>2. unused \in 0 .. TTL
  BY DEF IInv, TypeOK
<1> QED BY <1>1, <1>2, ConstantTypes

\* One call changes: into one of the right type that has not waited too long.
LEMMA OneCall ==
    ASSUME CallsInv, unused \in Nat, unused' \in Nat, unused' <= unused,
           NEW c \in Calls, NEW call \in Call, calls' = [calls EXCEPT ![c] = call],
           \/ call = Away
           \/ /\ call.pc = "checking" /\ call.for = 0 /\ call.est \in Estimates
           \/ /\ call.pc = "admitted" /\ call.for = 0 /\ call.est \in Estimates
              /\ unused' = 0
    PROVE  CallsInv'
<1>1. Away.pc = "idle" /\ Away.for = 0
  BY DEF Away
<1>2. MaxLag \in Nat /\ MaxFlight \in Nat
  BY ConstantTypes
<1>3. calls' \in [Calls -> Call] /\ \A d \in Calls : calls'[d] = IF d = c THEN call ELSE calls[d]
  BY DEF CallsInv
<1>4. \A d \in Calls : calls'[d].for <=
          CASE calls'[d].pc = "idle"     -> 0
            [] calls'[d].pc = "checking" -> MaxLag
            [] calls'[d].pc = "admitted" -> MaxFlight
  <2> TAKE d \in Calls
  <2>1. CASE d = c
    <3>1. calls'[d] = call
      BY <1>3, <2>1
    <3>2. CASE call = Away
      BY <1>1, <3>1, <3>2
    <3>3. CASE call.pc = "checking" /\ call.for = 0
      BY <1>2, <3>1, <3>3
    <3>4. CASE call.pc = "admitted" /\ call.for = 0
      BY <1>2, <3>1, <3>4
    <3> QED BY <3>2, <3>3, <3>4
  <2>2. CASE d # c
    <3>1. calls'[d] = calls[d]
      BY <1>3, <2>2
    <3> QED BY <3>1 DEF CallsInv
  <2> QED BY <2>1, <2>2
<1>5. EstimateInv'
  BY <1>1, <1>3 DEF CallsInv, EstimateInv
<1>6. FlightInv'
  <2> SUFFICES ASSUME NEW d \in Calls, calls'[d].pc = "admitted" PROVE calls'[d].for >= unused'
    BY DEF FlightInv, InFlight
  <2>1. CASE d = c
    BY <1>1, <1>3, <2>1
  <2>2. CASE d # c
    BY <1>3, <2>2 DEF CallsInv, FlightInv, InFlight, Call
  <2> QED BY <2>1, <2>2
<1> QED BY <1>3, <1>4, <1>5, <1>6 DEF CallsInv

\* The script stores what it has computed, with the stamp of its now.
LEMMA ScriptStep ==
    ASSUME IInv, NEW c \in Calls, Script(c)
    PROVE  IInv'
<1> DEFINE lag == calls[c].for
           rtok == Level(req, ReqCap, ReqRate, lag)
           ttok == Level(tok, TokCap, TokRate, lag)
           allow == Enough(rtok, ttok, calls[c].est)
<1>1. /\ calls \in [Calls -> Call] /\ lag \in Nat /\ calls[c].est \in Estimates /\ calls[c].est \in Nat
      /\ calls[c].pc = "checking"
  BY ConstantTypes DEF IInv, TypeOK, EstimateInv, Script, Call
<1>2. rtok \in Int /\ rtok <= ReqCap /\ rtok >= 0 /\ ttok \in Int
  BY <1>1, LevelBounds, ConstantTypes DEF IInv, TypeOK
<1>3. /\ req' = Stored(IF allow THEN rtok - 1 ELSE rtok, lag)
      /\ tok' = Stored(IF allow THEN ttok - calls[c].est ELSE ttok, lag)
      /\ calls' = [calls EXCEPT
            ![c] = IF allow THEN [@ EXCEPT !.pc = "admitted", !.for = 0] ELSE Away]
      /\ unused' = 0
  BY DEF Script
<1>4. allow => rtok >= 1
  BY DEF Enough
<1> HIDE DEF rtok, ttok, allow, lag
<1>5. /\ req' \in Hash /\ tok' \in Hash /\ req'.tokens \in 0 .. ReqCap
      /\ req'.kind = "whole" /\ tok'.kind = "whole" /\ req'.age \in Nat /\ tok'.age \in Nat
  BY <1>1, <1>2, <1>3, <1>4, ConstantTypes DEF Stored, Hash
<1>6. LifeInv' /\ unused' \in 0 .. TTL
  BY <1>3, <1>5, ConstantTypes DEF LifeInv, LifeOf
<1>7. PICK call : call = IF allow THEN [calls[c] EXCEPT !.pc = "admitted", !.for = 0] ELSE Away
  OBVIOUS
<1>8. Away \in Call
  BY DEF Away, Call
<1>9. /\ call \in Call /\ calls' = [calls EXCEPT ![c] = call]
      /\ call = Away \/ (call.pc = "admitted" /\ call.for = 0 /\ call.est \in Estimates)
  BY <1>1, <1>3, <1>7, <1>8 DEF Call
<1>10. CallsInv'
  <2>1. CallsInv /\ unused \in Nat
    BY Parts
  <2>2. unused' = 0 /\ unused' \in Nat /\ unused' <= unused
    BY <1>3, <2>1
  <2> QED BY <1>9, <2>1, <2>2, OneCall
<1>11. TypeOK'
  BY <1>5, <1>6, <1>10, Zenon DEF TypeOK, CallsInv
<1> QED BY <1>6, <1>10, <1>11 DEF IInv, CallsInv

\* A check begins, or a call ends, without a change of the hashes.
LEMMA QuietStep ==
    ASSUME IInv, NEW c \in Calls, Check(c) \/ ScriptFails(c) \/ EndUnreconciled(c)
    PROVE  IInv'
<1>1. PICK call \in Call :
         /\ calls' = [calls EXCEPT ![c] = call]
         /\ call = Away \/ (call.pc = "checking" /\ call.for = 0 /\ call.est \in Estimates)
  <2>1. CASE Check(c)
    <3>1. PICK est \in Estimates :
             calls' = [calls EXCEPT ![c] = [pc |-> "checking", est |-> est, for |-> 0]]
      BY <2>1 DEF Check
    <3>2. [pc |-> "checking", est |-> est, for |-> 0] \in Call
      BY DEF Call
    <3> QED BY <3>1, <3>2
  <2>2. CASE ScriptFails(c) \/ EndUnreconciled(c)
    <3>1. Away \in Call
      BY DEF Away, Call
    <3> QED BY <2>2, <3>1 DEF ScriptFails, EndUnreconciled
  <2> QED BY <2>1, <2>2
<1>2. UNCHANGED <<req, tok, unused>>
  BY DEF Check, ScriptFails, EndUnreconciled
<1>3. CallsInv'
  <2>1. CallsInv /\ unused \in Nat /\ unused' \in Nat /\ unused' <= unused
    BY <1>2, Parts
  <2> QED BY <1>1, <2>1, OneCall
<1>4. LifeInv'
  BY <1>2 DEF IInv, LifeInv, LifeOf
<1>5. req' \in Hash /\ tok' \in Hash /\ req'.tokens \in 0 .. ReqCap /\ unused' \in 0 .. TTL
  BY <1>2 DEF IInv, TypeOK
<1>6. TypeOK'
  BY <1>3, <1>5, Zenon DEF TypeOK, CallsInv
<1> QED BY <1>3, <1>4, <1>6 DEF IInv, CallsInv

\* A correction changes the token hash, or makes one that cannot be read.
LEMMA ReconcileStep ==
    ASSUME IInv, NEW c \in Calls, Reconcile(c)
    PROVE  IInv'
<1>1. calls' = [calls EXCEPT ![c] = Away] /\ UNCHANGED <<req, unused>> /\ Away \in Call
  BY DEF Reconcile, Away, Call
<1>2. CallsInv'
  <2>1. CallsInv /\ unused \in Nat /\ unused' \in Nat /\ unused' <= unused
    BY <1>1, Parts
  <2> QED BY <1>1, <2>1, OneCall
<1>3. calls[c].pc = "admitted" /\ calls[c].est \in Nat
  BY ConstantTypes DEF Reconcile, IInv, EstimateInv
<1>4. PICK adjustment \in Int :
         tok' = IF adjustment = 0 THEN tok
                ELSE IF tok.kind = "absent"
                THEN [kind |-> "unstamped", tokens |-> adjustment, age |-> 0]
                ELSE [tok EXCEPT !.tokens = @ + adjustment]
  <2>1. PICK actual \in Actuals :
           tok' = IF calls[c].est - actual = 0 THEN tok
                  ELSE IF tok.kind = "absent"
                  THEN [kind |-> "unstamped", tokens |-> calls[c].est - actual, age |-> 0]
                  ELSE [tok EXCEPT !.tokens = @ + (calls[c].est - actual)]
    BY DEF Reconcile
  <2>2. calls[c].est - actual \in Int
    BY <1>3, ConstantTypes
  <2> QED BY <2>1, <2>2
<1>5. tok \in Hash /\ req \in Hash /\ req.tokens \in 0 .. ReqCap /\ unused \in 0 .. TTL
  BY DEF IInv, TypeOK
<1>6. tok' \in Hash
  BY <1>4, <1>5 DEF Hash
<1>7. LifeOf(tok)' /\ LifeOf(req)' /\ req'.kind # "unstamped"
  BY <1>1, <1>4, <1>5 DEF IInv, LifeInv, LifeOf, Hash
<1>8. TypeOK'
  BY <1>1, <1>2, <1>5, <1>6, Zenon DEF TypeOK, CallsInv
<1> QED BY <1>2, <1>7, <1>8 DEF IInv, CallsInv, LifeInv

\* What a tick makes of a hash.
LEMMA OlderHash ==
    ASSUME NEW h \in Hash, unused \in 0 .. TTL, unused' = Least(unused + 1, TTL),
           LifeOf(h), NEW h1, h1 = Older(h)
    PROVE  /\ h1 \in Hash /\ unused' \in 0 .. TTL
           /\ h1.kind = "whole" => h1.age >= unused' /\ unused' < TTL
           /\ h1.kind = "absent" => unused' = TTL
           /\ h1.tokens = h.tokens \/ h1 = Absent
           /\ h1.kind = "unstamped" <=> h.kind = "unstamped"
<1>1. TTL \in Nat /\ Absent \in Hash /\ Absent.kind = "absent"
  BY ConstantTypes DEF Absent, Hash
<1>2. unused' \in 0 .. TTL /\ (unused < TTL => unused' = unused + 1) /\ (unused = TTL => unused' = TTL)
  BY <1>1 DEF Least
<1>3. CASE h.kind # "whole"
  BY <1>1, <1>2, <1>3 DEF Older, LifeOf, Hash
<1>4. CASE h.kind = "whole" /\ unused + 1 = TTL
  BY <1>1, <1>2, <1>4 DEF Older, LifeOf, Hash
<1>5. CASE h.kind = "whole" /\ unused + 1 # TTL
  BY <1>1, <1>2, <1>5 DEF Older, LifeOf, Hash
<1> QED BY <1>3, <1>4, <1>5

\* A tick: all gets older, and what is unused for TTL goes.
LEMMA TickStep == ASSUME IInv, Tick PROVE IInv'
<1>1. /\ req' = Older(req) /\ tok' = Older(tok) /\ unused' = Least(unused + 1, TTL)
      /\ req \in Hash /\ tok \in Hash /\ unused \in 0 .. TTL /\ req.tokens \in 0 .. ReqCap
      /\ LifeOf(req) /\ LifeOf(tok) /\ req.kind # "unstamped"
  BY DEF Tick, IInv, TypeOK, LifeInv
<1>2. /\ req' \in Hash /\ unused' \in 0 .. TTL /\ LifeOf(req)'
      /\ req'.tokens = req.tokens \/ req' = Absent
      /\ req'.kind # "unstamped"
  BY <1>1, OlderHash DEF LifeOf
<1>3. tok' \in Hash /\ LifeOf(tok)'
  BY <1>1, OlderHash DEF LifeOf
<1>4. req'.tokens \in 0 .. ReqCap
  BY <1>1, <1>2, ConstantTypes DEF Absent
<1>5. CallsInv'
  <2>1. \A c \in Calls :
          /\ calls'[c] = IF calls[c].pc = "idle" THEN calls[c] ELSE [calls[c] EXCEPT !.for = @ + 1]
          /\ calls[c] \in Call
          /\ calls[c].pc = "checking" => calls[c].for < MaxLag
          /\ calls[c].pc = "admitted" => calls[c].for < MaxFlight
    BY DEF Tick, IInv, TypeOK
  <2>2. \A c \in Calls :
          /\ calls'[c] \in Call /\ calls'[c].pc = calls[c].pc /\ calls'[c].est = calls[c].est
          /\ calls[c].pc = "idle" => calls'[c].for = calls[c].for
          /\ calls[c].pc # "idle" => calls'[c].for = calls[c].for + 1
    <3> TAKE c \in Calls
    <3>1. PICK call \in Call : call = calls[c]
      BY <2>1
    <3>2. CASE call.pc = "idle"
      BY <2>1, <3>1, <3>2
    <3>3. CASE call.pc # "idle"
      <4>1. calls'[c] = [call EXCEPT !.for = @ + 1]
        BY <2>1, <3>1, <3>3
      <4>2. [call EXCEPT !.for = @ + 1] \in Call
        BY DEF Call
      <4> QED BY <3>1, <3>3, <4>1, <4>2 DEF Call
    <3> QED BY <3>2, <3>3
  <2>3. calls' \in [Calls -> Call]
    BY <2>2 DEF Tick
  <2>4. \A c \in Calls : calls'[c].for <=
            CASE calls'[c].pc = "idle"     -> 0
              [] calls'[c].pc = "checking" -> MaxLag
              [] calls'[c].pc = "admitted" -> MaxFlight
    <3> TAKE c \in Calls
    <3>0. calls[c].for \in Nat /\ MaxLag \in Nat /\ MaxFlight \in Nat
      BY <2>1, ConstantTypes DEF Call
    <3>1. CASE calls[c].pc = "idle"
      <4>1. calls[c].for <= 0
        BY <3>1 DEF IInv, TypeOK
      <4> QED BY <2>2, <3>1, <4>1
    <3>2. CASE calls[c].pc = "checking"
      <4>1. calls'[c].pc = "checking" /\ calls'[c].for <= MaxLag
        <5>1. calls[c].for < MaxLag
          BY <2>1, <3>2, Zenon
        <5>2. calls'[c].pc = "checking" /\ calls'[c].for = calls[c].for + 1
          BY <2>2, <3>2
        <5> QED BY <3>0, <5>1, <5>2
      <4> QED BY <4>1
    <3>3. CASE calls[c].pc = "admitted"
      <4>1. calls'[c].pc = "admitted" /\ calls'[c].for <= MaxFlight
        <5>1. calls[c].for < MaxFlight
          BY <2>1, <3>3, Zenon
        <5>2. calls'[c].pc = "admitted" /\ calls'[c].for = calls[c].for + 1
          BY <2>2, <3>3
        <5> QED BY <3>0, <5>1, <5>2
      <4> QED BY <4>1
    <3> QED BY <2>1, <3>1, <3>2, <3>3 DEF Call
  <2>5. EstimateInv'
    BY <2>2 DEF IInv, EstimateInv
  <2>6. FlightInv'
    <3> SUFFICES ASSUME NEW c \in Calls, calls'[c].pc = "admitted" PROVE calls'[c].for >= unused'
      BY DEF FlightInv, InFlight
    <3>1. calls[c].for >= unused /\ calls[c].for \in Nat /\ calls'[c].for = calls[c].for + 1
      BY <2>1, <2>2 DEF IInv, FlightInv, InFlight, Call
    <3> QED BY <1>1, <3>1, ConstantTypes DEF Least
  <2> QED BY <2>3, <2>4, <2>5, <2>6, Zenon DEF CallsInv
<1>6. TypeOK'
  BY <1>2, <1>3, <1>4, <1>5, Zenon DEF TypeOK, CallsInv
<1> QED BY <1>2, <1>3, <1>5, <1>6 DEF IInv, CallsInv, LifeInv

\* Every step keeps the invariant.
LEMMA StepInv == IInv /\ [Next]_vars => IInv'
<1> SUFFICES ASSUME IInv, [Next]_vars PROVE IInv'
  OBVIOUS
<1>1. CASE Tick
  BY <1>1, TickStep
<1>2. ASSUME NEW c \in Calls, Script(c) PROVE IInv'
  BY <1>2, ScriptStep
<1>3. ASSUME NEW c \in Calls, Check(c) \/ ScriptFails(c) \/ EndUnreconciled(c) PROVE IInv'
  BY <1>3, QuietStep
<1>4. ASSUME NEW c \in Calls, Reconcile(c) PROVE IInv'
  BY <1>4, ReconcileStep
<1>5. CASE UNCHANGED vars
  <2>1. UNCHANGED <<req, tok, unused, calls>>
    BY <1>5 DEF vars
  <2> QED BY <2>1, Zenon DEF IInv, TypeOK, EstimateInv, LifeInv, LifeOf, FlightInv, InFlight
<1> QED BY <1>1, <1>2, <1>3, <1>4, <1>5 DEF Next, Run, End

\* The invariant holds throughout.
LEMMA Invariant == Spec => []IInv
<1>1. Init => IInv
  BY InitInv
<1>2. IInv /\ [Next]_vars => IInv'
  BY StepInv
<1> QED BY <1>1, <1>2, PTL DEF Spec

\* A step that makes a hash unreadable is the correction of such a late call.
LEMMA LosingStep ==
    IInv /\ [Next]_vars /\ Readable /\ ~ Readable' =>
        \E c \in InFlight : calls[c].for >= TTL /\ calls'[c].pc = "idle"
<1> SUFFICES ASSUME IInv, [Next]_vars, Readable, ~ Readable'
             PROVE  \E c \in InFlight : calls[c].for >= TTL /\ calls'[c].pc = "idle"
  OBVIOUS
<1>1. req'.kind # "unstamped" /\ tok'.kind = "unstamped"
  BY StepInv DEF IInv, LifeInv, Readable
<1>2. tok.kind # "unstamped"
  BY DEF Readable
<1>3. ~ Tick
  <2>1. tok \in Hash /\ unused \in 0 .. TTL /\ LifeOf(tok)
    BY DEF IInv, TypeOK, LifeInv
  <2> QED BY <1>1, <1>2, <2>1, OlderHash DEF Tick
<1>4. PICK c \in Calls : Reconcile(c)
  <2>1. \A c \in Calls : ~ Script(c)
    BY <1>1 DEF Script, Stored
  <2> QED BY <1>1, <1>2, <1>3, <2>1
          DEF Next, vars, Run, End, Check, ScriptFails, EndUnreconciled
<1>5. tok.kind = "absent"
  BY <1>1, <1>2, <1>4 DEF Reconcile, IInv, TypeOK, Hash
<1>6. unused = TTL
  BY <1>5 DEF IInv, LifeInv, LifeOf
<1>7. c \in InFlight /\ calls[c].for >= TTL
  BY <1>4, <1>6 DEF Reconcile, InFlight, IInv, FlightInv
<1>8. calls'[c].pc = "idle"
  BY <1>4 DEF Reconcile, IInv, TypeOK, Away
<1> QED BY <1>7, <1>8

\* A hash without ts is not read, not expired and not given one: nothing that runs
\* later mends it, and until then no call gets past the script.
LEMMA LostStep ==
    IInv /\ ~ Readable /\ [Next]_vars => ~ Readable' /\ InFlight' \subseteq InFlight
<1> SUFFICES ASSUME IInv, ~ Readable, [Next]_vars
             PROVE  ~ Readable' /\ InFlight' \subseteq InFlight
  OBVIOUS
<1>1. tok.kind = "unstamped" /\ tok \in Hash /\ calls \in [Calls -> Call]
  BY DEF Readable, IInv, TypeOK, LifeInv
<1>2. CASE Tick
  <2>1. tok' = tok
    BY <1>1, <1>2 DEF Tick, Older
  <2>2. \A c \in Calls : calls'[c].pc = calls[c].pc
    BY <1>1, <1>2 DEF Tick, Call
  <2> QED BY <1>1, <2>1, <2>2 DEF Readable, InFlight
<1>3. ASSUME NEW c \in Calls, Check(c) PROVE ~ Readable' /\ InFlight' \subseteq InFlight
  <2>1. PICK est \in Estimates :
           calls' = [calls EXCEPT ![c] = [pc |-> "checking", est |-> est, for |-> 0]]
    BY <1>3 DEF Check
  <2> QED BY <1>1, <1>3, <2>1 DEF Check, Readable, InFlight
<1>4. ASSUME NEW c \in Calls, Run(c) PROVE ~ Readable' /\ InFlight' \subseteq InFlight
  <2>1. ScriptFails(c)
    BY <1>1, <1>4 DEF Run, Script
  <2> QED BY <1>1, <2>1 DEF ScriptFails, Away, Readable, InFlight
<1>5. ASSUME NEW c \in Calls, End(c) PROVE ~ Readable' /\ InFlight' \subseteq InFlight
  <2>1. calls' = [calls EXCEPT ![c] = Away]
    BY <1>5 DEF End, Reconcile, EndUnreconciled
  <2>2. tok'.kind = "unstamped"
    BY <1>1, <1>5 DEF End, Reconcile, EndUnreconciled, Hash
  <2> QED BY <1>1, <2>1, <2>2 DEF Away, Readable, InFlight
<1>6. CASE UNCHANGED vars
  BY <1>6 DEF vars, Readable, InFlight
<1> QED BY <1>2, <1>3, <1>4, <1>5, <1>6 DEF Next

\* A multiple of Shortfall, with one call more or less.
LEMMA Debts ==
    ASSUME NEW n \in Nat
    PROVE  /\ Shortfall * n \in Nat
           /\ Shortfall * (n + 1) = Shortfall * n + Shortfall
           /\ Shortfall * n >= 0
           /\ \A m \in Nat : n <= m => Shortfall * n <= Shortfall * m
<1>1. Shortfall \in Nat
  BY ConstantTypes
<1>2. n * Shortfall = Shortfall * n /\ (n + 1) * Shortfall = Shortfall * (n + 1)
  BY <1>1
<1>3. \A m \in Nat : n <= m => n * Shortfall <= m * Shortfall
  BY <1>1, Products
<1>4. n * Shortfall \in Nat /\ (n + 1) * Shortfall = n * Shortfall + 1 * Shortfall
  BY <1>1, Products
<1> QED BY <1>1, <1>2, <1>3, <1>4

\* There is no debt at first.
LEMMA DebtInit == ASSUME IsFiniteSet(Calls), Init PROVE DebtBounded
<1>1. tok.tokens = 0
  BY DEF Init, Absent
<1>2. Cardinality(Calls \ InFlight) \in Nat
  BY FS_Difference, FS_CardinalityType
<1>3. 0 >= - (Shortfall * Cardinality(Calls \ InFlight))
  BY <1>2, Debts
<1> QED BY <1>1, <1>3 DEF DebtBounded

\* Each call that ends adds to the debt what it was under-estimated by, at most;
\* a call that is admitted finds the bucket out of debt.
LEMMA DebtStep ==
    ASSUME IsFiniteSet(Calls), IInv, DebtBounded, [Next]_vars
    PROVE  DebtBounded'
<1> DEFINE over == Calls \ InFlight
<1>1. IsFiniteSet(over) /\ IsFiniteSet(over') /\ Cardinality(over) \in Nat /\ Cardinality(over') \in Nat
  <2>1. over' = Calls \ InFlight'
    OBVIOUS
  <2> QED BY <2>1, FS_Difference, FS_CardinalityType
<1>2. tok \in Hash /\ tok.tokens \in Int /\ calls \in [Calls -> Call]
  BY DEF IInv, TypeOK, Hash
<1>3. ASSUME over' = over, tok'.tokens \in Int, tok'.tokens >= tok.tokens \/ tok'.tokens >= 0
      PROVE  DebtBounded'
  <2>1. tok'.tokens >= - (Shortfall * Cardinality(over))
    BY <1>1, <1>2, <1>3, Debts DEF DebtBounded
  <2> QED BY <1>3, <2>1 DEF DebtBounded
<1>4. ASSUME NEW c \in Calls, Script(c) PROVE DebtBounded'
  <2> DEFINE lag == calls[c].for
             ttok == Level(tok, TokCap, TokRate, lag)
             rtok == Level(req, ReqCap, ReqRate, lag)
             allow == Enough(rtok, ttok, calls[c].est)
  <2>1. calls[c] \in Call /\ lag \in Nat /\ calls[c].pc = "checking"
    BY <1>2, <1>4 DEF Call, Script
  <2>2. ttok \in Int /\ (ttok >= tok.tokens \/ ttok >= 0)
    <3>1. tok.kind = "absent" => ttok = TokCap
      BY DEF Level
    <3> QED BY <1>2, <2>1, <3>1, LevelBounds, ConstantTypes
  <2>3. CASE allow
    <3>1. tok'.tokens = ttok - calls[c].est /\ ttok >= calls[c].est
      BY <1>4, <2>3 DEF Script, Stored, Enough
    <3>2. calls[c].est \in Estimates
      BY <2>1 DEF IInv, EstimateInv
    <3>3. tok'.tokens \in Int /\ tok'.tokens >= 0
      <4>1. calls[c].est \in Nat
        BY <3>2, ConstantTypes
      <4> QED BY <2>2, <3>1, <4>1
    <3>4. tok'.tokens >= - (Shortfall * Cardinality(over'))
      BY <1>1, <3>3, Debts
    <3> QED BY <3>4 DEF DebtBounded
  <2>4. CASE ~ allow
    <3>1. tok'.tokens = ttok /\ calls' = [calls EXCEPT ![c] = Away]
      BY <1>4, <2>4 DEF Script, Stored
    <3>2. over' = over
      BY <1>2, <2>1, <3>1 DEF InFlight, Away
    <3> QED BY <1>3, <2>2, <3>1, <3>2
  <2> QED BY <2>3, <2>4
<1>5. ASSUME NEW c \in Calls, Check(c) \/ ScriptFails(c) PROVE DebtBounded'
  <2>1. over' = over /\ tok' = tok
    BY <1>2, <1>5 DEF Check, ScriptFails, InFlight, Away
  <2> QED BY <1>2, <1>3, <2>1
<1>6. ASSUME NEW c \in Calls, calls[c].pc = "admitted", calls' = [calls EXCEPT ![c] = Away],
             tok'.tokens \in Int, tok'.tokens >= tok.tokens - Shortfall \/ tok'.tokens >= - Shortfall
      PROVE  DebtBounded'
  <2>1. over' = over \cup {c} /\ c \notin over
    BY <1>2, <1>6 DEF InFlight, Away
  <2>2. Cardinality(over') = Cardinality(over) + 1
    BY <1>1, <2>1, FS_AddElement
  <2>3. tok'.tokens >= - (Shortfall * (Cardinality(over) + 1))
    BY <1>1, <1>2, <1>6, Debts, ConstantTypes DEF DebtBounded
  <2> QED BY <2>2, <2>3 DEF DebtBounded
<1>7. ASSUME NEW c \in Calls, Reconcile(c) PROVE DebtBounded'
  <2>1. PICK actual \in Actuals :
           tok' = IF calls[c].est - actual = 0 THEN tok
                  ELSE IF tok.kind = "absent"
                  THEN [kind |-> "unstamped", tokens |-> calls[c].est - actual, age |-> 0]
                  ELSE [tok EXCEPT !.tokens = @ + (calls[c].est - actual)]
    BY <1>7 DEF Reconcile
  <2>2. calls[c].pc = "admitted" /\ calls' = [calls EXCEPT ![c] = Away]
    BY <1>7 DEF Reconcile
  <2>3. calls[c].est \in Estimates
    BY <2>2 DEF IInv, EstimateInv
  <2>4. PICK adjustment \in Int : adjustment = calls[c].est - actual /\ adjustment >= - Shortfall
    <3>1. calls[c].est \in Nat /\ actual \in Nat /\ actual - calls[c].est <= Shortfall
      BY <2>3, ConstantTypes
    <3> QED BY <3>1, ConstantTypes
  <2>5. /\ tok'.tokens \in Int
        /\ tok'.tokens >= tok.tokens - Shortfall \/ tok'.tokens >= - Shortfall
    BY <1>2, <2>1, <2>4, ConstantTypes DEF Hash
  <2> QED BY <1>6, <2>2, <2>5
<1>8. ASSUME NEW c \in Calls, EndUnreconciled(c) PROVE DebtBounded'
  <2>1. calls[c].pc = "admitted" /\ calls' = [calls EXCEPT ![c] = Away] /\ tok' = tok
    BY <1>8 DEF EndUnreconciled
  <2>2. tok'.tokens \in Int /\ tok'.tokens >= tok.tokens - Shortfall
    BY <1>2, <2>1, ConstantTypes
  <2> QED BY <1>6, <2>1, <2>2
<1>9. CASE Tick
  <2>1. \A c \in Calls : calls'[c].pc = calls[c].pc
    <3> TAKE c \in Calls
    <3>1. PICK call \in Call : call = calls[c]
      BY <1>2
    <3>2. calls'[c] = IF call.pc = "idle" THEN call ELSE [call EXCEPT !.for = @ + 1]
      BY <1>9, <3>1 DEF Tick
    <3> QED BY <3>1, <3>2 DEF Call
  <2>2. over' = over
    BY <2>1 DEF InFlight
  <2>3. tok'.tokens = tok.tokens \/ tok'.tokens = 0
    <3>1. tok' = Older(tok)
      BY <1>9 DEF Tick
    <3> QED BY <1>2, <3>1 DEF Older, Absent, Hash
  <2> QED BY <1>2, <1>3, <2>2, <2>3
<1>10. CASE UNCHANGED vars
  <2>1. over' = over /\ tok' = tok
    BY <1>10 DEF vars, InFlight
  <2> QED BY <1>2, <1>3, <2>1
<1> QED BY <1>4, <1>5, <1>7, <1>8, <1>9, <1>10 DEF Next, Run, End

-----------------------------------------------------------------------------
\* The hashes as token buckets.

\* The level of a hash with tokens, with the product that a tick changes.
LEMMA LevelOf ==
    ASSUME NEW h \in Hash, h.kind # "absent", NEW cap \in Nat, NEW rate \in Nat, NEW lag \in Nat
    PROVE  /\ h.age * rate \in Nat /\ lag * rate \in Nat
           /\ Level(h, cap, rate, lag) =
                 Least(cap, h.tokens + (IF h.age > lag THEN h.age * rate - lag * rate ELSE 0))
           /\ h.age <= lag => h.age * rate <= lag * rate
           /\ Level(h, cap, rate, 0) = Least(cap, h.tokens + h.age * rate)
<1>1. h.tokens \in Int /\ h.age \in Nat
  BY DEF Hash
<1>2. h.age * rate \in Nat /\ lag * rate \in Nat /\ (h.age <= lag => h.age * rate <= lag * rate)
  BY <1>1, Products
<1>3. h.age > lag => (h.age - lag) * rate = h.age * rate - lag * rate
  BY <1>1, Products
<1>4. Level(h, cap, rate, lag) =
         Least(cap, h.tokens + (IF h.age > lag THEN h.age * rate - lag * rate ELSE 0))
  BY <1>3 DEF Level
<1>5. Level(h, cap, rate, 0) = Least(cap, h.tokens + h.age * rate)
  <2>1. CASE h.age > 0
    <3>1. h.age - 0 = h.age
      BY <1>1
    <3> QED BY <2>1, <3>1 DEF Level
  <2>2. CASE h.age = 0
    <3>1. h.age * rate = 0
      BY <2>2
    <3> QED BY <1>1, <2>2, <3>1 DEF Level
  <2> QED BY <1>1, <2>1, <2>2
<1> QED BY <1>2, <1>4, <1>5

\* The script charges as of its own now, lag ticks back, and stamps accordingly:
\* the bucket gets the refill of these ticks once more, at most.
LEMMA Charging ==
    ASSUME NEW h \in Hash, h.kind # "unstamped", NEW cap \in Nat, NEW rate \in Nat,
           NEW lag \in Nat, lag <= MaxLag, NEW cost \in Nat,
           NEW h1, h1 = Stored(Level(h, cap, rate, lag) - cost, lag)
    PROVE  /\ Promise!Charged(Level(h, cap, rate, 0), Level(h1, cap, rate, 0), cost,
                              MaxLag * rate, cap)
           /\ Level(h, cap, rate, lag) <= Level(h, cap, rate, 0)
<1> DEFINE now == Level(h, cap, rate, 0)
           then == Level(h, cap, rate, lag)
           r == lag * rate
<1>1. r \in Nat /\ MaxLag * rate \in Nat /\ r <= MaxLag * rate
  BY ConstantTypes, Products
<1>2. now \in Int /\ then \in Int /\ now <= cap /\ then <= cap /\ then <= now /\ now <= then + r
  <2>1. CASE h.kind = "absent"
    <3>1. now = cap /\ then = cap
      BY <2>1 DEF Level
    <3> HIDE DEF now, then, r
    <3> QED BY <1>1, <3>1
  <2>2. CASE h.kind # "absent"
    <3>1. PICK a \in Nat :
            /\ then = Least(cap, h.tokens + (IF h.age > lag THEN a - r ELSE 0))
            /\ now = Least(cap, h.tokens + a)
            /\ h.age <= lag => a <= r
            /\ h.age > lag => a >= r
      <4>1. h.age \in Nat
        BY DEF Hash
      <4>2. lag < h.age => lag * rate <= h.age * rate
        BY <4>1, Products
      <4> QED BY <2>2, <4>1, <4>2, LevelOf
    <3>2. h.tokens \in Int /\ h.age \in Nat
      BY DEF Hash
    <3> HIDE DEF now, then, r
    <3> QED BY <1>1, <3>1, <3>2 DEF Least
  <2> QED BY <2>1, <2>2
<1>3. h1 \in Hash /\ h1.kind = "whole" /\ h1.tokens = then - cost /\ h1.age = lag
  BY <1>2 DEF Stored, Hash
<1>4. Level(h1, cap, rate, 0) = Least(cap, then - cost + r)
  <2>1. Level(h1, cap, rate, 0) = Least(cap, h1.tokens + h1.age * rate)
    BY <1>3, LevelOf
  <2> QED BY <1>3, <2>1
<1> HIDE DEF now, then, r
<1>5. Promise!Charged(now, Least(cap, then - cost + r), cost, MaxLag * rate, cap)
  BY <1>1, <1>2 DEF Promise!Charged, Promise!Capped, Least
<1> QED BY <1>2, <1>4, <1>5 DEF now, then

\* A tick refills; and a key that expires has been refilled to its capacity, as
\* long as two windows pay back its debt.
LEMMA Refilling ==
    ASSUME NEW h \in Hash, h.kind # "unstamped", NEW rate \in Nat,
           NEW cap \in Nat, cap = rate * Window, unused \in 0 .. TTL, LifeOf(h),
           h.kind = "whole" => h.tokens >= - cap,
           NEW h1, h1 = Older(h)
    PROVE  Level(h1, cap, rate, 0) = Promise!Capped(Level(h, cap, rate, 0) + rate, cap)
<1>1. Level(Absent, cap, rate, 0) = cap
  BY DEF Level, Absent
<1>2. CASE h.kind = "absent"
  <2>1. h1 = h /\ Level(h, cap, rate, 0) = cap
    BY <1>2 DEF Older, Level
  <2> QED BY <2>1 DEF Promise!Capped
<1>3. CASE h.kind = "whole"
  <2>1. h.tokens \in Int /\ h.age \in Nat /\ h.age >= unused
    BY <1>3 DEF Hash, LifeOf
  <2>2. PICK a \in Nat :
          /\ a = h.age * rate
          /\ (h.age + 1) * rate = a + rate
          /\ Level(h, cap, rate, 0) = Least(cap, h.tokens + a)
    <3>1. h.age * rate \in Nat /\ (h.age + 1) * rate = h.age * rate + 1 * rate /\ 1 * rate = rate
      BY <2>1, Products
    <3> QED BY <1>3, <3>1, LevelOf
  <2>3. CASE unused + 1 = TTL
    <3>1. h1 = Absent
      BY <1>3, <2>3 DEF Older
    <3>2. 2 * cap <= a + rate
      <4>1. TTL * rate <= (h.age + 1) * rate
        BY <2>1, <2>3, ConstantTypes, Products
      <4>2. TTL * rate = 2 * cap
        <5>1. Window \in Nat
          BY ConstantTypes
        <5> QED BY <5>1 DEF TTL
      <4> QED BY <2>2, <4>1, <4>2
    <3>3. h.tokens >= - cap
      BY <1>3
    <3>4. PICK n \in Int : n = h.tokens + a /\ n + rate >= cap
      BY <2>1, <3>2, <3>3
    <3>5. Promise!Capped(Least(cap, n) + rate, cap) = cap
      BY <3>4 DEF Promise!Capped, Least
    <3> QED BY <1>1, <2>2, <3>1, <3>4, <3>5
  <2>4. CASE unused + 1 # TTL
    <3>1. h1 = [h EXCEPT !.age = @ + 1]
      BY <1>3, <2>4 DEF Older
    <3>2. h1 \in Hash /\ h1.kind = "whole" /\ h1.tokens = h.tokens /\ h1.age = h.age + 1
      BY <1>3, <3>1 DEF Hash
    <3>3. Level(h1, cap, rate, 0) = Least(cap, h.tokens + (a + rate))
      BY <2>2, <3>2, LevelOf
    <3> QED BY <2>1, <2>2, <3>3 DEF Promise!Capped, Least
  <2> QED BY <2>3, <2>4
<1> QED BY <1>2, <1>3 DEF Hash

\* A correction of a hash is one of the bucket: a refund that the capacity cuts
\* off, or a surcharge that a refill without room may soften.
LEMMA Correcting ==
    ASSUME NEW h \in Hash, h.kind = "whole", NEW cap \in Nat, NEW rate \in Nat,
           NEW n \in Int, NEW h1, h1 = [h EXCEPT !.tokens = @ + n]
    PROVE  /\ n > 0 => Level(h1, cap, rate, 0) = Promise!Capped(Level(h, cap, rate, 0) + n, cap)
           /\ n <= 0 => /\ Level(h, cap, rate, 0) + n <= Level(h1, cap, rate, 0)
                        /\ Level(h1, cap, rate, 0) <= Level(h, cap, rate, 0)
<1>1. /\ h.tokens \in Int /\ h1 \in Hash
      /\ h1.kind = "whole" /\ h1.kind # "absent" /\ h1.age = h.age /\ h1.tokens = h.tokens + n
  BY DEF Hash
<1>2. PICK a \in Nat : a = h.age * rate /\ Level(h, cap, rate, 0) = Least(cap, h.tokens + a)
  <2>1. h.age * rate \in Nat /\ Level(h, cap, rate, 0) = Least(cap, h.tokens + h.age * rate)
    <3>1. h.kind # "absent"
      OBVIOUS
    <3> QED BY <3>1, LevelOf
  <2> QED BY <2>1, Zenon
<1>3. Level(h1, cap, rate, 0) = Least(cap, h.tokens + n + a)
  <2>1. Level(h1, cap, rate, 0) = Least(cap, h1.tokens + h1.age * rate)
    <3>1. \A g \in Hash : g.kind # "absent" =>
            Level(g, cap, rate, 0) = Least(cap, g.tokens + g.age * rate)
      BY LevelOf
    <3> QED BY <1>1, <3>1
  <2> QED BY <1>1, <1>2, <2>1
<1> QED BY <1>1, <1>2, <1>3 DEF Promise!Capped, Least

\* A step on hashes that can still be read after it is one of the token buckets.
LEMMA BucketStep ==
    ASSUME IsFiniteSet(Calls), Shortfall * Cardinality(Calls) <= TokCap,
           IInv, DebtBounded, [Next]_vars, Readable'
    PROVE  Promise!Next \/ UNCHANGED Promise!vars
<1> DEFINE R == Level(req, ReqCap, ReqRate, 0)
           T == Level(tok, TokCap, TokRate, 0)
<1>1. req \in Hash /\ tok \in Hash /\ calls \in [Calls -> Call] /\ unused \in 0 .. TTL
  BY DEF IInv, TypeOK
<1>2. ASSUME NEW c \in Calls, Script(c) PROVE Promise!Next
  <2> DEFINE lag == calls[c].for
             rtok == Level(req, ReqCap, ReqRate, lag)
             ttok == Level(tok, TokCap, TokRate, lag)
             est == calls[c].est
  <2>1. /\ lag \in Nat /\ lag <= MaxLag /\ est \in Estimates /\ est \in Nat
    <3>1. calls[c] \in Call /\ calls[c].pc = "checking"
      BY <1>1, <1>2 DEF Script
    <3>2. lag <= MaxLag
      BY <3>1 DEF IInv, TypeOK
    <3> QED BY <3>1, <3>2, ConstantTypes DEF Call, IInv, EstimateInv
  <2>2. req.kind # "unstamped" /\ tok.kind # "unstamped"
    BY <1>2 DEF Script
  <2>3. ReqRate \in Nat /\ TokRate \in Nat /\ ReqCap \in Nat /\ TokCap \in Nat
    BY ConstantTypes
  <2>4. rtok \in Int /\ ttok \in Int /\ R \in Int /\ T \in Int
    BY <1>1, <2>1, <2>3, LevelBounds
  <2>5. ASSUME NEW cost \in Nat, req' = Stored(rtok - cost, lag)
        PROVE  Promise!Charged(R, R', cost, MaxLag * ReqRate, ReqCap) /\ rtok <= R
    BY <1>1, <2>1, <2>2, <2>3, <2>5, Charging
  <2>6. ASSUME NEW cost \in Nat, tok' = Stored(ttok - cost, lag)
        PROVE  Promise!Charged(T, T', cost, MaxLag * TokRate, TokCap) /\ ttok <= T
    BY <1>1, <2>1, <2>2, <2>3, <2>6, Charging
  <2>7. CASE Enough(rtok, ttok, est)
    <3>1. req' = Stored(rtok - 1, lag) /\ tok' = Stored(ttok - est, lag)
      BY <1>2, <2>7 DEF Script
    <3>2. R >= 1 /\ T >= est
      BY <2>1, <2>4, <2>5, <2>6, <2>7, <3>1 DEF Enough
    <3>3. Promise!Admit(est)
      BY <2>1, <2>5, <2>6, <3>1, <3>2 DEF Promise!Admit
    <3> QED BY <2>1, <3>3 DEF Promise!Next
  <2>8. CASE ~ Enough(rtok, ttok, est)
    <3>1. req' = Stored(rtok - 0, lag) /\ tok' = Stored(ttok - 0, lag)
      <4>1. req' = Stored(rtok, lag) /\ tok' = Stored(ttok, lag)
        BY <1>2, <2>8 DEF Script
      <4>2. rtok - 0 = rtok /\ ttok - 0 = ttok
        BY <2>4
      <4> QED BY <4>1, <4>2
    <3>2. Promise!Refuse
      BY <2>5, <2>6, <3>1 DEF Promise!Refuse
    <3> QED BY <3>2 DEF Promise!Next
  <2> QED BY <2>7, <2>8
<1>3. CASE Tick
  <2>1. req' = Older(req) /\ tok' = Older(tok) /\ LifeOf(req) /\ LifeOf(tok)
    BY <1>3 DEF Tick, IInv, LifeInv
  <2>2. req.kind # "unstamped" /\ tok.kind # "unstamped"
    BY <2>1 DEF Readable, Older
  <2>3. tok.tokens >= - TokCap /\ req.tokens >= - ReqCap
    <3>1. Cardinality(Calls \ InFlight) \in Nat /\ Cardinality(Calls) \in Nat
      BY FS_Difference, FS_CardinalityType
    <3>2. Cardinality(Calls \ InFlight) <= Cardinality(Calls)
      BY FS_Subset
    <3>3. Shortfall * Cardinality(Calls \ InFlight) <= TokCap
      BY <3>1, <3>2, Debts, ConstantTypes
    <3>4. tok.tokens >= - (Shortfall * Cardinality(Calls \ InFlight))
      BY <1>1, <3>1, Debts DEF DebtBounded
    <3>5. tok.tokens >= - TokCap
      BY <1>1, <3>1, <3>3, <3>4, Debts, ConstantTypes DEF Hash
    <3>6. req.tokens \in 0 .. ReqCap
      BY DEF IInv, TypeOK
    <3> QED BY <3>5, <3>6, ConstantTypes
  <2>4. R' = Promise!Capped(R + ReqRate, ReqCap)
    BY <1>1, <2>1, <2>2, <2>3, Refilling, ConstantTypes DEF ReqCap
  <2>5. T' = Promise!Capped(T + TokRate, TokCap)
    BY <1>1, <2>1, <2>2, <2>3, Refilling, ConstantTypes DEF TokCap
  <2> QED BY <2>4, <2>5 DEF Promise!Next, Promise!Refill
<1>4. ASSUME NEW c \in Calls, Reconcile(c) PROVE Promise!Next \/ UNCHANGED Promise!vars
  <2>1. PICK actual \in Actuals :
           tok' = IF calls[c].est - actual = 0 THEN tok
                  ELSE IF tok.kind = "absent"
                  THEN [kind |-> "unstamped", tokens |-> calls[c].est - actual, age |-> 0]
                  ELSE [tok EXCEPT !.tokens = @ + (calls[c].est - actual)]
    BY <1>4 DEF Reconcile
  <2>2. req' = req /\ calls[c].pc = "admitted"
    BY <1>4 DEF Reconcile
  <2>3. calls[c].est \in Estimates
    BY <2>2 DEF IInv, EstimateInv
  <2>4. PICK cost \in Estimates : cost = calls[c].est /\ cost \in Nat /\ actual \in Nat
    BY <2>3, ConstantTypes
  <2>5. R' = R
    BY <2>2
  <2>6. CASE cost = actual
    <3>1. T' = T
      BY <2>1, <2>4, <2>6
    <3> QED BY <2>5, <3>1 DEF Promise!vars
  <2>7. CASE cost # actual
    <3>1. cost - actual # 0 /\ cost - actual \in Int
      BY <2>4, <2>7
    <3>2. tok.kind = "whole" /\ tok' = [tok EXCEPT !.tokens = @ + (cost - actual)]
      <4>1. tok.kind # "absent"
        BY <2>1, <2>4, <3>1 DEF Readable
      <4>2. tok' = [tok EXCEPT !.tokens = @ + (cost - actual)]
        BY <2>1, <2>4, <3>1, <4>1
      <4>3. tok.kind # "unstamped"
        BY <1>1, <4>2 DEF Readable, Hash
      <4> QED BY <1>1, <4>1, <4>2, <4>3 DEF Hash
    <3>3. /\ cost - actual > 0 => T' = Promise!Capped(T + (cost - actual), TokCap)
          /\ cost - actual <= 0 => T + (cost - actual) <= T' /\ T' <= T
      BY <1>1, <3>1, <3>2, Correcting, ConstantTypes
    <3>4. T \in Int
      BY <1>1, LevelBounds, ConstantTypes
    <3>5. CASE actual < cost
      <4>1. cost - actual > 0
        BY <2>4, <3>5
      <4>2. Promise!Refund(cost - actual)
        BY <2>5, <3>3, <4>1 DEF Promise!Refund
      <4> QED BY <2>4, <3>5, <4>2 DEF Promise!Next
    <3>6. CASE ~ (actual < cost)
      <4>1. cost - actual <= 0 /\ T - (actual - cost) = T + (cost - actual)
        BY <2>4, <3>4, <3>6
      <4>2. Promise!Surcharge(actual - cost)
        BY <2>5, <3>3, <4>1 DEF Promise!Surcharge
      <4> QED BY <2>4, <3>6, <4>2 DEF Promise!Next
    <3> QED BY <3>5, <3>6
  <2> QED BY <2>6, <2>7
<1>5. ASSUME UNCHANGED <<req, tok>> PROVE UNCHANGED Promise!vars
  BY <1>5 DEF Promise!vars
<1>6. ASSUME NEW c \in Calls, Check(c) \/ ScriptFails(c) \/ EndUnreconciled(c)
      PROVE  UNCHANGED <<req, tok>>
  BY <1>6 DEF Check, ScriptFails, EndUnreconciled
<1>7. CASE UNCHANGED vars
  BY <1>5, <1>7 DEF vars
<1> QED BY <1>2, <1>3, <1>4, <1>5, <1>6, <1>7 DEF Next, Run, End

-----------------------------------------------------------------------------
\* What is let through in an interval.

\* Whichever of its possible nows a script comes with, unless the bucket's ts is
\* newer: what was given away up to that time, and what is there to give then, are
\* within the budget less the refill since.
Within(h, cap, rate, given, budget) ==
    \A lag \in 0 .. MaxLag :
        h.kind = "absent" \/ lag <= h.age =>
            given + Level(h, cap, rate, lag) <= budget - lag * rate

\* The level of a hash for a now that is not older than its ts.
LEMMA LevelSince ==
    ASSUME NEW h \in Hash, h.kind # "absent", NEW cap \in Nat, NEW rate \in Nat,
           NEW lag \in Nat, lag <= h.age
    PROVE  /\ h.age * rate \in Nat /\ lag * rate \in Nat
           /\ Level(h, cap, rate, lag) = Least(cap, h.tokens + (h.age * rate - lag * rate))
<1>1. h.age \in Nat
  BY DEF Hash
<1>2. CASE h.age > lag
  BY <1>2, LevelOf
<1>3. CASE h.age = lag
  <2>1. h.age * rate - lag * rate = 0 /\ ~ (h.age > lag)
    BY <1>1, <1>3, LevelOf
  <2> QED BY <2>1, LevelOf
<1>4. h.age > lag \/ h.age = lag
  BY <1>1
<1> QED BY <1>2, <1>3, <1>4

\* A lag's refill is at most that of the longest one.
LEMMA LagRefill ==
    ASSUME NEW lag \in 0 .. MaxLag, NEW rate \in Nat
    PROVE  lag * rate \in Nat /\ MaxLag * rate \in Nat /\ lag * rate <= MaxLag * rate
BY ConstantTypes, Products

\* An interval may begin with whatever is in the bucket.
LEMMA WithinFresh ==
    ASSUME NEW h \in Hash, NEW cap \in Nat, NEW rate \in Nat
    PROVE  Within(h, cap, rate, 0, cap + MaxLag * rate)
<1> SUFFICES ASSUME NEW lag \in 0 .. MaxLag
             PROVE  0 + Level(h, cap, rate, lag) <= (cap + MaxLag * rate) - lag * rate
  BY DEF Within
<1>1. lag \in Nat
  BY ConstantTypes
<1>2. Level(h, cap, rate, lag) \in Int /\ Level(h, cap, rate, lag) <= cap
  BY <1>1, LevelBounds
<1> QED BY <1>2, LagRefill

\* A script that was not overtaken leaves what there was at its now, less the cost;
\* one that was sets ts back to its own, by no more than the longest lag.
LEMMA WithinCharged ==
    ASSUME NEW h \in Hash, NEW cap \in Nat, NEW rate \in Nat,
           NEW lag \in 0 .. MaxLag, NEW cost \in Nat, NEW given \in Int,
           NEW budget \in Int, NEW budget1 \in Int, budget <= budget1,
           h.kind # "absent" /\ h.age < lag => budget + MaxLag * rate <= budget1,
           Within(h, cap, rate, given, budget),
           NEW n \in Int, n + cost <= Level(h, cap, rate, lag)
    PROVE  Within(Stored(n, lag), cap, rate, given + cost, budget1)
<1> DEFINE then == Level(h, cap, rate, lag)
           h1 == Stored(n, lag)
<1>1. lag \in Nat /\ MaxLag \in Nat /\ h.age \in Nat
  BY ConstantTypes DEF Hash
<1>2. then \in Int /\ then <= cap /\ n + cost <= then
  BY <1>1, LevelBounds
<1>3. h1 \in Hash /\ h1.kind = "whole" /\ h1.tokens = n /\ h1.age = lag
  BY <1>1 DEF Stored, Hash
<1>4. given + then <= budget1 - lag * rate
  <2>1. CASE h.kind = "absent" \/ lag <= h.age
    <3>1. given + then <= budget - lag * rate
      BY <2>1 DEF Within
    <3> HIDE DEF then
    <3> QED BY <1>2, <3>1, LagRefill
  <2>2. CASE ~ (h.kind = "absent" \/ lag <= h.age)
    <3>1. h.kind # "absent" /\ h.age < lag /\ h.age \in 0 .. MaxLag
      BY <1>1, <2>2
    <3>2. then = Level(h, cap, rate, h.age)
      BY <1>1, <3>1 DEF Level
    <3>3. given + then <= budget - h.age * rate
      BY <1>1, <3>1, <3>2 DEF Within
    <3>4. h.age * rate \in Nat
      BY <3>1, LagRefill
    <3> HIDE DEF then
    <3> QED BY <1>2, <3>1, <3>3, <3>4, LagRefill
  <2> QED BY <2>1, <2>2
<1> HIDE DEF then, h1
<1> SUFFICES ASSUME NEW at \in 0 .. MaxLag, at <= lag
             PROVE  (given + cost) + Level(h1, cap, rate, at) <= budget1 - at * rate
  BY <1>3 DEF Within, h1
<1>5. at \in Nat
  BY ConstantTypes
<1>6. Level(h1, cap, rate, at) = Least(cap, n + (lag * rate - at * rate))
  <2>1. h1.kind # "absent" /\ at <= h1.age
    BY <1>3
  <2>2. Level(h1, cap, rate, at) = Least(cap, h1.tokens + (h1.age * rate - at * rate))
    <3>1. \A g \in Hash : g.kind # "absent" /\ at <= g.age =>
             Level(g, cap, rate, at) = Least(cap, g.tokens + (g.age * rate - at * rate))
      BY <1>5, LevelSince
    <3> QED BY <1>3, <2>1, <3>1
  <2> QED BY <1>3, <2>2
<1>7. at * rate \in Nat /\ lag * rate \in Nat
  BY LagRefill
<1> QED BY <1>2, <1>4, <1>6, <1>7 DEF Least

\* A tick moves every now on by one, and refills once; a key that expires was full
\* at each of them, as the longest lag leaves one of its two windows.
LEMMA WithinOlder ==
    ASSUME NEW h \in Hash, NEW rate \in Nat, NEW cap \in Nat, cap = rate * Window,
           unused \in 0 .. TTL, LifeOf(h), MaxLag <= Window, h.tokens >= 0,
           NEW given \in Int, NEW budget \in Int, NEW budget1 \in Int, budget + rate <= budget1,
           Within(h, cap, rate, given, budget),
           NEW h1, h1 = Older(h)
    PROVE  Within(h1, cap, rate, given, budget1)
<1> SUFFICES ASSUME NEW lag \in 0 .. MaxLag, h1.kind = "absent" \/ lag <= h1.age
             PROVE  given + Level(h1, cap, rate, lag) <= budget1 - lag * rate
  BY DEF Within
<1>1. lag \in Nat /\ MaxLag \in Nat /\ Window \in Nat /\ h.tokens \in Int /\ h.age \in Nat
  BY ConstantTypes DEF Hash
<1>2. lag * rate \in Nat
  BY LagRefill
\* The now of this script, a tick ago.
<1> DEFINE ago == IF lag = 0 THEN 0 ELSE lag - 1
<1>3. /\ ago \in 0 .. MaxLag /\ ago \in Nat /\ ago * rate \in Nat
      /\ lag * rate <= ago * rate + rate
      /\ lag # 0 => lag * rate = ago * rate + rate
  <2>1. CASE lag = 0
    <3>1. lag * rate = 0 /\ ago * rate = 0
      BY <2>1
    <3> QED BY <1>1, <2>1, <3>1
  <2>2. CASE lag # 0
    <3>1. ago \in Nat /\ ago = lag - 1 /\ ago + 1 = lag
      BY <1>1, <2>2
    <3>2. (ago + 1) * rate = ago * rate + 1 * rate /\ 1 * rate = rate /\ ago * rate \in Nat
      BY <3>1, Products
    <3> QED BY <1>1, <2>2, <3>1, <3>2
  <2> QED BY <2>1, <2>2
<1>4. \A x \in Int : /\ h.kind = "absent" \/ ago <= h.age
                     /\ x <= Level(h, cap, rate, ago) + (IF lag = 0 THEN rate ELSE 0)
                     => given + x <= budget1 - lag * rate
  <2> SUFFICES ASSUME NEW x \in Int, h.kind = "absent" \/ ago <= h.age,
                      x <= Level(h, cap, rate, ago) + (IF lag = 0 THEN rate ELSE 0)
               PROVE  given + x <= budget1 - lag * rate
    OBVIOUS
  <2>1. given + Level(h, cap, rate, ago) <= budget - ago * rate
    BY <1>3 DEF Within
  <2>2. Level(h, cap, rate, ago) \in Int
    BY <1>3, LevelBounds
  <2>3. lag = 0 => lag * rate = 0 /\ ago * rate = 0
    OBVIOUS
  <2> HIDE DEF ago
  <2> QED BY <1>1, <1>2, <1>3, <2>1, <2>2, <2>3
<1> SUFFICES /\ Level(h1, cap, rate, lag) \in Int
             /\ h.kind = "absent" \/ ago <= h.age
             /\ Level(h1, cap, rate, lag) <= Level(h, cap, rate, ago) + (IF lag = 0 THEN rate ELSE 0)
  BY <1>4
<1> HIDE DEF ago
<1>5. CASE h.kind = "absent"
  <2>1. h1 = h /\ Level(h, cap, rate, ago) = cap /\ Level(h1, cap, rate, lag) = cap
    BY <1>5 DEF Older, Level
  <2> QED BY <1>5, <2>1
<1>6. CASE h.kind = "unstamped"
  <2>1. h1 = h /\ lag <= h.age
    BY <1>6 DEF Older
  <2>2. ago <= lag
    BY <1>1 DEF ago
  <2>3. PICK a \in Nat :
          /\ Level(h1, cap, rate, lag) = Least(cap, h.tokens + (a - lag * rate))
          /\ Level(h, cap, rate, ago) = Least(cap, h.tokens + (a - ago * rate))
    <3>1. /\ h.age * rate \in Nat
          /\ Level(h, cap, rate, lag) = Least(cap, h.tokens + (h.age * rate - lag * rate))
      BY <1>1, <1>6, <2>1, LevelSince
    <3>2. ago <= h.age
      BY <1>1, <1>3, <2>1, <2>2
    <3>3. Level(h, cap, rate, ago) = Least(cap, h.tokens + (h.age * rate - ago * rate))
      BY <1>3, <1>6, <3>2, LevelSince
    <3> QED BY <2>1, <3>1, <3>3
  <2>4. ago * rate <= lag * rate
    BY <1>1, <1>3, <2>2, Products
  <2> QED BY <1>1, <1>2, <1>3, <2>1, <2>2, <2>3, <2>4 DEF Least
<1>7. CASE h.kind = "whole"
  <2>1. h.age >= unused
    BY <1>7 DEF LifeOf
  <2>2. /\ h.age * rate \in Nat /\ (h.age + 1) * rate = h.age * rate + rate
    <3>1. (h.age + 1) * rate = h.age * rate + 1 * rate /\ 1 * rate = rate
      BY <1>1, Products
    <3> QED BY <1>1, <3>1, Products
  <2>3. ago <= h.age =>
          Level(h, cap, rate, ago) = Least(cap, h.tokens + (h.age * rate - ago * rate))
    BY <1>3, <1>7, LevelSince
  <2>4. CASE unused + 1 = TTL
    <3>1. h1 = Absent /\ Level(h1, cap, rate, lag) = cap
      BY <1>7, <2>4 DEF Older, Absent, Level
    <3>2. ago <= h.age
      BY <1>1, <2>1, <2>4, ConstantTypes DEF ago, TTL
    <3>3. 2 * cap <= h.age * rate + rate
      <4>1. TTL * rate <= (h.age + 1) * rate
        BY <1>1, <2>1, <2>4, ConstantTypes, Products
      <4>2. TTL * rate = 2 * cap
        BY <1>1 DEF TTL
      <4> QED BY <2>2, <4>1, <4>2
    <3>4. h.tokens + cap >= lag * rate
      <4>1. MaxLag * rate <= Window * rate /\ cap = Window * rate /\ MaxLag * rate \in Nat
        BY <1>1, Products
      <4> QED BY <1>1, <1>2, <4>1, LagRefill
    <3>5. PICK n \in Int : n = h.tokens + (h.age * rate - ago * rate)
                           /\ n + (IF lag = 0 THEN rate ELSE 0) >= cap
      <4>1. lag = 0 => lag * rate = 0 /\ ago * rate = 0
        BY DEF ago
      <4>2. PICK a \in Nat, l \in Nat, g \in Nat :
               a = h.age * rate /\ l = lag * rate /\ g = ago * rate
        BY <1>2, <1>3, <2>2
      <4>3. h.tokens + (a - g) \in Int /\ (h.tokens + (a - g)) + (IF lag = 0 THEN rate ELSE 0) >= cap
        <5>1. 2 * cap <= a + rate /\ l <= h.tokens + cap
              /\ (lag = 0 => l = 0 /\ g = 0) /\ (lag # 0 => l = g + rate)
          BY <1>1, <1>3, <3>3, <3>4, <4>1, <4>2
        <5>2. CASE lag = 0
          <6>1. g = 0 /\ l = 0
            BY <5>1, <5>2
          <6> QED BY <1>1, <4>2, <5>1, <5>2, <6>1
        <5>3. CASE lag # 0
          <6>1. l = g + rate
            BY <5>1, <5>3
          <6> QED BY <1>1, <4>2, <5>1, <5>3, <6>1
        <5> QED BY <5>2, <5>3
      <4> QED BY <4>2, <4>3
    <3> QED BY <2>3, <3>1, <3>2, <3>5 DEF Least
  <2>5. CASE unused + 1 # TTL
    <3>1. h1 = [h EXCEPT !.age = @ + 1]
      BY <1>7, <2>5 DEF Older
    <3>2. h1 \in Hash /\ h1.kind # "absent" /\ h1.tokens = h.tokens /\ h1.age = h.age + 1
      BY <1>7, <3>1 DEF Hash
    <3>3. lag <= h1.age /\ ago <= h.age
      BY <1>1, <3>2, <1>7, <3>1 DEF ago
    <3>4. Level(h1, cap, rate, lag) = Least(cap, h.tokens + ((h.age * rate + rate) - lag * rate))
      <4>1. Level(h1, cap, rate, lag) = Least(cap, h1.tokens + (h1.age * rate - lag * rate))
        <5>1. \A g \in Hash : g.kind # "absent" /\ lag <= g.age =>
                 Level(g, cap, rate, lag) = Least(cap, g.tokens + (g.age * rate - lag * rate))
          BY <1>1, LevelSince
        <5> QED BY <3>2, <3>3, <5>1
      <4> QED BY <2>2, <3>2, <4>1
    <3>5. lag = 0 => lag * rate = 0 /\ ago * rate = 0
      BY DEF ago
    <3>6. PICK a \in Nat, l \in Nat, g \in Nat :
             a = h.age * rate /\ l = lag * rate /\ g = ago * rate
      BY <1>2, <1>3, <2>2
    <3>7. /\ Level(h1, cap, rate, lag) = Least(cap, h.tokens + ((a + rate) - l))
          /\ Level(h, cap, rate, ago) = Least(cap, h.tokens + (a - g))
          /\ (lag = 0 => l = 0 /\ g = 0) /\ (lag # 0 => l = g + rate)
      BY <1>3, <2>3, <3>3, <3>4, <3>5, <3>6
    <3>8. /\ Least(cap, h.tokens + ((a + rate) - l)) \in Int
          /\ Least(cap, h.tokens + ((a + rate) - l)) <=
                Least(cap, h.tokens + (a - g)) + (IF lag = 0 THEN rate ELSE 0)
      BY <1>1, <3>6, <3>7 DEF Least
    <3> QED BY <3>3, <3>7, <3>8
  <2> QED BY <2>4, <2>5
<1> QED BY <1>5, <1>6, <1>7 DEF Hash

\* What a hash is lowered by may be given, and what it is raised by is taken back.
LEMMA WithinCorrected ==
    ASSUME NEW h \in Hash, NEW cap \in Nat, NEW rate \in Nat, NEW h1 \in Hash,
           h.kind = "absent" \/ (h1.kind = h.kind /\ h1.age = h.age),
           NEW given \in Int, NEW given1 \in Int, NEW budget \in Int,
           given1 <= given, given1 + h1.tokens <= given + h.tokens,
           Within(h, cap, rate, given, budget)
    PROVE  Within(h1, cap, rate, given1, budget)
<1> SUFFICES ASSUME NEW lag \in 0 .. MaxLag, h1.kind = "absent" \/ lag <= h1.age
             PROVE  given1 + Level(h1, cap, rate, lag) <= budget - lag * rate
  BY DEF Within
<1>1. lag \in Nat /\ h.tokens \in Int /\ h1.tokens \in Int /\ h.age \in Nat /\ lag * rate \in Nat
  BY ConstantTypes, LagRefill DEF Hash
<1>2. /\ Level(h, cap, rate, lag) \in Int
      /\ Level(h1, cap, rate, lag) \in Int /\ Level(h1, cap, rate, lag) <= cap
  BY <1>1, LevelBounds
<1>3. CASE h.kind = "absent"
  <2>1. given + cap <= budget - lag * rate
    BY <1>3 DEF Within, Level
  <2> QED BY <1>1, <1>2, <2>1
<1>4. CASE h.kind # "absent"
  <2>1. h1.kind # "absent" /\ h1.age = h.age /\ lag <= h.age
    BY <1>4
  <2>2. given + Level(h, cap, rate, lag) <= budget - lag * rate
    BY <2>1 DEF Within
  <2>3. PICK a \in Int : /\ Level(h, cap, rate, lag) = Least(cap, h.tokens + a)
                         /\ Level(h1, cap, rate, lag) = Least(cap, h1.tokens + a)
    <3>1. /\ Level(h, cap, rate, lag) = Least(cap, h.tokens + (h.age * rate - lag * rate))
          /\ h.age * rate \in Nat
      BY <1>1, <1>4, <2>1, LevelSince
    <3>2. Level(h1, cap, rate, lag) = Least(cap, h1.tokens + (h.age * rate - lag * rate))
      <4>1. \A g \in Hash : g.kind # "absent" /\ lag <= g.age =>
               Level(g, cap, rate, lag) = Least(cap, g.tokens + (g.age * rate - lag * rate))
        BY <1>1, LevelSince
      <4>2. h1.kind # "absent" /\ lag <= h1.age /\ h1.age = h.age
        BY <2>1
      <4> QED BY <4>1, <4>2
    <3> QED BY <1>1, <3>1, <3>2
  <2> QED BY <1>1, <1>2, <2>1, <2>2, <2>3 DEF Least
<1> QED BY <1>3, <1>4

\* A debt is not given away a second time when a key expires and it is forgiven:
\* what counts against the budget is the bucket as if it owed nothing.
Solvent(h) == [h EXCEPT !.tokens = IF @ < 0 THEN 0 ELSE @]

LEMMA SolventHash ==
    ASSUME NEW h \in Hash
    PROVE  /\ Solvent(h) \in Hash /\ Solvent(h).kind = h.kind /\ Solvent(h).age = h.age
           /\ Solvent(h).tokens = (IF h.tokens < 0 THEN 0 ELSE h.tokens)
           /\ Solvent(h).tokens >= 0
           /\ \A cap \in Nat, rate \in Nat, lag \in Nat :
                 /\ Level(h, cap, rate, lag) \in Int
                 /\ Level(Solvent(h), cap, rate, lag) \in Int
                 /\ Level(h, cap, rate, lag) <= Level(Solvent(h), cap, rate, lag)
                 /\ 0 <= Level(Solvent(h), cap, rate, lag)
<1> DEFINE g == Solvent(h)
<1>1. h.tokens \in Int /\ h.age \in Nat
  BY DEF Hash
<1>2. /\ g \in Hash /\ g.kind = h.kind /\ g.age = h.age
      /\ g.tokens = (IF h.tokens < 0 THEN 0 ELSE h.tokens) /\ g.tokens >= 0
  BY <1>1 DEF Solvent, Hash
<1> HIDE DEF g
<1>3. ASSUME NEW cap \in Nat, NEW rate \in Nat, NEW lag \in Nat
      PROVE  /\ Level(h, cap, rate, lag) \in Int /\ Level(g, cap, rate, lag) \in Int
             /\ Level(h, cap, rate, lag) <= Level(g, cap, rate, lag)
             /\ 0 <= Level(g, cap, rate, lag)
  <2>1. /\ Level(h, cap, rate, lag) \in Int /\ Level(g, cap, rate, lag) \in Int
        /\ 0 <= Level(g, cap, rate, lag)
    BY <1>2, LevelBounds
  <2>2. PICK a \in Int :
          /\ h.kind # "absent" => Level(h, cap, rate, lag) = Least(cap, h.tokens + a)
          /\ h.kind # "absent" => Level(g, cap, rate, lag) = Least(cap, g.tokens + a)
    <3>1. (IF h.age > lag THEN (h.age - lag) * rate ELSE 0) \in Int
      BY <1>1
    <3> QED BY <1>2, <3>1 DEF Level
  <2>3. h.kind = "absent" => Level(h, cap, rate, lag) = cap /\ Level(g, cap, rate, lag) = cap
    BY <1>2 DEF Level
  <2> QED BY <1>1, <1>2, <2>1, <2>2, <2>3 DEF Least
<1> QED BY <1>2, <1>3 DEF g

\* The counters.
UsageTypes == use \in [ticks : Nat, overtaken : Nat, admitted : Nat, tokens : Int]

\* The budget after each kind of step.
LEMMA Budgets ==
    ASSUME NEW cap \in Nat, NEW rate \in Nat, UsageTypes, UsageTypes'
    PROVE  /\ Budget(cap, rate) \in Nat /\ Budget(cap, rate)' \in Nat
           /\ use'.ticks = use.ticks /\ use'.overtaken = use.overtaken =>
                 Budget(cap, rate)' = Budget(cap, rate)
           /\ use'.ticks = use.ticks + 1 /\ use'.overtaken = use.overtaken =>
                 Budget(cap, rate)' = Budget(cap, rate) + rate
           /\ use'.ticks = use.ticks /\ use'.overtaken = use.overtaken + 1 =>
                 Budget(cap, rate)' = Budget(cap, rate) + MaxLag * rate
           /\ use'.ticks = 0 /\ use'.overtaken = 0 =>
                 Budget(cap, rate)' = cap + MaxLag * rate
<1> DEFINE spare == MaxLag * rate
           allowed(n, o) == cap + (n + MaxLag) * rate + o * spare
<1>1. MaxLag \in Nat /\ spare \in Nat
  BY ConstantTypes, Products
<1>2. ASSUME NEW n \in Nat, NEW o \in Nat
      PROVE  /\ allowed(n, o) \in Nat
             /\ allowed(n + 1, o) = allowed(n, o) + rate
             /\ allowed(n, o + 1) = allowed(n, o) + spare
  <2>1. /\ (n + MaxLag) * rate \in Nat /\ o * spare \in Nat
        /\ ((n + MaxLag) + 1) * rate = (n + MaxLag) * rate + 1 * rate /\ 1 * rate = rate
        /\ (o + 1) * spare = o * spare + 1 * spare /\ 1 * spare = spare
    <3> HIDE DEF spare
    <3> QED BY <1>1, Products
  <2>2. (n + 1) + MaxLag = (n + MaxLag) + 1
    BY <1>1
  <2> HIDE DEF spare
  <2> QED BY <1>1, <2>1, <2>2
<1>3. allowed(0, 0) = cap + spare
  <2>1. 0 + MaxLag = MaxLag /\ 0 * spare = 0
    BY <1>1
  <2> QED BY <1>1, <2>1
<1>4. /\ Budget(cap, rate) = allowed(use.ticks, use.overtaken)
      /\ Budget(cap, rate)' = allowed(use'.ticks, use'.overtaken)
  BY DEF Budget
<1>5. /\ use.ticks \in Nat /\ use.overtaken \in Nat
      /\ use'.ticks \in Nat /\ use'.overtaken \in Nat
  BY DEF UsageTypes
<1> HIDE DEF allowed, spare
<1>6. /\ Budget(cap, rate) \in Nat /\ Budget(cap, rate)' \in Nat
      /\ allowed(use.ticks + 1, use.overtaken) = Budget(cap, rate) + rate
      /\ allowed(use.ticks, use.overtaken + 1) = Budget(cap, rate) + spare
  <2>1. /\ allowed(use.ticks, use.overtaken) \in Nat
        /\ allowed(use.ticks + 1, use.overtaken) = allowed(use.ticks, use.overtaken) + rate
        /\ allowed(use.ticks, use.overtaken + 1) = allowed(use.ticks, use.overtaken) + spare
    BY Zenon, <1>2, <1>5
  <2>2. allowed(use'.ticks, use'.overtaken) \in Nat
    BY Zenon, <1>2, <1>5
  <2> QED BY Zenon, <1>4, <2>1, <2>2
<1>7. use'.ticks = use.ticks /\ use'.overtaken = use.overtaken =>
         Budget(cap, rate)' = Budget(cap, rate)
  BY Zenon, <1>4
<1>8. use'.ticks = use.ticks + 1 /\ use'.overtaken = use.overtaken =>
         Budget(cap, rate)' = Budget(cap, rate) + rate
  BY Zenon, <1>4, <1>6
<1>9. use'.ticks = use.ticks /\ use'.overtaken = use.overtaken + 1 =>
         Budget(cap, rate)' = Budget(cap, rate) + spare
  BY Zenon, <1>4, <1>6
<1>10. use'.ticks = 0 /\ use'.overtaken = 0 => Budget(cap, rate)' = cap + spare
  BY Zenon, <1>3, <1>4
<1> QED BY Zenon, <1>6, <1>7, <1>8, <1>9, <1>10 DEF spare

\* A step with counters is one without, and the counters keep their types.
LEMMA UsageStep ==
    ASSUME IInv, UsageTypes, [UsageNext]_<<vars, use>>
    PROVE  [Next]_vars /\ UsageTypes'
<1>1. CASE Restart
  BY <1>1 DEF Restart, UsageTypes, Nothing
<1>2. CASE TickCounted
  BY <1>2 DEF TickCounted, UsageTypes, Next
<1>3. ASSUME NEW c \in Calls, ScriptCounted(c) PROVE [Next]_vars /\ UsageTypes'
  <2>1. Script(c) /\ calls[c].pc = "checking"
    BY <1>3 DEF ScriptCounted, Script
  <2>2. calls[c].est \in Nat
    BY <2>1, ConstantTypes DEF IInv, EstimateInv
  <2>3. PICK o \in Nat, a \in Nat, t \in Int :
           use' = [use EXCEPT !.overtaken = o, !.admitted = a, !.tokens = t]
    <3>1. /\ use.overtaken \in Nat /\ use.overtaken + 1 \in Nat
          /\ use.admitted \in Nat /\ use.admitted + 1 \in Nat
          /\ use.tokens \in Int /\ use.tokens + calls[c].est \in Int
      BY <2>2 DEF UsageTypes
    <3> QED BY <1>3, <3>1 DEF ScriptCounted
  <2> QED BY <2>1, <2>3 DEF UsageTypes, Next, Run
<1>4. ASSUME NEW c \in Calls, ReconcileCounted(c) PROVE [Next]_vars /\ UsageTypes'
  <2>1. Reconcile(c)
    BY <1>4 DEF ReconcileCounted
  <2>2. [Next]_vars
    BY <2>1 DEF Next, End
  <2>3. tok.tokens \in Int /\ tok'.tokens \in Int
    BY <2>2, StepInv DEF IInv, TypeOK, Hash
  <2> QED BY <1>4, <2>2, <2>3 DEF ReconcileCounted, UsageTypes
<1>5. ASSUME NEW c \in Calls, Uncounted(c) PROVE [Next]_vars /\ UsageTypes'
  BY <1>5 DEF Uncounted, UsageTypes, Next, Run, End
<1>6. CASE UNCHANGED <<vars, use>>
  BY <1>6 DEF UsageTypes
<1> QED BY <1>1, <1>2, <1>3, <1>4, <1>5, <1>6 DEF UsageNext

\* The script of a call decides about it, and charges it if it admits it.
LEMMA Verdict ==
    ASSUME IInv, NEW c \in Calls, Script(c)
    PROVE  LET lag   == calls[c].for
               rtok  == Level(req, ReqCap, ReqRate, lag)
               ttok  == Level(tok, TokCap, TokRate, lag)
               allow == Enough(rtok, ttok, calls[c].est)
           IN  /\ calls'[c].pc = "admitted" <=> allow
               /\ req' = Stored(rtok - (IF allow THEN 1 ELSE 0), lag)
               /\ tok' = Stored(ttok - (IF allow THEN calls[c].est ELSE 0), lag)
               /\ rtok \in Int /\ ttok \in Int
<1> DEFINE lag   == calls[c].for
           rtok  == Level(req, ReqCap, ReqRate, lag)
           ttok  == Level(tok, TokCap, TokRate, lag)
           allow == Enough(rtok, ttok, calls[c].est)
<1>1. calls \in [Calls -> Call] /\ req \in Hash /\ tok \in Hash /\ lag \in Nat
  BY DEF IInv, TypeOK, Call
<1>2. rtok \in Int /\ ttok \in Int
  BY <1>1, ConstantTypes, LevelBounds
<1>3. rtok - 0 = rtok /\ ttok - 0 = ttok
  BY <1>2
<1>4. /\ req' = Stored(IF allow THEN rtok - 1 ELSE rtok, lag)
      /\ tok' = Stored(IF allow THEN ttok - calls[c].est ELSE ttok, lag)
      /\ calls' = [calls EXCEPT
            ![c] = IF allow THEN [@ EXCEPT !.pc = "admitted", !.for = 0] ELSE Away]
  BY DEF Script
<1>5. calls'[c].pc = "admitted" <=> allow
  BY <1>1, <1>4 DEF Call, Away
<1> HIDE DEF rtok, ttok, allow, lag
<1>6. CASE allow
  BY <1>2, <1>4, <1>5, <1>6 DEF lag, rtok, ttok, allow
<1>7. CASE ~ allow
  BY <1>2, <1>3, <1>4, <1>5, <1>7 DEF lag, rtok, ttok, allow
<1> QED BY <1>6, <1>7

\* What was given in the interval is covered by the budget, less what is left.
Covered(h, cap, rate, given) == Within(Solvent(h), cap, rate, given, Budget(cap, rate))

UsageInv ==
    /\ IInv /\ UsageTypes
    /\ Covered(req, ReqCap, ReqRate, use.admitted)
    /\ Covered(tok, TokCap, TokRate, use.tokens)

LEMMA CoveredBound ==
    ASSUME NEW h \in Hash, NEW cap \in Nat, NEW rate \in Nat, NEW given \in Int,
           UsageTypes, Covered(h, cap, rate, given)
    PROVE  given <= Budget(cap, rate)
<1> DEFINE level == Level(Solvent(h), cap, rate, 0)
<1>1. level \in Int /\ 0 <= level /\ Solvent(h).age \in Nat
  BY SolventHash DEF Hash
<1>2. 0 \in 0 .. MaxLag /\ 0 * rate = 0
  BY ConstantTypes
<1>3. given + level <= Budget(cap, rate) - 0 * rate
  BY <1>1, <1>2 DEF Covered, Within
<1>4. Budget(cap, rate) \in Int
  <2>1. use.ticks + MaxLag \in Nat /\ use.overtaken \in Nat /\ MaxLag * rate \in Nat
    BY ConstantTypes, Products DEF UsageTypes
  <2>2. (use.ticks + MaxLag) * rate \in Nat /\ use.overtaken * (MaxLag * rate) \in Nat
    BY <2>1, Products
  <2> QED BY <2>2 DEF Budget
<1> HIDE DEF level
<1> QED BY <1>1, <1>2, <1>3, <1>4

\* The script of a call, on one of the two hashes.
LEMMA ScriptCovered ==
    ASSUME IInv, UsageTypes, UsageTypes', NEW c \in Calls, ScriptCounted(c),
           NEW h \in {req, tok}, NEW cap \in Nat, NEW rate \in Nat,
           NEW cost \in Nat, cost = 0 \/ cost <= Level(h, cap, rate, calls[c].for),
           NEW given \in Int, Covered(h, cap, rate, given),
           NEW h1, h1 = Stored(Level(h, cap, rate, calls[c].for) - cost, calls[c].for)
    PROVE  Within(Solvent(h1), cap, rate, given + cost, Budget(cap, rate)')
<1> DEFINE lag == calls[c].for
           left == Level(h, cap, rate, lag) - cost
           n == IF left < 0 THEN 0 ELSE left
<1>1. h \in Hash /\ h.kind # "unstamped" /\ lag \in 0 .. MaxLag /\ lag \in Nat
  <2>1. /\ calls[c].pc = "checking" /\ calls[c] \in Call
        /\ {req.kind, tok.kind} \subseteq {"absent", "whole"}
    BY DEF ScriptCounted, Script, IInv, TypeOK
  <2>2. lag \in Nat /\ lag <= MaxLag
    BY <2>1 DEF Call, IInv, TypeOK
  <2> QED BY <2>1, <2>2, ConstantTypes DEF IInv, TypeOK
<1>2. /\ use'.ticks = use.ticks
      /\ use'.overtaken = use.overtaken \/ use'.overtaken = use.overtaken + 1
      /\ h.kind = "whole" /\ h.age < lag => use'.overtaken = use.overtaken + 1
  BY DEF ScriptCounted, Overtaken, UsageTypes
<1>3. MaxLag * rate \in Nat
  BY ConstantTypes, Products
<1>4. PICK budget \in Int, budget1 \in Int :
         /\ budget = Budget(cap, rate) /\ budget1 = Budget(cap, rate)'
         /\ budget <= budget1
         /\ h.kind = "whole" /\ h.age < lag => budget + MaxLag * rate <= budget1
  <2>1. /\ Budget(cap, rate) \in Nat /\ Budget(cap, rate)' \in Nat
        /\ use'.overtaken = use.overtaken => Budget(cap, rate)' = Budget(cap, rate)
        /\ use'.overtaken = use.overtaken + 1 =>
              Budget(cap, rate)' = Budget(cap, rate) + MaxLag * rate
    BY <1>2, Budgets
  <2> HIDE DEF lag
  <2> QED BY <1>2, <1>3, <2>1
<1>5. /\ left \in Int /\ n \in Int /\ h1 \in Hash
      /\ n + cost <= Level(Solvent(h), cap, rate, lag)
  <2>1. /\ Level(h, cap, rate, lag) \in Int /\ Level(Solvent(h), cap, rate, lag) \in Int
        /\ Level(h, cap, rate, lag) <= Level(Solvent(h), cap, rate, lag)
        /\ 0 <= Level(Solvent(h), cap, rate, lag)
    BY <1>1, SolventHash
  <2>2. h1 \in Hash
    BY <1>1, <2>1 DEF Stored, Hash
  <2> QED BY <2>1, <2>2
<1>6. Solvent(h1) = Stored(n, lag)
  BY <1>1, <1>5 DEF Solvent, Stored
<1> HIDE DEF n, lag
<1>7. Within(Stored(n, lag), cap, rate, given + cost, budget1)
  <2>1. Solvent(h) \in Hash /\ Solvent(h).kind = h.kind /\ Solvent(h).age = h.age
    BY <1>1, SolventHash
  <2>2. Within(Solvent(h), cap, rate, given, budget)
    BY <1>4 DEF Covered
  <2>3. Solvent(h).kind # "absent" /\ Solvent(h).age < lag => budget + MaxLag * rate <= budget1
    BY <1>1, <1>4, <2>1 DEF Hash
  <2> QED BY <1>1, <1>4, <1>5, <2>1, <2>2, <2>3, WithinCharged
<1> QED BY <1>4, <1>6, <1>7

\* A tick, on one of them.
LEMMA TickCovered ==
    ASSUME MaxLag <= Window, IInv, UsageTypes, UsageTypes', TickCounted,
           NEW h \in {req, tok}, NEW rate \in Nat, NEW cap \in Nat, cap = rate * Window,
           NEW given \in Int, Covered(h, cap, rate, given)
    PROVE  Within(Solvent(Older(h)), cap, rate, given, Budget(cap, rate)')
<1>1. h \in Hash /\ LifeOf(h) /\ unused \in 0 .. TTL
  BY DEF IInv, TypeOK, LifeInv
<1>2. use'.ticks = use.ticks + 1 /\ use'.overtaken = use.overtaken
  BY DEF TickCounted, UsageTypes
<1>3. PICK b \in Int, b1 \in Int :
         b = Budget(cap, rate) /\ b1 = Budget(cap, rate)' /\ b + rate <= b1
  BY <1>2, Budgets
<1>4. PICK g \in Hash : g = Solvent(h) /\ g.tokens >= 0 /\ g.kind = h.kind /\ g.age = h.age
  BY <1>1, SolventHash
<1>5. Within(g, cap, rate, given, b) /\ LifeOf(g)
  BY <1>1, <1>3, <1>4 DEF Covered, LifeOf
<1>6. Within(Older(g), cap, rate, given, b1)
  BY <1>1, <1>3, <1>4, <1>5, WithinOlder
<1>7. Older(g) = Solvent(Older(h))
  <2>1. CASE h.kind # "whole"
    BY <1>4, <2>1 DEF Older
  <2>2. CASE h.kind = "whole" /\ unused + 1 = TTL
    BY <1>4, <2>2 DEF Older, Solvent, Absent
  <2>3. CASE h.kind = "whole" /\ unused + 1 # TTL
    <3>1. Older(h) = [h EXCEPT !.age = @ + 1] /\ Older(g) = [g EXCEPT !.age = @ + 1]
      BY <1>4, <2>3 DEF Older
    <3> QED BY <1>1, <1>4, <3>1 DEF Solvent, Hash
  <2> QED BY <2>1, <2>2, <2>3
<1> QED BY <1>3, <1>6, <1>7

\* The beginning of an interval, on one of them.
LEMMA RestartCovered ==
    ASSUME UsageTypes, UsageTypes', use' = Nothing, NEW h \in Hash,
           NEW cap \in Nat, NEW rate \in Nat
    PROVE  Within(Solvent(h), cap, rate, 0, Budget(cap, rate)')
<1>1. Budget(cap, rate)' = cap + MaxLag * rate
  BY Budgets DEF Nothing
<1>2. Within(Solvent(h), cap, rate, 0, cap + MaxLag * rate)
  BY SolventHash, WithinFresh
<1> QED BY <1>1, <1>2

\* A correction, on the token bucket: only a refund raises it, and is taken off.
LEMMA CorrectionCovered ==
    ASSUME IInv, IInv', UsageTypes, UsageTypes', NEW c \in Calls, ReconcileCounted(c),
           Covered(tok, TokCap, TokRate, use.tokens)
    PROVE  Within(Solvent(tok'), TokCap, TokRate, use'.tokens, Budget(TokCap, TokRate)')
<1>1. /\ tok \in Hash /\ tok' \in Hash /\ tok.tokens \in Int /\ tok'.tokens \in Int
      /\ use.tokens \in Int /\ use'.tokens \in Int /\ TokCap \in Nat /\ TokRate \in Nat
  BY ConstantTypes DEF IInv, TypeOK, Hash, UsageTypes
<1>2. /\ use'.ticks = use.ticks /\ use'.overtaken = use.overtaken
      /\ use'.tokens = IF tok'.tokens > tok.tokens
                       THEN use.tokens - (tok'.tokens - tok.tokens) ELSE use.tokens
  BY DEF ReconcileCounted, UsageTypes
<1>3. PICK b \in Int : b = Budget(TokCap, TokRate) /\ b = Budget(TokCap, TokRate)'
  BY <1>1, <1>2, Budgets
<1>4. tok.kind = "absent" \/ (tok'.kind = tok.kind /\ tok'.age = tok.age)
  BY <1>1 DEF ReconcileCounted, Reconcile, Hash
<1>5. PICK g \in Hash, g1 \in Hash :
         /\ g = Solvent(tok) /\ g1 = Solvent(tok')
         /\ g.kind = tok.kind /\ g.age = tok.age /\ g1.kind = tok'.kind /\ g1.age = tok'.age
         /\ g.tokens = (IF tok.tokens < 0 THEN 0 ELSE tok.tokens)
         /\ g1.tokens = (IF tok'.tokens < 0 THEN 0 ELSE tok'.tokens)
  BY <1>1, SolventHash
<1>6. use'.tokens <= use.tokens /\ use'.tokens + g1.tokens <= use.tokens + g.tokens
  BY <1>1, <1>2, <1>5
<1>7. Within(g, TokCap, TokRate, use.tokens, b)
  BY <1>3, <1>5 DEF Covered
<1>8. g.kind = "absent" \/ (g1.kind = g.kind /\ g1.age = g.age)
  BY <1>4, <1>5
<1>9. Within(g1, TokCap, TokRate, use'.tokens, b)
  BY <1>1, <1>6, <1>7, <1>8, WithinCorrected
<1> QED BY <1>3, <1>5, <1>9

LEMMA UsageInvStep ==
    ASSUME MaxLag <= Window, UsageInv, [UsageNext]_<<vars, use>>
    PROVE  UsageInv'
<1>1. IInv /\ IInv' /\ UsageTypes /\ UsageTypes'
  BY UsageStep, StepInv DEF UsageInv
<1>2. /\ req \in Hash /\ ReqCap \in Nat /\ ReqRate \in Nat /\ use.admitted \in Int
      /\ tok \in Hash /\ TokCap \in Nat /\ TokRate \in Nat /\ use.tokens \in Int
  BY <1>1, ConstantTypes DEF IInv, TypeOK, UsageTypes
<1>3. /\ Covered(req, ReqCap, ReqRate, use.admitted)
      /\ Covered(tok, TokCap, TokRate, use.tokens)
  BY DEF UsageInv
<1> DEFINE R == Within(Solvent(req'), ReqCap, ReqRate, use'.admitted, Budget(ReqCap, ReqRate)')
           T == Within(Solvent(tok'), TokCap, TokRate, use'.tokens, Budget(TokCap, TokRate)')
<1> SUFFICES R /\ T
  BY <1>1 DEF UsageInv, Covered
<1> HIDE DEF R, T
\* Requests and tokens given as before, from a hash as it was, in the same time.
<1>4. ASSUME use'.ticks = use.ticks, use'.overtaken = use.overtaken
      PROVE  /\ req' = req /\ use'.admitted = use.admitted => R
             /\ tok' = tok /\ use'.tokens = use.tokens => T
  <2>1. /\ Budget(ReqCap, ReqRate)' = Budget(ReqCap, ReqRate)
        /\ Budget(TokCap, TokRate)' = Budget(TokCap, TokRate)
    BY <1>1, <1>2, <1>4, Budgets
  <2> QED BY <1>3, <2>1 DEF R, T, Covered
<1>5. CASE Restart
  <2>1. req' = req /\ tok' = tok /\ use' = Nothing /\ use'.admitted = 0 /\ use'.tokens = 0
    BY <1>5 DEF Restart, vars, Nothing
  <2>2. /\ Within(Solvent(req), ReqCap, ReqRate, 0, Budget(ReqCap, ReqRate)')
        /\ Within(Solvent(tok), TokCap, TokRate, 0, Budget(TokCap, TokRate)')
    BY <1>1, <1>2, <2>1, RestartCovered
  <2> QED BY <2>1, <2>2 DEF R, T
<1>6. CASE TickCounted
  <2>1. /\ req' = Older(req) /\ use'.admitted = use.admitted
        /\ tok' = Older(tok) /\ use'.tokens = use.tokens
    BY <1>1, <1>6 DEF TickCounted, Tick, UsageTypes
  <2>2. ReqCap = ReqRate * Window /\ TokCap = TokRate * Window
    BY DEF ReqCap, TokCap
  <2>3. Within(Solvent(Older(req)), ReqCap, ReqRate, use.admitted, Budget(ReqCap, ReqRate)')
    BY <1>1, <1>2, <1>3, <1>6, <2>2, TickCovered
  <2>4. Within(Solvent(Older(tok)), TokCap, TokRate, use.tokens, Budget(TokCap, TokRate)')
    BY <1>1, <1>2, <1>3, <1>6, <2>2, TickCovered
  <2> QED BY <2>1, <2>3, <2>4 DEF R, T
<1>7. ASSUME NEW c \in Calls, ScriptCounted(c) PROVE R /\ T
  <2> DEFINE rtok == Level(req, ReqCap, ReqRate, calls[c].for)
             ttok == Level(tok, TokCap, TokRate, calls[c].for)
             allow == Enough(rtok, ttok, calls[c].est)
  <2>1. calls[c].est \in Nat
    BY <1>1, <1>7, ConstantTypes DEF ScriptCounted, Script, IInv, EstimateInv
  <2>2. PICK rcost \in Nat, tcost \in Nat :
           /\ rcost = (IF allow THEN 1 ELSE 0) /\ tcost = (IF allow THEN calls[c].est ELSE 0)
           /\ req' = Stored(rtok - rcost, calls[c].for)
           /\ tok' = Stored(ttok - tcost, calls[c].for)
           /\ calls'[c].pc = "admitted" <=> allow
    BY <1>1, <1>7, <2>1, Verdict DEF ScriptCounted
  <2>3. /\ use'.admitted = use.admitted + rcost /\ use'.tokens = use.tokens + tcost
        /\ rcost = 0 \/ rcost <= rtok
        /\ tcost = 0 \/ tcost <= ttok
    BY <1>1, <1>2, <1>7, <2>2 DEF ScriptCounted, UsageTypes, Enough
  <2> HIDE DEF allow
  <2>4. Within(Solvent(req'), ReqCap, ReqRate, use.admitted + rcost, Budget(ReqCap, ReqRate)')
    BY <1>1, <1>2, <1>3, <1>7, <2>2, <2>3, ScriptCovered
  <2>5. Within(Solvent(tok'), TokCap, TokRate, use.tokens + tcost, Budget(TokCap, TokRate)')
    BY <1>1, <1>2, <1>3, <1>7, <2>2, <2>3, ScriptCovered
  <2> QED BY <2>3, <2>4, <2>5 DEF R, T
<1>8. ASSUME NEW c \in Calls, ReconcileCounted(c) PROVE R /\ T
  <2>1. R
    BY <1>1, <1>4, <1>8 DEF ReconcileCounted, Reconcile, UsageTypes
  <2>2. T
    BY <1>1, <1>3, <1>8, CorrectionCovered DEF T
  <2> QED BY <2>1, <2>2
<1>9. ASSUME NEW c \in Calls, Uncounted(c) PROVE R /\ T
  BY <1>4, <1>9 DEF Uncounted, Check, ScriptFails, EndUnreconciled
<1>10. CASE UNCHANGED <<vars, use>>
  BY <1>4, <1>10 DEF vars
<1> QED BY <1>5, <1>6, <1>7, <1>8, <1>9, <1>10 DEF UsageNext

\* Nothing is given away at first.
LEMMA UsageInvInit == UsageInit => UsageInv
<1> SUFFICES ASSUME UsageInit PROVE UsageInv
  OBVIOUS
<1>1. IInv /\ UsageTypes /\ use = Nothing
  BY InitInv DEF UsageInit, UsageTypes, Nothing
<1>2. ASSUME NEW h \in Hash, NEW cap \in Nat, NEW rate \in Nat
      PROVE  Covered(h, cap, rate, 0)
  <2>1. Within(Solvent(h), cap, rate, 0, cap + MaxLag * rate)
    BY SolventHash, WithinFresh
  <2>2. Budget(cap, rate) = cap + MaxLag * rate
    <3>1. MaxLag * rate \in Nat /\ MaxLag \in Nat
      BY ConstantTypes, Products
    <3>2. 0 + MaxLag = MaxLag /\ 0 * (MaxLag * rate) = 0
      BY <3>1
    <3> QED BY <1>1, <3>1, <3>2 DEF Budget, Nothing
  <2> QED BY <2>1, <2>2 DEF Covered
<1>3. req \in Hash /\ tok \in Hash
  BY <1>1 DEF IInv, TypeOK
<1> QED BY <1>1, <1>2, <1>3, ConstantTypes DEF UsageInv, Nothing

\* Requests and tokens stay covered.
LEMMA UsageInvariant == ASSUME MaxLag <= Window PROVE UsageSpec => []UsageInv
<1>1. UsageInv /\ [UsageNext]_<<vars, use>> => UsageInv'
  BY UsageInvStep
<1> QED BY <1>1, UsageInvInit, PTL DEF UsageSpec

-----------------------------------------------------------------------------
\* How long a tenant can be refused.

\* Products of a rate and a difference of times, whichever is the greater.
LEMMA Differences ==
    ASSUME NEW a \in Int, NEW b \in Int, NEW r \in Nat
    PROVE  /\ a * r \in Int /\ b * r \in Int
           /\ (a + b) * r = a * r + b * r
           /\ (a - b) * r = a * r - b * r
           /\ a <= b => a * r <= b * r
<1>1. a * r \in Int /\ b * r \in Int /\ (a + b) * r = a * r + b * r /\ (a - b) * r = a * r - b * r
  OBVIOUS
<1>2. ASSUME a <= b PROVE a * r <= b * r
  <2>1. b - a \in Nat
    BY <1>2
  <2>2. (b - a) * r \in Nat /\ (b - a) * r = b * r - a * r
    BY <2>1
  <2> QED BY <1>1, <2>2
<1> QED BY <1>1, <1>2

\* A script finds in the hash what n ticks have refilled up to its now, less the
\* debt, however far back its now is.
Awaits(h, cap, rate, n, debt) ==
    \A lag \in 0 .. MaxLag :
        Level(h, cap, rate, lag) >= Least(cap, (n - lag) * rate) - debt

\* At the beginning of an interval nothing is refilled yet.
LEMMA AwaitsFresh ==
    ASSUME NEW h \in Hash, NEW cap \in Nat, NEW rate \in Nat, NEW debt \in Nat,
           h.kind = "absent" \/ h.tokens >= - debt
    PROVE  Awaits(h, cap, rate, 0, debt)
<1> SUFFICES ASSUME NEW lag \in 0 .. MaxLag
             PROVE  Level(h, cap, rate, lag) >= Least(cap, (0 - lag) * rate) - debt
  BY DEF Awaits
<1>1. lag \in Nat
  BY ConstantTypes
<1>2. PICK due \in Int : due = (0 - lag) * rate /\ due <= 0
  <2>1. (0 - lag) * rate \in Int /\ (0 - lag) * rate <= 0 * rate /\ 0 * rate = 0
    BY <1>1, Differences
  <2> QED BY <2>1
<1>3. PICK level \in Int :
         /\ level = Level(h, cap, rate, lag)
         /\ h.kind # "absent" => level >= h.tokens \/ level = cap
         /\ h.kind = "absent" => level = cap
  <2>1. h.kind = "absent" => Level(h, cap, rate, lag) = cap
    BY DEF Level
  <2> QED BY <1>1, <2>1, LevelBounds
<1>4. h.tokens \in Int
  BY DEF Hash
<1> QED BY <1>2, <1>3, <1>4 DEF Least

\* A script that refuses stores what it found, with the stamp of its own now:
\* the refill since that now is still to come.
LEMMA AwaitsStored ==
    ASSUME NEW h \in Hash, NEW cap \in Nat, NEW rate \in Nat, NEW n \in Nat,
           NEW debt \in Nat, Awaits(h, cap, rate, n, debt), NEW then \in 0 .. MaxLag,
           NEW h1, h1 = Stored(Level(h, cap, rate, then), then)
    PROVE  Awaits(h1, cap, rate, n, debt)
<1> SUFFICES ASSUME NEW lag \in 0 .. MaxLag
             PROVE  Level(h1, cap, rate, lag) >= Least(cap, (n - lag) * rate) - debt
  BY DEF Awaits
<1>1. then \in Nat /\ lag \in Nat
  BY ConstantTypes
<1>2. PICK level \in Int, due \in Int, dueThen \in Int, between \in Int :
         /\ level = Level(h, cap, rate, then) /\ level <= cap
         /\ due = (n - lag) * rate
         /\ dueThen = (n - then) * rate
         /\ between = (then - lag) * rate
         /\ dueThen + between = due
         /\ then <= lag => due <= dueThen
  <2>1. Level(h, cap, rate, then) \in Int /\ Level(h, cap, rate, then) <= cap
    BY <1>1, LevelBounds
  <2>2. n - then \in Int /\ n - lag \in Int /\ then - lag \in Int
    BY <1>1
  <2>3. /\ (n - lag) * rate \in Int /\ (n - then) * rate \in Int /\ (then - lag) * rate \in Int
        /\ (n - then) * rate = n * rate - then * rate
        /\ (n - lag) * rate = n * rate - lag * rate
        /\ (then - lag) * rate = then * rate - lag * rate
        /\ n * rate \in Int /\ then * rate \in Int /\ lag * rate \in Int
    BY <1>1, <2>2, Differences
  <2>4. then <= lag => then * rate <= lag * rate
    BY <1>1, Differences
  <2> QED BY <2>1, <2>3, <2>4
<1>3. level >= Least(cap, dueThen) - debt
  BY <1>2 DEF Awaits
<1>4. Level(h1, cap, rate, lag) = Least(cap, level + (IF then > lag THEN between ELSE 0))
  BY <1>2 DEF Level, Stored
<1> QED BY <1>1, <1>2, <1>3, <1>4 DEF Least

\* A tick refills for one tick more, or the key expires, which fills the bucket.
LEMMA AwaitsOlder ==
    ASSUME NEW h \in Hash, h.kind # "unstamped", NEW cap \in Nat, NEW rate \in Nat,
           NEW n \in Nat, NEW debt \in Nat, Awaits(h, cap, rate, n, debt)
    PROVE  Awaits(Older(h), cap, rate, n + 1, debt)
<1> DEFINE h1 == Older(h)
<1> SUFFICES ASSUME NEW lag \in 0 .. MaxLag
             PROVE  Level(h1, cap, rate, lag) >= Least(cap, ((n + 1) - lag) * rate) - debt
  BY DEF Awaits
<1>1. lag \in Nat /\ h.age \in Nat /\ h.tokens \in Int
  BY ConstantTypes DEF Hash
<1>2. ((n + 1) - lag) * rate \in Int
  BY <1>1, Differences
<1>3. CASE h1.kind = "absent"
  <2>1. Level(h1, cap, rate, lag) = cap
    BY <1>3 DEF Level
  <2> QED BY <1>2, <2>1 DEF Least
<1>4. CASE h1.kind # "absent"
  <2>1. h.kind = "whole" /\ h1 = [h EXCEPT !.age = @ + 1]
    BY <1>4 DEF Older, Absent, Hash
  <2>2. h1 \in Hash /\ h1.kind # "absent" /\ h1.tokens = h.tokens /\ h1.age = h.age + 1
    BY <1>1, <2>1 DEF Hash
  <2>3. CASE lag = 0
    <3>1. PICK aged \in Int, due \in Int :
             /\ aged = h.age * rate /\ aged + rate = (h.age + 1) * rate
             /\ due = (n - 0) * rate /\ due + rate = ((n + 1) - 0) * rate
      <4>1. /\ h.age * rate \in Int /\ (h.age + 1) * rate = h.age * rate + 1 * rate
            /\ 1 * rate = rate
        BY <1>1, Differences
      <4>2. n * rate \in Int /\ (n + 1) * rate = n * rate + 1 * rate
        BY Differences
      <4> QED BY <4>1, <4>2
    <3>2. /\ Level(h, cap, rate, 0) = Least(cap, h.tokens + aged)
          /\ Level(h1, cap, rate, 0) = Least(cap, h.tokens + (aged + rate))
      <4>1. Level(h, cap, rate, 0) = Least(cap, h.tokens + h.age * rate)
        BY <2>1, LevelOf
      <4>2. Level(h1, cap, rate, 0) = Least(cap, h1.tokens + h1.age * rate)
        <5> HIDE DEF h1
        <5> QED BY <2>2, LevelOf
      <4> HIDE DEF h1
      <4> QED BY Zenon, <2>2, <3>1, <4>1, <4>2
    <3>3. Level(h, cap, rate, 0) >= Least(cap, due) - debt
      BY <2>3, <3>1 DEF Awaits
    <3> QED BY <1>1, <2>3, <3>1, <3>2, <3>3 DEF Least
  <2>4. CASE lag > 0
    <3>1. lag - 1 \in 0 .. MaxLag /\ (n + 1) - lag = n - (lag - 1)
      BY <1>1, <2>4, ConstantTypes
    <3>2. Level(h, cap, rate, lag - 1) >= Least(cap, (n - (lag - 1)) * rate) - debt
      BY <3>1 DEF Awaits
    <3>3. Level(h1, cap, rate, lag) = Level(h, cap, rate, lag - 1)
      <4>1. PICK back \in Int, aged \in Int :
               back = lag - 1 /\ aged = h.age + 1
        BY <1>1
      <4>2. (aged > lag <=> h.age > back) /\ aged - lag = h.age - back
        BY <1>1, <4>1
      <4>3. /\ Level(h, cap, rate, back) =
                  Least(cap, h.tokens + (IF h.age > back THEN (h.age - back) * rate ELSE 0))
            /\ Level(h1, cap, rate, lag) =
                  Least(cap, h.tokens + (IF aged > lag THEN (aged - lag) * rate ELSE 0))
        BY <2>1, <2>2, <4>1, Zenon DEF Level
      <4>4. aged > lag <=> h.age > back
        BY <4>2
      <4>5. (aged - lag) * rate = (h.age - back) * rate
        BY <4>2
      <4> QED BY Zenon, <4>1, <4>3, <4>4, <4>5
    <3> QED BY <3>1, <3>2, <3>3
  <2> QED BY <1>1, <2>3, <2>4
<1> QED BY <1>3, <1>4

\* A correction takes away what an estimate fell short by, at most, and so does
\* the debt of the calls that are over.
LEMMA AwaitsCorrected ==
    ASSUME NEW h \in Hash, NEW h1 \in Hash, NEW cap \in Nat, NEW rate \in Nat,
           NEW n \in Nat, NEW debt \in Nat, NEW more \in Nat,
           Awaits(h, cap, rate, n, debt),
           h1.kind = h.kind, h1.age = h.age, h1.tokens >= h.tokens - more
    PROVE  Awaits(h1, cap, rate, n, debt + more)
<1> SUFFICES ASSUME NEW lag \in 0 .. MaxLag
             PROVE  Level(h1, cap, rate, lag) >= Least(cap, (n - lag) * rate) - (debt + more)
  BY DEF Awaits
<1>1. lag \in Nat /\ h.age \in Nat /\ h.tokens \in Int /\ h1.tokens \in Int
  BY ConstantTypes DEF Hash
<1>2. Level(h, cap, rate, lag) >= Least(cap, (n - lag) * rate) - debt
  BY DEF Awaits
<1>3. PICK due \in Int : due = Least(cap, (n - lag) * rate)
  <2>1. (n - lag) * rate \in Int
    BY <1>1, Differences
  <2> QED BY <2>1 DEF Least
<1>4. PICK refill \in Int :
         /\ h.kind # "absent" => Level(h, cap, rate, lag) = Least(cap, h.tokens + refill)
         /\ h.kind # "absent" => Level(h1, cap, rate, lag) = Least(cap, h1.tokens + refill)
  <2>1. (IF h.age > lag THEN (h.age - lag) * rate ELSE 0) \in Int
    BY <1>1
  <2> QED BY <2>1 DEF Level
<1>5. h.kind = "absent" => Level(h1, cap, rate, lag) = Level(h, cap, rate, lag)
  BY DEF Level
<1>6. Level(h, cap, rate, lag) \in Int
  BY <1>1, LevelBounds
<1>7. CASE h.kind = "absent"
  BY <1>2, <1>3, <1>5, <1>6, <1>7
<1>8. CASE h.kind # "absent"
  BY <1>1, <1>2, <1>3, <1>4, <1>8 DEF Least
<1> QED BY <1>7, <1>8

\* The debt that the calls that are over can have left.
OverDebt == Shortfall * Cardinality(Calls \ InFlight)

\* As long as nobody was admitted in the interval, its refill is there.
WaitInv ==
    /\ IInv /\ UsageTypes /\ DebtBounded
    /\ Readable /\ use.admitted = 0 =>
          /\ Awaits(req, ReqCap, ReqRate, use.ticks, 0)
          /\ Awaits(tok, TokCap, TokRate, use.ticks, OverDebt)

\* What a step does to that debt: nothing, unless a call in flight ends.
LEMMA OverDebts ==
    ASSUME IsFiniteSet(Calls), IInv
    PROVE  /\ OverDebt \in Nat /\ OverDebt' \in Nat
           /\ InFlight' = InFlight => OverDebt' = OverDebt
           /\ \A c \in InFlight :
                 InFlight' = InFlight \ {c} => OverDebt' = OverDebt + Shortfall
<1> DEFINE over == Calls \ InFlight
<1>0. OverDebt' = Shortfall * Cardinality(Calls \ InFlight')
  BY DEF OverDebt
<1>1. IsFiniteSet(over) /\ Cardinality(over) \in Nat /\ Cardinality(Calls \ InFlight') \in Nat
  BY FS_Difference, FS_CardinalityType
<1>2. OverDebt \in Nat /\ OverDebt' \in Nat
  BY <1>0, <1>1, Debts DEF OverDebt
<1>3. InFlight' = InFlight => OverDebt' = OverDebt
  BY <1>0 DEF OverDebt
<1>4. ASSUME NEW c \in InFlight, InFlight' = InFlight \ {c}
      PROVE  OverDebt' = OverDebt + Shortfall
  <2>1. c \in Calls /\ Calls \ InFlight' = over \cup {c} /\ c \notin over
    BY <1>4 DEF InFlight
  <2>2. Cardinality(Calls \ InFlight') = Cardinality(over) + 1
    BY <1>1, <2>1, FS_AddElement
  <2>3. Shortfall * (Cardinality(over) + 1) = Shortfall * Cardinality(over) + Shortfall
    BY <1>1, Debts
  <2> QED BY <1>0, <2>2, <2>3 DEF OverDebt
<1> QED BY <1>2, <1>3, <1>4

\* An interval begins.
LEMMA WaitFresh ==
    ASSUME IsFiniteSet(Calls), IInv, DebtBounded, use = Nothing
    PROVE  WaitInv
<1>1. /\ req \in Hash /\ tok \in Hash /\ req.tokens >= - 0
  BY ConstantTypes DEF IInv, TypeOK
<1>2. OverDebt \in Nat /\ tok.tokens >= - OverDebt
  <2>1. OverDebt \in Nat
    BY OverDebts
  <2>2. Shortfall \in Nat /\ Cardinality(Calls \ InFlight) \in Nat
    BY ConstantTypes, FS_Difference, FS_CardinalityType
  <2>3. - Shortfall * Cardinality(Calls \ InFlight) = - (Shortfall * Cardinality(Calls \ InFlight))
    BY <2>2
  <2> QED BY <2>1, <2>3 DEF DebtBounded, OverDebt
<1>3. /\ Awaits(req, ReqCap, ReqRate, 0, 0)
      /\ Awaits(tok, TokCap, TokRate, 0, OverDebt)
  BY <1>1, <1>2, AwaitsFresh, ConstantTypes
<1>4. UsageTypes /\ use.ticks = 0
  BY DEF UsageTypes, Nothing
<1> QED BY <1>3, <1>4 DEF WaitInv

\* A script that refuses its call.
LEMMA RefusedStep ==
    ASSUME IInv, NEW c \in Calls, Script(c), calls'[c].pc # "admitted",
           NEW debt \in Nat, NEW n \in Nat,
           Awaits(req, ReqCap, ReqRate, n, 0), Awaits(tok, TokCap, TokRate, n, debt)
    PROVE  /\ InFlight' = InFlight
           /\ Awaits(req', ReqCap, ReqRate, n, 0)
           /\ Awaits(tok', TokCap, TokRate, n, debt)
           /\ ~ Enough(Level(req, ReqCap, ReqRate, calls[c].for),
                       Level(tok, TokCap, TokRate, calls[c].for), calls[c].est)
<1> DEFINE lag == calls[c].for
           rtok == Level(req, ReqCap, ReqRate, lag)
           ttok == Level(tok, TokCap, TokRate, lag)
           allow == Enough(rtok, ttok, calls[c].est)
<1>1. /\ req \in Hash /\ tok \in Hash /\ calls \in [Calls -> Call]
      /\ calls[c].pc = "checking" /\ calls[c] \in Call /\ calls[c].for <= MaxLag
  BY DEF IInv, TypeOK, Script
<1>2. lag \in 0 .. MaxLag
  BY <1>1, ConstantTypes DEF Call
<1>3. ~ allow
  BY Verdict
<1>4. /\ req' = Stored(rtok, lag) /\ tok' = Stored(ttok, lag)
      /\ calls' = [calls EXCEPT ![c] = Away]
  <2> HIDE DEF rtok, ttok, lag
  <2> QED BY <1>3, Zenon DEF Script, rtok, ttok, lag
<1>5. InFlight' = InFlight
  BY <1>1, <1>4 DEF InFlight, Away
<1>6. ReqCap \in Nat /\ ReqRate \in Nat /\ TokCap \in Nat /\ TokRate \in Nat /\ 0 \in Nat
  BY ConstantTypes
<1>7. Awaits(req', ReqCap, ReqRate, n, 0)
  <2> HIDE DEF lag
  <2> QED BY <1>1, <1>2, <1>4, <1>6, AwaitsStored
<1>8. Awaits(tok', TokCap, TokRate, n, debt)
  <2> HIDE DEF lag
  <2> QED BY <1>1, <1>2, <1>4, <1>6, AwaitsStored
<1> QED BY <1>3, <1>5, <1>7, <1>8

\* A call that was admitted ends, with or without a correction that leaves the
\* token hash readable.
LEMMA EndedStep ==
    ASSUME IsFiniteSet(Calls), IInv, IInv', Readable', NEW c \in Calls,
           Reconcile(c) \/ EndUnreconciled(c),
           NEW n \in Nat, Awaits(tok, TokCap, TokRate, n, OverDebt)
    PROVE  req' = req /\ Awaits(tok', TokCap, TokRate, n, OverDebt')
<1>1. /\ calls[c].pc = "admitted" /\ calls' = [calls EXCEPT ![c] = Away]
      /\ req' = req /\ calls \in [Calls -> Call] /\ tok \in Hash /\ tok' \in Hash
  BY DEF Reconcile, EndUnreconciled, IInv, TypeOK
<1>2. c \in InFlight /\ InFlight' = InFlight \ {c}
  BY <1>1 DEF InFlight, Away
<1>3. OverDebt \in Nat /\ OverDebt' = OverDebt + Shortfall
  BY <1>2, OverDebts
<1>4. tok'.kind = tok.kind /\ tok'.age = tok.age /\ tok'.tokens >= tok.tokens - Shortfall
  <2>0. Shortfall \in Nat /\ tok.tokens \in Int
    BY <1>1, ConstantTypes DEF Hash
  <2>1. CASE tok' = tok
    BY <2>0, <2>1
  <2>2. CASE tok' # tok
    <3>1. PICK actual \in Actuals :
             /\ calls[c].est - actual # 0
             /\ tok' = IF tok.kind = "absent"
                       THEN [kind |-> "unstamped", tokens |-> calls[c].est - actual, age |-> 0]
                       ELSE [tok EXCEPT !.tokens = @ + (calls[c].est - actual)]
      BY <2>2 DEF Reconcile, EndUnreconciled
    <3>2. tok.kind # "absent"
      BY <3>1 DEF Readable
    <3>3. PICK adjustment \in Int :
             adjustment = calls[c].est - actual /\ adjustment >= - Shortfall
      <4>1. calls[c].est \in Estimates
        BY <1>1 DEF IInv, EstimateInv
      <4>2. calls[c].est \in Nat /\ actual \in Nat /\ actual - calls[c].est <= Shortfall
        BY <4>1, ConstantTypes
      <4> QED BY <2>0, <4>2
    <3>4. tok' = [tok EXCEPT !.tokens = @ + adjustment]
      BY <3>1, <3>2, <3>3
    <3> QED BY <1>1, <2>0, <3>3, <3>4 DEF Hash
  <2> QED BY <2>1, <2>2
<1>5. Awaits(tok', TokCap, TokRate, n, OverDebt + Shortfall)
  BY <1>1, <1>3, <1>4, AwaitsCorrected, ConstantTypes
<1> QED BY <1>1, <1>3, <1>5

\* Every step keeps the refill of the interval.
LEMMA WaitStep ==
    ASSUME IsFiniteSet(Calls), WaitInv, [UsageNext]_<<vars, use>>
    PROVE  WaitInv'
<1>1. /\ IInv /\ UsageTypes /\ DebtBounded /\ [Next]_vars
      /\ IInv' /\ UsageTypes' /\ DebtBounded'
  BY UsageStep, StepInv, DebtStep DEF WaitInv
<1>2. SUFFICES ASSUME Readable', use'.admitted = 0
               PROVE  /\ Awaits(req', ReqCap, ReqRate, use'.ticks, 0)
                      /\ Awaits(tok', TokCap, TokRate, use'.ticks, OverDebt')
  BY <1>1 DEF WaitInv
<1>3. Readable
  BY <1>1, <1>2, LostStep
<1>4. use.ticks \in Nat /\ OverDebt \in Nat /\ OverDebt' \in Nat
  BY <1>1, OverDebts DEF UsageTypes
<1>5. ASSUME use.admitted = 0
      PROVE  /\ Awaits(req, ReqCap, ReqRate, use.ticks, 0)
             /\ Awaits(tok, TokCap, TokRate, use.ticks, OverDebt)
  BY <1>3, <1>5 DEF WaitInv
<1>6. ASSUME use' = use, req' = req, tok' = tok, InFlight' = InFlight
      PROVE  /\ Awaits(req', ReqCap, ReqRate, use'.ticks, 0)
             /\ Awaits(tok', TokCap, TokRate, use'.ticks, OverDebt')
  <2>1. OverDebt' = OverDebt
    BY <1>1, <1>6, OverDebts
  <2> QED BY <1>2, <1>5, <1>6, <2>1
<1> DEFINE Goal == /\ Awaits(req', ReqCap, ReqRate, use'.ticks, 0)
                   /\ Awaits(tok', TokCap, TokRate, use'.ticks, OverDebt')
<1> HIDE DEF Goal
<1>7. CASE Restart
  <2>1. /\ use' = Nothing
        /\ UNCHANGED <<req, tok, unused, calls>>
    BY <1>7 DEF Restart, vars
  <2>2. InFlight' = InFlight
    BY <2>1 DEF InFlight
  <2>3. /\ req \in Hash /\ tok \in Hash /\ req.tokens >= - 0
    BY <1>1, ConstantTypes DEF IInv, TypeOK
  <2>4. tok.tokens >= - OverDebt /\ OverDebt' = OverDebt
    <3>1. Shortfall \in Nat /\ Cardinality(Calls \ InFlight) \in Nat
      BY ConstantTypes, FS_Difference, FS_CardinalityType
    <3>2. - Shortfall * Cardinality(Calls \ InFlight) = - (Shortfall * Cardinality(Calls \ InFlight))
      BY <3>1
    <3>3. OverDebt' = OverDebt
      BY <1>1, <2>2, OverDebts
    <3> QED BY <1>1, <3>2, <3>3 DEF DebtBounded, OverDebt
  <2>5. use'.ticks = 0
    BY <2>1 DEF Nothing
  <2>6. /\ Awaits(req, ReqCap, ReqRate, 0, 0)
        /\ Awaits(tok, TokCap, TokRate, 0, OverDebt)
    BY <1>4, <2>3, <2>4, AwaitsFresh, ConstantTypes
  <2> QED BY <2>1, <2>4, <2>5, <2>6 DEF Goal
<1>8. CASE TickCounted
  <2>1. /\ use'.ticks = use.ticks + 1 /\ use.admitted = 0
        /\ req' = Older(req) /\ tok' = Older(tok) /\ Tick
    BY <1>1, <1>2, <1>8 DEF TickCounted, Tick, UsageTypes
  <2>2. InFlight' = InFlight
    <3>1. calls \in [Calls -> Call]
      BY <1>1 DEF IInv, TypeOK
    <3>2. \A c \in Calls : calls'[c].pc = calls[c].pc
      <4> TAKE c \in Calls
      <4>1. PICK call \in Call : call = calls[c]
        BY <3>1
      <4>2. calls'[c] = IF call.pc = "idle" THEN call ELSE [call EXCEPT !.for = @ + 1]
        BY <2>1, <4>1 DEF Tick
      <4> QED BY <4>1, <4>2 DEF Call
    <3> QED BY <3>2 DEF InFlight
  <2>3. OverDebt' = OverDebt
    BY <1>1, <2>2, OverDebts
  <2>4. req \in Hash /\ req.kind # "unstamped" /\ tok \in Hash /\ tok.kind # "unstamped"
    BY <1>1, <1>3 DEF IInv, TypeOK, Readable
  <2>5. ReqCap \in Nat /\ ReqRate \in Nat /\ TokCap \in Nat /\ TokRate \in Nat /\ 0 \in Nat
    BY ConstantTypes
  <2>6. Awaits(Older(req), ReqCap, ReqRate, use.ticks + 1, 0)
    BY <1>4, <1>5, <2>1, <2>4, <2>5, AwaitsOlder
  <2>7. Awaits(Older(tok), TokCap, TokRate, use.ticks + 1, OverDebt)
    BY <1>4, <1>5, <2>1, <2>4, <2>5, AwaitsOlder
  <2> QED BY <2>1, <2>3, <2>6, <2>7 DEF Goal
<1>9. ASSUME NEW c \in Calls, ScriptCounted(c) PROVE Goal
  <2>1. Script(c) /\ use'.ticks = use.ticks
    BY <1>1, <1>9 DEF ScriptCounted, UsageTypes
  <2>2. use.admitted = 0 /\ calls'[c].pc # "admitted"
    BY <1>1, <1>2, <1>9 DEF ScriptCounted, UsageTypes
  <2>3. /\ InFlight' = InFlight
        /\ Awaits(req', ReqCap, ReqRate, use.ticks, 0)
        /\ Awaits(tok', TokCap, TokRate, use.ticks, OverDebt)
    BY <1>1, <1>4, <1>5, <2>1, <2>2, RefusedStep
  <2>4. OverDebt' = OverDebt
    BY <1>1, <2>3, OverDebts
  <2> QED BY <2>1, <2>3, <2>4 DEF Goal
<1>10. ASSUME NEW c \in Calls, ReconcileCounted(c) \/ (EndUnreconciled(c) /\ UNCHANGED use)
       PROVE  Goal
  <2>1. /\ Reconcile(c) \/ EndUnreconciled(c)
        /\ use'.ticks = use.ticks /\ use.admitted = 0
    BY <1>1, <1>2, <1>10 DEF ReconcileCounted, UsageTypes
  <2>2. req' = req /\ Awaits(tok', TokCap, TokRate, use.ticks, OverDebt')
    BY <1>1, <1>2, <1>4, <1>5, <2>1, EndedStep
  <2> QED BY <1>5, <2>1, <2>2 DEF Goal
<1>11. ASSUME NEW c \in Calls, Check(c) \/ ScriptFails(c), UNCHANGED use PROVE Goal
  <2>1. calls \in [Calls -> Call]
    BY <1>1 DEF IInv, TypeOK
  <2>2. req' = req /\ tok' = tok /\ InFlight' = InFlight
    BY <1>11, <2>1 DEF Check, ScriptFails, InFlight, Away
  <2> QED BY <1>6, <1>11, <2>2 DEF Goal
<1>12. CASE UNCHANGED <<vars, use>>
  <2>1. use' = use /\ req' = req /\ tok' = tok /\ InFlight' = InFlight
    BY <1>12 DEF vars, InFlight
  <2> QED BY <1>6, <2>1 DEF Goal
<1> QED BY <1>7, <1>8, <1>9, <1>10, <1>11, <1>12 DEF UsageNext, Uncounted, Goal

\* A step that refuses a call finds less than the refill of the interval.
LEMMA RefusingStep ==
    ASSUME IsFiniteSet(Calls), WaitInv, [UsageNext]_<<vars, use>>, NEW c \in Calls,
           Readable, use.admitted = 0, calls[c].pc = "checking", calls'[c].pc = "idle"
    PROVE  \/ Refilled(ReqCap, ReqRate, calls[c].for) < 1
           \/ Refilled(TokCap, TokRate, calls[c].for)
                 < calls[c].est + Shortfall * Cardinality(Calls \ InFlight)
<1>1. IInv /\ UsageTypes /\ [Next]_vars
  BY UsageStep DEF WaitInv
<1>2. /\ Awaits(req, ReqCap, ReqRate, use.ticks, 0)
      /\ Awaits(tok, TokCap, TokRate, use.ticks, OverDebt)
  BY DEF WaitInv
<1>3. use.ticks \in Nat /\ OverDebt \in Nat
  BY <1>1, OverDebts DEF UsageTypes
<1>4. calls \in [Calls -> Call] /\ calls[c] \in Call
  BY <1>1 DEF IInv, TypeOK
<1>5. Script(c)
  <2>1. ~ Tick
    <3>1. PICK call \in Call : call = calls[c] /\ call.pc = "checking"
      BY <1>4
    <3>2. Tick => calls'[c] = [call EXCEPT !.for = @ + 1]
      BY <3>1 DEF Tick
    <3> QED BY <3>1, <3>2 DEF Call
  <2>2. ASSUME NEW d \in Calls, Check(d) \/ ScriptFails(d) \/ Reconcile(d) \/ EndUnreconciled(d)
        PROVE  FALSE
    <3>1. CASE Check(d)
      <4>1. PICK est \in Estimates :
               calls' = [calls EXCEPT ![d] = [pc |-> "checking", est |-> est, for |-> 0]]
        BY <3>1 DEF Check
      <4> QED BY <1>4, <3>1, <4>1 DEF Check
    <3>2. CASE ScriptFails(d)
      BY <3>2 DEF ScriptFails, Readable
    <3>3. CASE Reconcile(d) \/ EndUnreconciled(d)
      <4>1. calls[d].pc = "admitted" /\ calls' = [calls EXCEPT ![d] = Away]
        BY <3>3 DEF Reconcile, EndUnreconciled
      <4> QED BY <1>4, <4>1
    <3> QED BY <2>2, <3>1, <3>2, <3>3
  <2>3. ASSUME NEW d \in Calls, Script(d) PROVE d = c
    <3>1. PICK call : calls' = [calls EXCEPT ![d] = call]
      BY <2>3 DEF Script
    <3> QED BY <1>4, <3>1
  <2>4. ~ UNCHANGED vars
    BY DEF vars
  <2> QED BY <1>1, <2>1, <2>2, <2>3, <2>4 DEF Next, Run, End
<1>6. ~ Enough(Level(req, ReqCap, ReqRate, calls[c].for),
               Level(tok, TokCap, TokRate, calls[c].for), calls[c].est)
  BY <1>1, <1>2, <1>3, <1>5, RefusedStep
<1>7. calls[c].for \in 0 .. MaxLag /\ calls[c].for \in Nat /\ calls[c].est \in Nat
  BY <1>1, <1>4, ConstantTypes DEF IInv, TypeOK, EstimateInv, Call
<1>8. PICK rtok \in Int, ttok \in Int :
         /\ rtok = Level(req, ReqCap, ReqRate, calls[c].for)
         /\ ttok = Level(tok, TokCap, TokRate, calls[c].for)
  BY <1>1, <1>7, LevelBounds, ConstantTypes DEF IInv, TypeOK
<1>9. PICK rdue \in Int, tdue \in Int :
         /\ rdue = Refilled(ReqCap, ReqRate, calls[c].for)
         /\ tdue = Refilled(TokCap, TokRate, calls[c].for)
  <2>1. use.ticks - calls[c].for \in Int
    BY <1>3, <1>7
  <2>2. /\ (use.ticks - calls[c].for) * ReqRate \in Int
        /\ (use.ticks - calls[c].for) * TokRate \in Int
    BY <2>1, ConstantTypes, Differences
  <2> QED BY <2>2, ConstantTypes DEF Refilled, Least
<1>10. rtok >= rdue /\ ttok >= tdue - OverDebt
  <2>1. rtok >= Refilled(ReqCap, ReqRate, calls[c].for) - 0
    BY <1>2, <1>7, <1>8, Zenon DEF Awaits, Refilled
  <2>2. ttok >= Refilled(TokCap, TokRate, calls[c].for) - OverDebt
    BY <1>2, <1>7, <1>8, Zenon DEF Awaits, Refilled
  <2>3. rtok >= rdue - 0 /\ ttok >= tdue - OverDebt
    BY <1>9, <2>1, <2>2
  <2> QED BY <2>3
<1>11. rtok < 1 \/ ttok < calls[c].est
  <2>1. ~ (rtok >= 1 /\ ttok >= calls[c].est)
    BY <1>6, <1>8, Zenon DEF Enough
  <2> QED BY <1>7, <2>1
<1>12. rdue < 1 \/ tdue < calls[c].est + OverDebt
  BY <1>3, <1>7, <1>10, <1>11
<1> QED BY <1>9, <1>12 DEF OverDebt

-----------------------------------------------------------------------------
\* The theorems.

\* Hashes and calls keep their types; the request bucket, which is charged one
\* at a time by the script and never corrected, stays between 0 and its capacity.
THEOREM TypeCorrect == Spec => []TypeOK
<1>1. IInv => TypeOK
  BY DEF IInv
<1> QED BY <1>1, Invariant, PTL

\* If a hash loses its ts, then by the HINCRBYFLOAT of a call that was under way
\* for as long as the keys live.
THEOREM LateCallOnly == Spec => UnreadableOnlyByLateCall
<1> QED BY LosingStep, Invariant, PTL DEF Spec, UnreadableOnlyByLateCall

\* A hash that lost its ts never gets one again, and the tenant is refused for as
\* long as it is there: each check of it fails, so none sets an expiry either.
THEOREM UnreadableForGood ==
    Spec => /\ [](~ Readable => [](~ Readable))
            /\ [][~ Readable => InFlight' \subseteq InFlight]_vars
<1> QED BY LostStep, Invariant, PTL DEF Spec

\* If no request outlives the keys, the hashes can always be read: an expiry of
\* two windows would do, if streams had a limit on their total time.
THEOREM NeverUnreadable ==
    ASSUME MaxFlight < TTL
    PROVE  Spec => []Readable
<1>1. Init => Readable
  BY DEF Init, Readable, Absent
<1>2. IInv /\ Readable /\ [Next]_vars => Readable'
  <2> SUFFICES ASSUME IInv, NEW c \in InFlight, calls[c].for >= TTL PROVE FALSE
    BY LosingStep
  <2>1. calls[c].for \in Nat /\ calls[c].for <= MaxFlight
    BY DEF IInv, TypeOK, InFlight, Call
  <2> QED BY <2>1, ConstantTypes
<1> QED BY <1>1, <1>2, Invariant, PTL DEF Spec

\* However many requests a tenant has made, its token bucket is in debt by no
\* more than the calls that can be over at once were under-estimated by: debt
\* does not add up, as nobody is admitted on debt.
THEOREM DebtStaysBounded ==
    ASSUME IsFiniteSet(Calls)
    PROVE  Spec => []DebtBounded
<1>1. Init => DebtBounded
  BY DebtInit
<1>2. IInv /\ DebtBounded /\ [Next]_vars => DebtBounded'
  BY DebtStep
<1> QED BY <1>1, <1>2, Invariant, PTL DEF Spec

\* Lazy refill, stamps by the clients' clocks, expiry and corrections come to two
\* token buckets, for any rates and any number of concurrent requests: what a
\* check of an old now() may gain is the refill of its lag, and what an expiring
\* key forgives would have been refilled.  The latter needs that the calls over
\* at once cannot have left more debt than the capacity.
THEOREM Implements ==
    ASSUME IsFiniteSet(Calls), Shortfall * Cardinality(Calls) <= TokCap
    PROVE  Spec => IsTokenBuckets
<1>1. Init => Promise!Init
  BY DEF Init, Promise!Init, Level, Absent
<1>2. IInv /\ DebtBounded /\ [Next]_vars => (Readable' => Promise!Next \/ UNCHANGED Promise!vars)
  BY BucketStep
<1>3. Spec => []DebtBounded
  BY DebtStaysBounded
<1> QED BY <1>1, <1>2, <1>3, Invariant, PTL DEF Spec, IsTokenBuckets

\* In no interval are more requests admitted than a full bucket and its refill
\* give, one lag's refill, and one more for each script that was overtaken by a
\* newer one: provided no check takes more than a window to reach Redis.
THEOREM AdmissionsBounded ==
    ASSUME MaxLag <= Window
    PROVE  UsageSpec => []RequestsInBudget
<1>1. UsageInv => RequestsInBudget
  BY CoveredBound, ConstantTypes
     DEF UsageInv, RequestsInBudget, IInv, TypeOK, UsageTypes
<1> QED BY <1>1, UsageInvariant, PTL

\* Nor are more tokens charged for them, refunds taken off, however deep a debt
\* the bucket was in, or was forgiven, meanwhile.
THEOREM ChargesBounded ==
    ASSUME MaxLag <= Window
    PROVE  UsageSpec => []TokensInBudget
<1>1. UsageInv => TokensInBudget
  BY CoveredBound, ConstantTypes
     DEF UsageInv, TokensInBudget, IInv, TypeOK, UsageTypes
<1> QED BY <1>1, UsageInvariant, PTL
\* A tenant that nobody admits waits for the refill and for nothing else, for any
\* rates, lags and number of concurrent requests: once an interval has refilled a
\* request, the estimate and the debt there can be, no check in it is refused.
THEOREM RefusalsEnd ==
    ASSUME IsFiniteSet(Calls)
    PROVE  UsageSpec => RefusedBriefly
<1>1. UsageInit => WaitInv
  <2>1. UsageInit => IInv /\ DebtBounded /\ use = Nothing
    BY InitInv, DebtInit DEF UsageInit
  <2> QED BY <2>1, WaitFresh
<1>2. WaitInv /\ [UsageNext]_<<vars, use>> => WaitInv'
  BY WaitStep
<1>3. WaitInv /\ [UsageNext]_<<vars, use>> =>
        \A c \in Calls :
          /\ Readable /\ use.admitted = 0
          /\ calls[c].pc = "checking" /\ calls'[c].pc = "idle"
          => \/ Refilled(ReqCap, ReqRate, calls[c].for) < 1
             \/ Refilled(TokCap, TokRate, calls[c].for)
                   < calls[c].est + Shortfall * Cardinality(Calls \ InFlight)
  BY RefusingStep
<1> QED BY <1>1, <1>2, <1>3, PTL DEF UsageSpec, RefusedBriefly
=============================================================================
