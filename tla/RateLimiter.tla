---------------------------- MODULE RateLimiter ----------------------------
(***************************************************************************)
(* RateLimiter (gateway/ratelimit/limiter.py): one tenant's two Redis      *)
(* hashes, concurrent requests that are checked against them and later     *)
(* reconciled, and the expiry of idle keys.                                *)
(*                                                                         *)
(* check() reads its own clock, awaits, and the Lua script then runs       *)
(* atomically on Redis; reconcile() is one HINCRBYFLOAT.  In between other *)
(* requests, of this or another gateway process, get their turn, and time  *)
(* passes.                                                                 *)
(*                                                                         *)
(* Times are relative.  A hash stores ts, the now of the last script to    *)
(* touch it; the model stores age, the true time gone by since that ts.    *)
(* The unit of time makes both rates whole numbers.                        *)
(***************************************************************************)
EXTENDS Integers, FiniteSets

CONSTANTS
    Calls,      \* the tenant's requests that can be under way at once
    Window,     \* window_s, in ticks
    ReqRate,    \* req_cap / window_s, per tick
    TokRate,    \* tok_cap / window_s, per tick
    Estimates,  \* what estimate_tokens may say
    Actuals,    \* what the usage of a response may say (0 for a full refund)
    Shortfall,  \* the most an estimate falls short of the actual usage
    MaxLag,     \* longest time from now() to the run of the script
    MaxFlight   \* longest time from the admission of a request to its end

ASSUME LimiterAssumption ==
    /\ Window \in Nat \ {0}
    /\ ReqRate \in Nat /\ TokRate \in Nat
    /\ Estimates \subseteq Nat /\ Actuals \subseteq Nat
    /\ Shortfall \in Nat /\ \A a \in Actuals, e \in Estimates : a - e <= Shortfall
    /\ MaxLag \in Nat /\ MaxFlight \in Nat

ReqCap == ReqRate * Window
TokCap == TokRate * Window

TTL == 2 * Window               \* the EXPIRE of both keys, set by each script

VARIABLES
    req,        \* the hash rl:<tenant>:req
    tok,        \* the hash rl:<tenant>:tok
    unused,     \* ticks since a script last touched the keys, at most TTL
    calls       \* call -> where it stands, its estimate, and for how long

vars == <<req, tok, unused, calls>>

\* A hash is absent, whole (tokens and ts), or has tokens but no ts.
Hash == [kind : {"absent", "whole", "unstamped"}, tokens : Int, age : Nat]

Absent == [kind |-> "absent", tokens |-> 0, age |-> 0]

Call == [pc : {"idle", "checking", "admitted"}, est : Estimates \cup {0}, for : Nat]

Away == [pc |-> "idle", est |-> 0, for |-> 0]

TypeOK ==
    /\ req \in Hash /\ tok \in Hash
    /\ req.tokens \in 0 .. ReqCap
    /\ unused \in 0 .. TTL
    /\ calls \in [Calls -> Call]
    /\ \A c \in Calls : calls[c].for <=
          CASE calls[c].pc = "idle"     -> 0
            [] calls[c].pc = "checking" -> MaxLag
            [] calls[c].pc = "admitted" -> MaxFlight

Init ==
    /\ req = Absent /\ tok = Absent
    /\ unused = TTL
    /\ calls = [c \in Calls |-> Away]

-----------------------------------------------------------------------------
\* The Lua script.

Least(a, b) == IF a < b THEN a ELSE b

LevelUncapped(h, cap, rate, lag) ==     \* mutant: the refill is not clamped
    IF h.kind = "absent" THEN cap
    ELSE h.tokens + (IF h.age > lag THEN (h.age - lag) * rate ELSE 0)

LevelByWindow(h, cap, rate, lag) ==     \* mutant: refills for whole windows only
    IF h.kind = "absent" THEN cap
    ELSE Least(cap, h.tokens + (IF h.age > lag
                                THEN ((h.age - lag) \div Window) * Window * rate ELSE 0))

\* level(key, cap, rate) for a script whose now is lag ticks ago.
Level(h, cap, rate, lag) ==
    IF h.kind = "absent" THEN cap
    ELSE Least(cap, h.tokens + (IF h.age > lag THEN (h.age - lag) * rate ELSE 0))

EnoughRequests(rtok, ttok, cost) ==     \* mutant: the request bucket alone admits
    rtok >= 1

Enough(rtok, ttok, cost) == rtok >= 1 /\ ttok >= cost

StoredNow(tokens, lag) ==                \* mutant: stamped when it runs, not with its now
    [kind |-> "whole", tokens |-> tokens, age |-> 0]

Stored(tokens, lag) == [kind |-> "whole", tokens |-> tokens, age |-> lag]

\* check(): args are built, with now(), and the script is sent.
Check(c) ==
    /\ calls[c].pc = "idle"
    /\ \E est \in Estimates :
          calls' = [calls EXCEPT ![c] = [pc |-> "checking", est |-> est, for |-> 0]]
    /\ UNCHANGED <<req, tok, unused>>

\* The script runs: both buckets are charged, or neither, and both are stored.
Script(c) ==
    /\ calls[c].pc = "checking"
    /\ {req.kind, tok.kind} \subseteq {"absent", "whole"}
    /\ LET lag   == calls[c].for
           rtok  == Level(req, ReqCap, ReqRate, lag)
           ttok  == Level(tok, TokCap, TokRate, lag)
           allow == Enough(rtok, ttok, calls[c].est)
       IN  /\ req' = Stored(IF allow THEN rtok - 1 ELSE rtok, lag)
           /\ tok' = Stored(IF allow THEN ttok - calls[c].est ELSE ttok, lag)
           /\ calls' = [calls EXCEPT
                 ![c] = IF allow THEN [@ EXCEPT !.pc = "admitted", !.for = 0] ELSE Away]
    /\ unused' = 0

\* level() subtracts a ts that is nil: the script stops before it stores
\* anything, and the request fails.
ScriptFails(c) ==
    /\ calls[c].pc = "checking"
    /\ "unstamped" \in {req.kind, tok.kind}
    /\ calls' = [calls EXCEPT ![c] = Away]
    /\ UNCHANGED <<req, tok, unused>>

ReconcileTwice(c) ==                    \* mutant: the correction is applied twice
    /\ calls[c].pc = "admitted"
    /\ \E actual \in Actuals :
          tok' = [tok EXCEPT !.tokens = @ + 2 * (calls[c].est - actual)]
    /\ calls' = [calls EXCEPT ![c] = Away]
    /\ UNCHANGED <<req, unused>>

\* reconcile(): HINCRBYFLOAT creates a hash that is not there, without ts and
\* without expiry.
Reconcile(c) ==
    /\ calls[c].pc = "admitted"
    /\ \E actual \in Actuals :
          LET adjustment == calls[c].est - actual
          IN  tok' = IF adjustment = 0 THEN tok
                     ELSE IF tok.kind = "absent"
                     THEN [kind |-> "unstamped", tokens |-> adjustment, age |-> 0]
                     ELSE [tok EXCEPT !.tokens = @ + adjustment]
    /\ calls' = [calls EXCEPT ![c] = Away]
    /\ UNCHANGED <<req, unused>>

\* The request ends without usage, or in an error nobody refunds.
EndUnreconciled(c) ==
    /\ calls[c].pc = "admitted"
    /\ calls' = [calls EXCEPT ![c] = Away]
    /\ UNCHANGED <<req, tok, unused>>

-----------------------------------------------------------------------------

OlderOneWindow(h) ==                    \* mutant: EXPIRE after one window
    IF h.kind # "whole" THEN h
    ELSE IF unused + 1 >= Window THEN Absent
    ELSE [h EXCEPT !.age = @ + 1]

Older(h) ==
    IF h.kind # "whole" THEN h
    ELSE IF unused + 1 = TTL THEN Absent
    ELSE [h EXCEPT !.age = @ + 1]

\* One tick: everything gets older, and keys unused for TTL are gone.  An
\* unstamped hash has no expiry.
Tick ==
    /\ \A c \in Calls :
          /\ calls[c].pc = "checking" => calls[c].for < MaxLag
          /\ calls[c].pc = "admitted" => calls[c].for < MaxFlight
    /\ req' = Older(req) /\ tok' = Older(tok)
    /\ unused' = Least(unused + 1, TTL)
    /\ calls' = [c \in Calls |->
          IF calls[c].pc = "idle" THEN calls[c] ELSE [calls[c] EXCEPT !.for = @ + 1]]

Run(c) == Script(c) \/ ScriptFails(c)
End(c) == Reconcile(c) \/ EndUnreconciled(c)

Next ==
    \/ Tick
    \/ \E c \in Calls : Check(c) \/ Run(c) \/ End(c)

Spec == Init /\ [][Next]_vars

\* Time passes, Redis answers, requests end, and the tenant keeps asking.
Fairness ==
    /\ WF_vars(Tick)
    /\ \A c \in Calls : WF_vars(Check(c)) /\ WF_vars(Run(c)) /\ WF_vars(End(c))

FairSpec == Spec /\ Fairness

-----------------------------------------------------------------------------
\* Properties.

\* What the buckets hold right now, whoever asks.
Promise ==
    INSTANCE TokenBuckets WITH
        ReqSlack <- MaxLag * ReqRate, TokSlack <- MaxLag * TokRate,
        reqLevel <- Level(req, ReqCap, ReqRate, 0),
        tokLevel <- Level(tok, TokCap, TokRate, 0)

\* A hash that is there can be read: it has a ts with its tokens.
Readable == req.kind # "unstamped" /\ tok.kind # "unstamped"

\* As long as they can be read, the hashes, with their lazy refill, stamps and
\* expiry, are two token buckets that refill all the time and are charged
\* together, exact but for the lag of a check's clock: a refused check costs
\* nothing, and a key that expires was full anyway.
IsTokenBuckets ==
    /\ Promise!Init
    /\ [][Readable' => Promise!Next \/ UNCHANGED Promise!vars]_vars

InFlight == {c \in Calls : calls[c].pc = "admitted"}

\* The debt of the token bucket is bounded by what the calls that are over can
\* have been under-estimated; those in flight have not yet added to it.
DebtBounded == tok.tokens >= - Shortfall * Cardinality(Calls \ InFlight)

\* A hash loses its ts only to the correction of a call that was under way for
\* as long as the keys live.
UnreadableOnlyByLateCall ==
    [][Readable /\ ~ Readable' =>
         \E c \in InFlight : calls[c].for >= TTL /\ calls'[c].pc = "idle"]_vars

\* A tenant that keeps asking keeps being admitted, unless its hashes cannot be
\* read any more.
KeepsAdmitting == []Readable => []<>(InFlight # {})
=============================================================================
