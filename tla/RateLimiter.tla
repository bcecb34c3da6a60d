----------------------------- MODULE RateLimiter -----------------------------
(***************************************************************************)
(* The token buckets of kb_mcp/middleware/rate_limit.py, one per subject,  *)
(* workspace and tool, made when its key is first seen.  Tokens are counted*)
(* in parts: a call costs Cost of them and Rate come back per tick, so any *)
(* rational rps is Rate / Cost calls per tick.  A bucket is refilled only  *)
(* when it is asked; what it keeps is the tokens at its last update and    *)
(* the ticks since then, up to the number that fills any bucket.           *)
(***************************************************************************)
EXTENDS Integers

CONSTANTS
    Keys,     \* triples of subject, workspace and tool
    Burst,    \* calls a full bucket holds
    Rate,     \* parts a bucket gains per tick
    Cost,     \* parts a call costs
    Horizon,  \* longest window, in ticks, that admissions are counted over
    NoBucket

Cap == Burst * Cost
Windows == 0 .. Horizon
Bucket == [tokens : 0 .. Cap, age : 0 .. Cap]

ASSUME LimiterAssumption ==
    /\ Burst \in Nat
    /\ Rate \in Nat \ {0}
    /\ Cost \in Nat \ {0}
    /\ Horizon \in Nat
    /\ NoBucket \notin Bucket

VARIABLES
    buckets,  \* buckets[k]: the bucket of key k
    recent    \* recent[k][d]: calls admitted in the last d ticks and this one

limiterVars == <<buckets, recent>>

LimiterTypeOK ==
    /\ buckets \in [Keys -> Bucket \cup {NoBucket}]
    /\ recent \in [Keys -> [Windows -> Nat]]

LimiterInit ==
    /\ buckets = [k \in Keys |-> NoBucket]
    /\ recent = [k \in Keys |-> [d \in Windows |-> 0]]

\* Mutant: the refill is not capped by the burst.
Refilled_Uncapped(b) == b.tokens + b.age * Rate

\* The tokens of a bucket once the time since its last update is paid out.
Refilled(b) ==
    IF b.tokens + b.age * Rate <= Cap THEN b.tokens + b.age * Rate ELSE Cap

\* A bucket starts full.
Opened(k) == IF buckets[k] = NoBucket THEN [tokens |-> Cap, age |-> 0] ELSE buckets[k]
Available(k) == Refilled(Opened(k))

\* Mutant: the time that was paid out is not taken off.
IsAllowed_PaysTwice(k) ==
    /\ Available(k) >= Cost
    /\ buckets' = [buckets EXCEPT ![k] = [Opened(k) EXCEPT !.tokens = Available(k) - Cost]]
    /\ recent' = [recent EXCEPT ![k] = [d \in Windows |-> @[d] + 1]]

\* consume returns True.
IsAllowed(k) ==
    /\ Available(k) >= Cost
    /\ buckets' = [buckets EXCEPT ![k] = [tokens |-> Available(k) - Cost, age |-> 0]]
    /\ recent' = [recent EXCEPT ![k] = [d \in Windows |-> @[d] + 1]]

\* Mutant: a call that is denied forfeits the time since the last update.
IsDenied_Forfeits(k) ==
    /\ Available(k) < Cost
    /\ buckets' = [buckets EXCEPT ![k] = [Opened(k) EXCEPT !.age = 0]]
    /\ UNCHANGED recent

\* consume returns False; the bucket is refilled all the same.
IsDenied(k) ==
    /\ Available(k) < Cost
    /\ buckets' = [buckets EXCEPT ![k] = [tokens |-> Available(k), age |-> 0]]
    /\ UNCHANGED recent

LimiterTick ==
    /\ buckets' = [k \in Keys |->
         IF buckets[k] = NoBucket THEN NoBucket
         ELSE [buckets[k] EXCEPT !.age = IF @ < Cap THEN @ + 1 ELSE Cap]]
    /\ recent' = [k \in Keys |-> [d \in Windows |-> IF d = 0 THEN 0 ELSE recent[k][d - 1]]]

\* In no window of time does a key get more calls through than the burst and
\* what the rate yields over the window, however calls, denied calls and
\* idle time follow each other.
RateBound == \A k \in Keys, d \in Windows : Cost * recent[k][d] <= Cap + Rate * d

\* Waiting pays, whatever was denied meanwhile: a key that got no call through
\* for d ticks has the tokens of d ticks, so a client that retries is not put
\* off by its own retries.
WaitIsPaid ==
    \A k \in Keys, d \in Windows :
        recent[k][d] = 0 => Available(k) >= Cap \/ Available(k) >= Rate * d
===============================================================================
