------------------------------- MODULE Gateway -------------------------------
(***************************************************************************)
(* What every tool call passes: with_middlewares of kb_mcp/server/         *)
(* helpers.py asks the circuit breaker, then the rate limiter, runs the    *)
(* tool and reports to the breaker how it ended.  One breaker serves all   *)
(* tools.  A tool either touches the stores ("upstream") or only computes; *)
(* it may also raise over the call itself, as when no identity resolves.   *)
(***************************************************************************)
EXTENDS CircuitBreaker, RateLimiter

CONSTANTS
    Callers,       \* calls that can be under way at a time
    UpstreamKeys,  \* keys of tools that call the stores
    RejectingKeys, \* keys of tools that may raise over the call itself
    SoftKeys       \* keys of tools whose output needs no field but the contract's

ASSUME GatewayAssumption ==
    UpstreamKeys \subseteq Keys /\ RejectingKeys \subseteq Keys /\ SoftKeys \subseteq Keys

VARIABLES
    upstream,  \* whether the stores answer: "up" or "down"
    call       \* call[c]: the call that caller c makes or made last

vars == <<state, failures, age, buckets, recent, upstream, call>>

Inside == {"limiter", "running", "succeeded", "raised"}
Answers == {"none", "ok", "error", "UPSTREAM_UNAVAILABLE", "RATE_LIMITED", "broken"}
Calls == [pc : {"idle", "breaker"} \cup Inside, key : Keys, answer : Answers]

GatewayTypeOK ==
    /\ BreakerTypeOK
    /\ LimiterTypeOK
    /\ upstream \in {"up", "down"}
    /\ call \in [Callers -> Calls]

Init ==
    /\ BreakerInit
    /\ LimiterInit
    /\ upstream = "up"
    /\ call \in [Callers -> {[pc |-> "idle", key |-> k, answer |-> "none"] : k \in Keys}]

Goes(c, pc) == call' = [call EXCEPT ![c].pc = pc]
Ends(c, answer) == call' = [call EXCEPT ![c].pc = "idle", ![c].answer = answer]

\* The wrapper makes the tool's output from the contract's fields alone; the
\* output types that have others without a default cannot be made that way
\* and raise.
Denial(c, code) == IF call[c].key \in SoftKeys THEN code ELSE "broken"

Begin(c, k) ==
    /\ call[c].pc = "idle"
    /\ call' = [call EXCEPT ![c] = [pc |-> "breaker", key |-> k, answer |-> "none"]]
    /\ UNCHANGED <<breakerVars, limiterVars, upstream>>

PassBreaker(c) ==
    /\ call[c].pc = "breaker"
    /\ AllowRequest
    /\ Goes(c, "limiter")
    /\ UNCHANGED <<limiterVars, upstream>>

StopAtBreaker(c) ==
    /\ call[c].pc = "breaker"
    /\ RefuseRequest
    /\ Ends(c, Denial(c, "UPSTREAM_UNAVAILABLE"))
    /\ UNCHANGED <<limiterVars, upstream>>

PassLimiter(c) ==
    /\ call[c].pc = "limiter"
    /\ IsAllowed(call[c].key)
    /\ Goes(c, "running")
    /\ UNCHANGED <<breakerVars, upstream>>

\* A call the limiter stops reports nothing to the breaker, though it may
\* just have turned it half open.
StopAtLimiter(c) ==
    /\ call[c].pc = "limiter"
    /\ IsDenied(call[c].key)
    /\ Ends(c, Denial(c, "RATE_LIMITED"))
    /\ UNCHANGED <<breakerVars, upstream>>

\* The tool returns, also with an error in its contract fields.
ToolReturns(c) ==
    /\ call[c].pc = "running"
    /\ call[c].key \in UpstreamKeys => upstream = "up"
    /\ Goes(c, "succeeded")
    /\ UNCHANGED <<breakerVars, limiterVars, upstream>>

ToolRaises(c) ==
    /\ call[c].pc = "running"
    /\ \/ call[c].key \in RejectingKeys
       \/ call[c].key \in UpstreamKeys /\ upstream = "down"
    /\ Goes(c, "raised")
    /\ UNCHANGED <<breakerVars, limiterVars, upstream>>

Report(c) ==
    /\ \/ call[c].pc = "succeeded" /\ RecordSuccess /\ Ends(c, "ok")
       \/ call[c].pc = "raised" /\ RecordFailure /\ Ends(c, "error")
    /\ UNCHANGED <<limiterVars, upstream>>

\* The stores fail or come back.
Upstream ==
    /\ upstream' = IF upstream = "up" THEN "down" ELSE "up"
    /\ UNCHANGED <<breakerVars, limiterVars, call>>

Tick ==
    /\ BreakerTick
    /\ LimiterTick
    /\ UNCHANGED <<upstream, call>>

Handle(c) ==
    \/ PassBreaker(c)
    \/ StopAtBreaker(c)
    \/ PassLimiter(c)
    \/ StopAtLimiter(c)
    \/ ToolReturns(c)
    \/ ToolRaises(c)
    \/ Report(c)

Next ==
    \/ \E c \in Callers : Handle(c) \/ \E k \in Keys : Begin(c, k)
    \/ Upstream
    \/ Tick

Spec == Init /\ [][Next]_vars

\* The server works on what it has begun, time passes, and clients go on to
\* call every tool, as the recovery the runbook describes presumes.
Fairness ==
    /\ \A c \in Callers : WF_vars(Handle(c))
    /\ WF_vars(Tick)
    /\ \A k \in Keys : SF_vars(\E c \in Callers : Begin(c, k))

FairSpec == Spec /\ Fairness

-----------------------------------------------------------------------------
\* While the circuit is open nothing that it should keep from the stores is
\* under way: what was let through turned it half open.  (One call at a time,
\* as the server's event loop runs them.)
OpenMeansNoneInside == state = "OPEN" => \A c \in Callers : call[c].pc \notin Inside

NothingRaises == \A c \in Callers : call[c].pc # "raised"

\* docs/runbook.md, "Circuit breaker trips": once exceptions stop occurring
\* the breaker goes half open after the recovery time and closes.
Recovers == <>[]NothingRaises => <>[](state = "CLOSED")

\* From then on every client that keeps calling is let through again and
\* again, whatever of its calls were refused or denied on the way.
ServesAgain ==
    <>[]NothingRaises =>
        \A k \in Keys :
            []<>(\E c \in Callers : call[c].pc = "running" /\ call[c].key = k)

\* docs/runbook.md, README.md "Structured outputs": a call that the breaker
\* or the limiter stops returns ok=false with an error_code.
DeniedIsContract == \A c \in Callers : call[c].answer # "broken"
===============================================================================
