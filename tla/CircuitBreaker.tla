---------------------------- MODULE CircuitBreaker ----------------------------
(***************************************************************************)
(* The circuit breaker of kb_mcp/middleware/circuit_breaker.py.  Every     *)
(* method runs under the breaker's lock, so each is one step; allow_request*)
(* is two actions, for its two answers.  The clock is read as the ticks    *)
(* since the last change of state, kept no further than the comparison     *)
(* with the recovery time can tell; so is the count of failures, which is  *)
(* only ever compared with the threshold.                                  *)
(***************************************************************************)
EXTENDS Naturals

CONSTANTS
    Threshold,  \* failure_threshold
    Recovery    \* recovery_timeout, in ticks

ASSUME BreakerAssumption == Threshold \in Nat \ {0} /\ Recovery \in Nat

VARIABLES
    state,     \* "CLOSED", "OPEN" or "HALF_OPEN"
    failures,  \* failures in a row, counted up to Threshold
    age        \* ticks since last_state_change, up to Recovery + 1

breakerVars == <<state, failures, age>>

States == {"CLOSED", "OPEN", "HALF_OPEN"}

BreakerTypeOK ==
    /\ state \in States
    /\ failures \in 0 .. Threshold
    /\ age \in 0 .. Recovery + 1

BreakerInit == state = "CLOSED" /\ failures = 0 /\ age = 0

\* Mutant: the probe after the recovery time starts the count afresh.
AllowRequest_Recounts ==
    \/ state # "OPEN" /\ UNCHANGED breakerVars
    \/ /\ state = "OPEN"
       /\ age > Recovery
       /\ state' = "HALF_OPEN"
       /\ age' = 0
       /\ failures' = 0

\* Mutant: a request that is let through leaves the circuit open.
AllowRequest_StaysOpen ==
    (state = "OPEN" => age > Recovery) /\ UNCHANGED breakerVars

\* allow_request returns True: the circuit is not open, or it has been for
\* longer than the recovery time and now goes half open.
AllowRequest ==
    \/ state # "OPEN" /\ UNCHANGED breakerVars
    \/ /\ state = "OPEN"
       /\ age > Recovery
       /\ state' = "HALF_OPEN"
       /\ age' = 0
       /\ UNCHANGED failures

\* Mutant: a refused request starts the recovery time again.
RefuseRequest_Restarts ==
    /\ state = "OPEN"
    /\ age <= Recovery
    /\ age' = 0
    /\ UNCHANGED <<state, failures>>

\* allow_request returns False.
RefuseRequest ==
    /\ state = "OPEN"
    /\ age <= Recovery
    /\ UNCHANGED breakerVars

\* Mutant: the count is reset and the state is not.
RecordSuccess_CountOnly == failures' = 0 /\ UNCHANGED <<state, age>>

RecordSuccess ==
    /\ failures' = 0
    /\ state' = "CLOSED"
    /\ UNCHANGED age

RecordFailure ==
    LET n == IF failures < Threshold THEN failures + 1 ELSE Threshold
    IN /\ failures' = n
       /\ IF n >= Threshold
          THEN state' = "OPEN" /\ age' = 0
          ELSE UNCHANGED <<state, age>>

BreakerTick ==
    /\ age' = IF age <= Recovery THEN age + 1 ELSE age
    /\ UNCHANGED <<state, failures>>

\* The circuit is open or half open exactly while the last Threshold results
\* or more were failures: the probe of a half-open circuit keeps the count,
\* so that its failure opens the circuit again at once.
TrippedIffFailing == failures = Threshold <=> state # "CLOSED"
===============================================================================
