---------------------------- MODULE Gateway_proofs ----------------------------
(***************************************************************************)
(* Proofs about the breaker and the limiter and the calls that pass them,  *)
(* for every threshold, recovery time, burst, rate and cost, any keys and  *)
(* any number of calls at a time.                                          *)
(***************************************************************************)
EXTENDS Gateway, TLAPS

-----------------------------------------------------------------------------
(* What a bucket has available.                                            *)

LEMMA CapType == Cap \in Nat
  BY LimiterAssumption DEF Cap

\* Paying out the time since the last update yields no more than the burst.
LEMMA RefilledType ==
    ASSUME NEW b \in Bucket
    PROVE  Refilled(b) \in 0 .. Cap
<1>1. b.tokens \in 0 .. Cap /\ b.age \in Nat
  BY CapType DEF Bucket
<1>2. b.age * Rate \in Nat
  BY <1>1, LimiterAssumption
<1> QED
  BY <1>1, <1>2, CapType DEF Refilled

LEMMA OpenedType ==
    ASSUME LimiterTypeOK, NEW k \in Keys
    PROVE  Opened(k) \in Bucket
  BY CapType DEF LimiterTypeOK, Opened, Bucket

LEMMA AvailableType ==
    ASSUME LimiterTypeOK, NEW k \in Keys
    PROVE  Available(k) \in 0 .. Cap
  BY OpenedType, RefilledType DEF Available

\* Right after an update a bucket has what it keeps.
LEMMA RefilledNow ==
    ASSUME NEW n \in 0 .. Cap
    PROVE  Refilled([tokens |-> n, age |-> 0]) = n
<1>1. 0 * Rate = 0
  BY LimiterAssumption
<1> QED
  BY <1>1, CapType DEF Refilled

LEMMA OneMore ==
    ASSUME NEW m \in Nat, NEW n \in Nat
    PROVE  /\ m * n \in Nat /\ n * m \in Nat
           /\ (m + 1) * n = m * n + n
           /\ n * (m + 1) = n * m + n
  OBVIOUS

\* A bucket a tick later.
Later(b) == [tokens |-> b.tokens, age |-> IF b.age < Cap THEN b.age + 1 ELSE Cap]

\* A tick yields Rate, unless that overfills the bucket.
LEMMA RefilledLater ==
    ASSUME NEW b \in Bucket
    PROVE  /\ Later(b) \in Bucket
           /\ Refilled(Later(b)) <= Refilled(b) + Rate
           /\ Refilled(Later(b)) >= Cap \/ Refilled(Later(b)) >= Refilled(b) + Rate
<1> USE LimiterAssumption, CapType
<1>1. b.tokens \in 0 .. Cap /\ b.age \in 0 .. Cap
  BY DEF Bucket
<1>2. Later(b) \in Bucket
  BY <1>1 DEF Later, Bucket
<1>3. CASE b.age < Cap
  <2>1. Later(b).tokens = b.tokens /\ Later(b).age = b.age + 1
    BY <1>3 DEF Later
  <2>2. PICK yield \in Nat : yield = b.age * Rate
    BY <1>1, OneMore
  <2>3. Later(b).age * Rate = yield + Rate
    BY <1>1, <2>1, <2>2, OneMore
  <2>4. /\ Refilled(b) = IF b.tokens + yield <= Cap THEN b.tokens + yield ELSE Cap
        /\ Refilled(Later(b)) = IF b.tokens + (yield + Rate) <= Cap
                                THEN b.tokens + (yield + Rate) ELSE Cap
    BY <2>1, <2>2, <2>3 DEF Refilled
  <2> QED
    BY <1>1, <1>2, <2>4
<1>4. CASE b.age = Cap
  <2>1. Later(b) = b
    BY <1>4 DEF Later, Bucket
  <2>2. Cap * Rate >= Cap /\ Cap * Rate \in Nat
    OBVIOUS
  <2>3. Refilled(b) = Cap
    BY <1>1, <1>4, <2>2 DEF Refilled
  <2> QED
    BY <1>2, <2>1, <2>3
<1> QED
  BY <1>1, <1>3, <1>4

-----------------------------------------------------------------------------
(* The limiter's own steps.                                                *)

\* What a key has available and has got through makes up no more than the
\* burst and the yield of the window.
Spent == \A k \in Keys, d \in Windows : Cost * recent[k][d] + Available(k) <= Cap + Rate * d

LimiterInv == LimiterTypeOK /\ Spent /\ WaitIsPaid

LEMMA InitLimiter == LimiterInit => LimiterInv
<1> SUFFICES ASSUME LimiterInit PROVE LimiterInv
  OBVIOUS
<1> USE LimiterAssumption, CapType
<1>1. LimiterTypeOK
  BY DEF LimiterInit, LimiterTypeOK
<1>2. ASSUME NEW k \in Keys
      PROVE  Available(k) = Cap
  BY <1>2, RefilledNow DEF LimiterInit, Available, Opened
<1>3. ASSUME NEW k \in Keys, NEW d \in Windows
      PROVE  recent[k][d] = 0 /\ d \in Nat /\ Rate * d \in Nat /\ Cost * 0 = 0
  BY <1>3 DEF LimiterInit, Windows
<1>4. Spent
  BY <1>2, <1>3 DEF Spent
<1>5. WaitIsPaid
  BY <1>2 DEF WaitIsPaid
<1> QED
  BY <1>1, <1>4, <1>5 DEF LimiterInv

\* A call that is let through pays for itself.
LEMMA AllowedStep ==
    ASSUME LimiterInv, NEW k \in Keys, IsAllowed(k)
    PROVE  LimiterInv'
<1> USE LimiterAssumption, CapType DEF LimiterInv
<1>1. Available(k) \in 0 .. Cap /\ Available(k) - Cost \in 0 .. Cap
  BY AvailableType DEF IsAllowed
<1>2. LimiterTypeOK'
  BY <1>1 DEF IsAllowed, LimiterTypeOK, Bucket, Windows
<1>3. buckets'[k] = [tokens |-> Available(k) - Cost, age |-> 0] /\ buckets'[k] # NoBucket
  BY <1>1 DEF IsAllowed, LimiterTypeOK, Bucket
<1>4. Available(k)' = Available(k) - Cost
  BY <1>1, <1>3, RefilledNow DEF Available, Opened
<1>5. ASSUME NEW l \in Keys, l # k
      PROVE  Available(l)' = Available(l) /\ recent'[l] = recent[l]
  BY <1>5 DEF IsAllowed, Available, Opened, LimiterTypeOK
<1>6. ASSUME NEW d \in Windows
      PROVE  /\ recent'[k][d] = recent[k][d] + 1 /\ recent[k][d] \in Nat
             /\ Cost * recent'[k][d] = Cost * recent[k][d] + Cost
             /\ Cost * recent[k][d] \in Nat
             /\ Rate * d \in Nat
  <2>1. recent'[k][d] = recent[k][d] + 1 /\ recent[k][d] \in Nat
    BY <1>6 DEF IsAllowed, LimiterTypeOK
  <2>2. PICK n \in Nat : n = recent[k][d]
    BY <2>1
  <2>3. Cost * (n + 1) = Cost * n + Cost /\ Cost * n \in Nat
    BY OneMore
  <2>4. Rate * d \in Nat
    BY <1>6, OneMore DEF Windows
  <2> QED
    BY <2>1, <2>2, <2>3, <2>4
<1>7. Spent'
  BY <1>1, <1>4, <1>5, <1>6 DEF Spent, Windows
<1>8. WaitIsPaid'
  BY <1>5, <1>6 DEF WaitIsPaid, Windows
<1> QED
  BY <1>2, <1>7, <1>8

\* A call that is denied changes nothing but when the bucket was updated.
LEMMA DeniedStep ==
    ASSUME LimiterInv, NEW k \in Keys, IsDenied(k)
    PROVE  LimiterInv'
<1> USE LimiterAssumption, CapType DEF LimiterInv
<1>1. Available(k) \in 0 .. Cap
  BY AvailableType
<1>2. LimiterTypeOK'
  BY <1>1 DEF IsDenied, LimiterTypeOK, Bucket
<1>3. buckets'[k] = [tokens |-> Available(k), age |-> 0] /\ buckets'[k] # NoBucket
  BY <1>1 DEF IsDenied, LimiterTypeOK, Bucket
<1>4. Available(k)' = Available(k)
  BY <1>1, <1>3, RefilledNow DEF Available, Opened
<1>5. \A l \in Keys : Available(l)' = Available(l)
  BY <1>4 DEF IsDenied, Available, Opened, LimiterTypeOK
<1>6. Spent' /\ WaitIsPaid'
  BY <1>5 DEF IsDenied, Spent, WaitIsPaid
<1> QED
  BY <1>2, <1>6

\* A tick yields Rate and adds one to every window.
LEMMA TickStep ==
    ASSUME LimiterInv, LimiterTick
    PROVE  LimiterInv'
<1> USE LimiterAssumption, CapType DEF LimiterInv
<1>1. ASSUME NEW k \in Keys
      PROVE  /\ buckets'[k] \in Bucket \cup {NoBucket}
             /\ Available(k) \in 0 .. Cap
             /\ Available(k)' \in 0 .. Cap
             /\ Available(k)' <= Available(k) + Rate
             /\ Available(k)' >= Cap \/ Available(k)' >= Available(k) + Rate
  <2>1. CASE buckets[k] = NoBucket
    <3>1. buckets'[k] = NoBucket
      BY <1>1, <2>1 DEF LimiterTick
    <3>2. Available(k) = Cap /\ Available(k)' = Cap
      BY <2>1, <3>1, RefilledNow DEF Available, Opened
    <3> QED
      BY <3>1, <3>2
  <2>2. CASE buckets[k] # NoBucket
    <3>1. buckets[k] \in Bucket
      BY <1>1, <2>2 DEF LimiterTypeOK
    <3>2. buckets'[k] = Later(buckets[k])
      BY <1>1, <2>2, <3>1 DEF LimiterTick, Later, Bucket
    <3>3. buckets'[k] \in Bucket /\ buckets'[k] # NoBucket
      BY <3>1, <3>2, RefilledLater
    <3>4. Available(k) = Refilled(buckets[k]) /\ Available(k)' = Refilled(buckets'[k])
      BY <2>2, <3>3 DEF Available, Opened
    <3> QED
      BY <3>1, <3>2, <3>3, <3>4, RefilledLater, RefilledType
  <2> QED BY <2>1, <2>2
<1>2. recent' \in [Keys -> [Windows -> Nat]]
  BY DEF LimiterTick, LimiterTypeOK, Windows
<1>3. LimiterTypeOK'
  BY <1>1, <1>2 DEF LimiterTick, LimiterTypeOK
<1>4. ASSUME NEW k \in Keys, NEW d \in Windows, d # 0
      PROVE  /\ d - 1 \in Windows /\ d \in Nat
             /\ recent'[k][d] = recent[k][d - 1]
             /\ recent[k][d - 1] \in Nat
             /\ Cost * recent[k][d - 1] \in Nat
             /\ Rate * d = Rate * (d - 1) + Rate
  <2>1. d - 1 \in Windows /\ d - 1 \in Nat
    BY <1>4 DEF Windows
  <2>2. recent'[k][d] = recent[k][d - 1] /\ recent[k][d - 1] \in Nat
    BY <1>4, <2>1 DEF LimiterTick, LimiterTypeOK
  <2>3. PICK e \in Nat : d = e + 1
    BY <2>1, <1>4 DEF Windows
  <2>4. Rate * d = Rate * (d - 1) + Rate
    BY <2>3, OneMore
  <2> QED
    BY <2>1, <2>2, <2>3, <2>4, OneMore
<1>5. ASSUME NEW k \in Keys, 0 \in Windows
      PROVE  recent'[k][0] = 0 /\ Cost * 0 = 0 /\ Rate * 0 = 0
  BY <1>5 DEF LimiterTick
<1>6. Spent'
  <2> SUFFICES ASSUME NEW k \in Keys, NEW d \in Windows
               PROVE  Cost * recent'[k][d] + Available(k)' <= Cap + Rate * d
    BY DEF Spent
  <2>1. CASE d = 0
    BY <1>1, <1>5, <2>1
  <2>2. CASE d # 0
    BY <1>1, <1>4, <2>2 DEF Spent
  <2> QED BY <2>1, <2>2
<1>7. WaitIsPaid'
  <2> SUFFICES ASSUME NEW k \in Keys, NEW d \in Windows, recent'[k][d] = 0
               PROVE  Available(k)' >= Cap \/ Available(k)' >= Rate * d
    BY DEF WaitIsPaid
  <2>1. CASE d = 0
    BY <1>1, <1>5, <2>1
  <2>2. CASE d # 0
    BY <1>1, <1>4, <2>2 DEF WaitIsPaid
  <2> QED BY <2>1, <2>2
<1> QED
  BY <1>3, <1>6, <1>7

-----------------------------------------------------------------------------
(* The breaker's own steps.                                                *)

BreakerInv == BreakerTypeOK /\ TrippedIffFailing

LEMMA BreakerStep ==
    ASSUME BreakerInv,
           \/ AllowRequest
           \/ RefuseRequest
           \/ RecordSuccess
           \/ RecordFailure
           \/ BreakerTick
    PROVE  BreakerInv'
<1> USE BreakerAssumption
    DEF BreakerInv, BreakerTypeOK, TrippedIffFailing, States, breakerVars
<1>1. CASE AllowRequest
  BY <1>1 DEF AllowRequest
<1>2. CASE RefuseRequest
  BY <1>2 DEF RefuseRequest
<1>3. CASE RecordSuccess
  BY <1>3 DEF RecordSuccess
<1>4. CASE RecordFailure
  BY <1>4 DEF RecordFailure
<1>5. CASE BreakerTick
  BY <1>5 DEF BreakerTick
<1> QED
  BY <1>1, <1>2, <1>3, <1>4, <1>5

-----------------------------------------------------------------------------
(* Both, and the calls that pass them.                                     *)

GatewayInv ==
    /\ GatewayTypeOK
    /\ BreakerInv
    /\ LimiterInv

LEMMA InitGateway == Init => GatewayInv
<1> SUFFICES ASSUME Init PROVE GatewayInv
  OBVIOUS
<1>1. BreakerInv
  BY BreakerAssumption DEF Init, BreakerInit, BreakerInv, BreakerTypeOK, TrippedIffFailing, States
<1>2. LimiterInv
  BY InitLimiter DEF Init
<1>3. call \in [Callers -> Calls]
  BY DEF Init, Calls, Inside, Answers
<1> QED
  BY <1>1, <1>2, <1>3 DEF Init, GatewayInv, GatewayTypeOK, BreakerInv, LimiterInv

\* What a step does to the breaker, to the limiter and to the calls.
LEMMA NextParts ==
    ASSUME GatewayTypeOK, Next
    PROVE  /\ \/ AllowRequest \/ RefuseRequest \/ RecordSuccess \/ RecordFailure
              \/ BreakerTick \/ UNCHANGED breakerVars
           /\ \/ \E k \in Keys : IsAllowed(k) \/ IsDenied(k)
              \/ LimiterTick \/ UNCHANGED limiterVars
           /\ call' \in [Callers -> Calls]
           /\ upstream' \in {"up", "down"}
<1> USE DEF GatewayTypeOK, Goes, Ends
<1>1. \A c \in Callers : call[c] \in Calls /\ call[c].key \in Keys
  BY DEF Calls
<1>2. ASSUME NEW c \in Callers, NEW k \in Keys, Begin(c, k)
      PROVE  call' \in [Callers -> Calls]
  BY <1>2 DEF Begin, Calls, Inside, Answers
<1>3. ASSUME NEW c \in Callers, NEW pc \in {"idle", "breaker"} \cup Inside, Goes(c, pc)
      PROVE  call' \in [Callers -> Calls]
  BY <1>3 DEF Calls
<1>4. ASSUME NEW c \in Callers, NEW a \in Answers, Ends(c, a)
      PROVE  call' \in [Callers -> Calls]
  BY <1>4 DEF Calls
<1>5. ASSUME NEW c \in Callers
      PROVE  /\ Denial(c, "UPSTREAM_UNAVAILABLE") \in Answers
             /\ Denial(c, "RATE_LIMITED") \in Answers
  BY DEF Denial, Answers
<1>6. ASSUME NEW c \in Callers, Handle(c)
      PROVE  call' \in [Callers -> Calls]
  BY <1>3, <1>4, <1>5, <1>6
     DEF Handle, PassBreaker, StopAtBreaker, PassLimiter, StopAtLimiter, ToolReturns,
         ToolRaises, Report, Inside, Answers
<1>7. call' \in [Callers -> Calls]
  BY <1>2, <1>6 DEF Next, Upstream, Tick
<1>8. upstream' \in {"up", "down"}
  BY DEF Next, Handle, PassBreaker, StopAtBreaker, PassLimiter, StopAtLimiter, ToolReturns,
     ToolRaises, Report, Begin, Upstream, Tick
<1>9. \/ AllowRequest \/ RefuseRequest \/ RecordSuccess \/ RecordFailure
      \/ BreakerTick \/ UNCHANGED breakerVars
  BY DEF Next, Handle, PassBreaker, StopAtBreaker, PassLimiter, StopAtLimiter, ToolReturns,
     ToolRaises, Report, Begin, Upstream, Tick
<1>10. \/ \E k \in Keys : IsAllowed(k) \/ IsDenied(k)
       \/ LimiterTick \/ UNCHANGED limiterVars
  BY <1>1 DEF Next, Handle, PassBreaker, StopAtBreaker, PassLimiter, StopAtLimiter,
     ToolReturns, ToolRaises, Report, Begin, Upstream, Tick
<1> QED
  BY <1>7, <1>8, <1>9, <1>10

LEMMA StepGateway == GatewayInv /\ [Next]_vars => GatewayInv'
<1> SUFFICES ASSUME GatewayInv, [Next]_vars PROVE GatewayInv'
  OBVIOUS
<1>1. CASE Next
  <2>1. BreakerInv'
    <3>1. CASE UNCHANGED breakerVars
      BY <3>1 DEF GatewayInv, BreakerInv, BreakerTypeOK, TrippedIffFailing, breakerVars
    <3> QED
      BY <1>1, <3>1, NextParts, BreakerStep DEF GatewayInv
  <2>2. LimiterInv'
    <3>1. CASE UNCHANGED limiterVars
      BY <3>1 DEF GatewayInv, LimiterInv, LimiterTypeOK, Spent, WaitIsPaid, Available,
         Opened, limiterVars
    <3> QED
      BY <1>1, <3>1, NextParts, AllowedStep, DeniedStep, TickStep DEF GatewayInv
  <2>3. GatewayTypeOK'
    BY <1>1, <2>1, <2>2, NextParts DEF GatewayInv, GatewayTypeOK, BreakerInv, LimiterInv
  <2> QED
    BY <2>1, <2>2, <2>3 DEF GatewayInv
<1>2. CASE UNCHANGED vars
  BY <1>2 DEF vars, GatewayInv, GatewayTypeOK, BreakerInv, BreakerTypeOK, TrippedIffFailing,
     LimiterInv, LimiterTypeOK, Spent, WaitIsPaid, Available, Opened
<1> QED
  BY <1>1, <1>2

LEMMA GatewaySafety == Spec => []GatewayInv
  BY InitGateway, StepGateway, PTL DEF Spec

\* Every reachable state has its type.
THEOREM GatewayTypeCorrect == Spec => []GatewayTypeOK
<1>1. GatewayInv => GatewayTypeOK
  BY DEF GatewayInv
<1> QED
  BY GatewaySafety, <1>1, PTL

\* The circuit is open or half open exactly while the count of failures is at
\* the threshold, with any number of calls under way at once.
THEOREM TrippedSafety == Spec => []TrippedIffFailing
<1>1. GatewayInv => TrippedIffFailing
  BY DEF GatewayInv, BreakerInv
<1> QED
  BY GatewaySafety, <1>1, PTL

\* In no window does a key get more through than the burst and the yield.
THEOREM RateSafety == Spec => []RateBound
<1>1. GatewayInv => RateBound
  <2> SUFFICES ASSUME GatewayInv, NEW k \in Keys, NEW d \in Windows
               PROVE  Cost * recent[k][d] <= Cap + Rate * d
    BY DEF RateBound
  <2>0. LimiterTypeOK
    BY DEF GatewayInv, LimiterInv
  <2>1. recent[k][d] \in Nat /\ d \in Nat /\ Available(k) \in 0 .. Cap
    BY <2>0, AvailableType, LimiterAssumption DEF LimiterTypeOK, Windows
  <2>2. PICK spent \in Nat, yield \in Nat : spent = Cost * recent[k][d] /\ yield = Rate * d
    BY <2>1, OneMore, LimiterAssumption
  <2>3. spent + Available(k) <= Cap + yield
    BY <2>2 DEF GatewayInv, LimiterInv, Spent
  <2> QED
    BY <2>1, <2>2, <2>3, CapType
<1> QED
  BY GatewaySafety, <1>1, PTL

\* A key that got nothing through for d ticks has the tokens of d ticks.
THEOREM WaitSafety == Spec => []WaitIsPaid
<1>1. GatewayInv => WaitIsPaid
  BY DEF GatewayInv, LimiterInv
<1> QED
  BY GatewaySafety, <1>1, PTL

-----------------------------------------------------------------------------
\* The server's event loop runs one call at a time.
OneCaller == \A c, d \in Callers : c = d

\* One call at a time: an open circuit has nothing under way behind it.
THEOREM OpenSafety == ASSUME OneCaller PROVE Spec => []OpenMeansNoneInside
<1>1. Init => OpenMeansNoneInside
  BY DEF Init, BreakerInit, OpenMeansNoneInside
<1>2. GatewayTypeOK /\ OpenMeansNoneInside /\ [Next]_vars => OpenMeansNoneInside'
  <2> SUFFICES ASSUME GatewayTypeOK, OpenMeansNoneInside, [Next]_vars
               PROVE  OpenMeansNoneInside'
    OBVIOUS
  <2> USE DEF OneCaller, OpenMeansNoneInside, GatewayTypeOK, Goes, Ends, Inside, Calls,
        breakerVars
  <2>1. ASSUME NEW c \in Callers, Handle(c)
        PROVE  OpenMeansNoneInside'
    <3>1. CASE PassBreaker(c)
      BY <3>1 DEF PassBreaker, AllowRequest
    <3>2. CASE StopAtBreaker(c) \/ StopAtLimiter(c)
      BY <3>2 DEF StopAtBreaker, RefuseRequest, StopAtLimiter
    <3>3. CASE PassLimiter(c) \/ ToolReturns(c) \/ ToolRaises(c)
      BY <3>3 DEF PassLimiter, ToolReturns, ToolRaises
    <3>4. CASE Report(c)
      BY <3>4 DEF Report, RecordSuccess, RecordFailure
    <3> QED
      BY <2>1, <3>1, <3>2, <3>3, <3>4 DEF Handle
  <2>2. ASSUME NEW c \in Callers, NEW k \in Keys, Begin(c, k)
        PROVE  OpenMeansNoneInside'
    BY <2>2 DEF Begin
  <2>3. CASE Upstream \/ Tick \/ UNCHANGED vars
    BY <2>3 DEF Upstream, Tick, BreakerTick, vars
  <2> QED
    BY <2>1, <2>2, <2>3 DEF Next
<1> QED
  BY <1>1, <1>2, GatewayTypeCorrect, PTL DEF Spec
===============================================================================
