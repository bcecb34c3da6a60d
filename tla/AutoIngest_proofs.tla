-------------------------- MODULE AutoIngest_proofs --------------------------
(* Type correctness and the safety properties of AutoIngest, for any roots, *)
(* attempts, interval and number of failures.                               *)
EXTENDS AutoIngest, TLAPS

AtWork == pc \in {"try", "ingest", "backoff"}

\* The lock is the thread's while the pipeline runs, and only then.
LockIsForIngest == lock = "auto" <=> pc = "ingest"

\* Calls that raised, told from where the thread is: one per attempt made.
AttemptsCounted ==
    /\ pc \in {"try", "ingest"} => raised[root] = attempt - 1
    /\ pc = "backoff" => raised[root] = attempt /\ attempt < MaxAttempts
    /\ AtWork => root \notin todo /\ result[root] = "none"
    /\ \A r \in todo : raised[r] = 0 /\ result[r] = "none"
    /\ \A r \in Roots : result[r] = "failed" <=> raised[r] = MaxAttempts

\* Outside a cycle nothing is to be visited; within one, a root is still to
\* be visited, at work, or has a result.
RootsCovered ==
    /\ pc = "boot" => \A r \in Roots : result[r] = "none"
    /\ pc \in {"boot", "wait", "woken", "roots", "done", "dead"} => todo = {}
    /\ pc = "roots" => \A r \in Roots : result[r] = "none" /\ raised[r] = 0
    /\ pc = "next" => \A r \in Roots : r \in todo \/ result[r] # "none"
    /\ AtWork => \A r \in Roots : r \in todo \/ r = root \/ result[r] # "none"
    /\ pc = "wait" => \/ \A r \in Roots : result[r] # "none"
                      \/ \A r \in Roots : result[r] = "none"

\* The index counts the cycles since it was last zero, and then a full one
\* began; the process starts with no cycle behind it.
GapFollowsIndex == gap <= cycle

\* No cycle has begun after stop() while the thread may still begin one.
LateOnce ==
    /\ late <= 1
    /\ ~stop => late = 0
    /\ pc \in {"boot", "woken"} => late = 0

AutoInv ==
    /\ TypeOK
    /\ LockIsForIngest
    /\ AttemptsCounted
    /\ RootsCovered
    /\ GapFollowsIndex
    /\ LateOnce

-----------------------------------------------------------------------------
USE ConfigAssumption DEF ConfigAssumption

\* What the invariant says of the first state.
LEMMA AutoInit == Init => AutoInv
<1> SUFFICES ASSUME Init PROVE AutoInv
  OBVIOUS
<1>1. root \in Roots
  BY DEF Init
<1>2. TypeOK
  <2>1. full \in BOOLEAN /\ stop \in BOOLEAN
    BY Zenon DEF Init
  <2>2. /\ pc \in Pcs
        /\ lock \in {"free", "auto", "tool"}
        /\ todo \in SUBSET Roots
        /\ disk \in [Roots -> Disk]
        /\ result \in [Roots -> Results]
    BY DEF Init, Pcs, Results, Disk
  <2>3. /\ cycle \in 0 .. FullInterval - 1
        /\ attempt \in 1 .. MaxAttempts
        /\ faults \in 0 .. MaxFaults
        /\ gap \in 0 .. FullInterval
        /\ late \in 0 .. 2
    BY DEF Init
  <2>4. raised \in [Roots -> 0 .. MaxAttempts]
    BY DEF Init
  <2> QED
    BY <1>1, <2>1, <2>2, <2>3, <2>4 DEF TypeOK
<1>3. LockIsForIngest /\ RootsCovered /\ GapFollowsIndex /\ LateOnce
  <2>1. LockIsForIngest
    BY DEF Init, LockIsForIngest
  <2>2. RootsCovered
    BY DEF Init, RootsCovered, AtWork
  <2>3. GapFollowsIndex
    BY DEF Init, GapFollowsIndex
  <2>4. LateOnce
    BY DEF Init, LateOnce
  <2> QED
    BY <2>1, <2>2, <2>3, <2>4
<1>4. AttemptsCounted
  BY DEF Init, AttemptsCounted, AtWork
<1> QED
  BY <1>2, <1>3, <1>4 DEF AutoInv

\* A count that stops at its bound stays within it.
LEMMA CountUpToBound ==
    ASSUME NEW n \in Nat, NEW bound \in Nat, n <= bound
    PROVE  /\ CountUpTo(n, bound) \in 0 .. bound
           /\ CountUpTo(n, bound) <= n + 1
           /\ n < bound => CountUpTo(n, bound) = n + 1
BY DEF CountUpTo

\* Beginning a cycle starts its accounts afresh; a thread that does so with
\* stop() called uses up the one late cycle.
LEMMA BeginCycleKeeps ==
    ASSUME AutoInv, NEW startup \in BOOLEAN, BeginCycle(startup),
           pc \in {"boot", "woken"}
    PROVE  AutoInv'
<1>1. late = 0
  BY DEF AutoInv, LateOnce
<1>2. /\ cycle' \in 0 .. FullInterval - 1
      /\ full' \in BOOLEAN
      /\ cycle' = 0 \/ cycle' = cycle + 1
  BY DEF AutoInv, TypeOK, BeginCycle, NextIndex
<1>3. gap' \in 0 .. FullInterval /\ gap' <= cycle'
  <2>1. CASE full'
    BY <2>1, <1>2 DEF BeginCycle
  <2>2. CASE ~full'
    <3>1. cycle' = cycle + 1
      BY <2>2, <1>2 DEF BeginCycle
    <3>2. gap' = CountUpTo(gap, FullInterval)
      BY <2>2 DEF BeginCycle
    <3>3. gap \in 0 .. FullInterval /\ gap <= cycle /\ cycle \in Nat
      BY DEF AutoInv, TypeOK, GapFollowsIndex
    <3> QED
      BY <3>1, <3>2, <3>3, CountUpToBound
  <2> QED
    BY <2>1, <2>2
<1>4. late' \in 0 .. 2 /\ late' <= 1 /\ (~stop' => late' = 0)
  BY <1>1 DEF BeginCycle, CountUpTo
<1>5. TypeOK'
  BY <1>2, <1>3, <1>4 DEF AutoInv, TypeOK, BeginCycle, Pcs, Results
<1>6. /\ LockIsForIngest'
      /\ AttemptsCounted'
      /\ RootsCovered'
  BY DEF AutoInv, TypeOK, LockIsForIngest, AttemptsCounted, RootsCovered,
     AtWork,
         BeginCycle
<1>7. GapFollowsIndex' /\ LateOnce'
  BY <1>3, <1>4 DEF GapFollowsIndex, LateOnce, BeginCycle
<1> QED
  BY <1>5, <1>6, <1>7 DEF AutoInv

\* Between cycles only the control point changes.
LEMMA WaitingKeeps ==
    ASSUME AutoInv,
           (Boot /\ ~RunOnStart) \/ IntervalPasses \/ LeaveLoop \/ EndCycle
    PROVE  AutoInv'
BY DEF Boot, IntervalPasses, LeaveLoop, EndCycle, cycleVars, AutoInv, TypeOK,
   LockIsForIngest, AttemptsCounted, RootsCovered, GapFollowsIndex, LateOnce,
   AtWork, Pcs, Results

\* The roots are listed, or looking at one ends the thread.
LEMMA LookKeeps ==
    ASSUME AutoInv, ListRoots \/ LookRaises
    PROVE  AutoInv'
<1>1. CASE ListRoots
  BY <1>1 DEF ListRoots, AutoInv, TypeOK, LockIsForIngest, AttemptsCounted,
     RootsCovered, GapFollowsIndex, LateOnce, AtWork, Pcs, Results
<1>2. CASE LookRaises
  BY <1>2 DEF LookRaises, AutoInv, TypeOK, LockIsForIngest, AttemptsCounted,
     RootsCovered, GapFollowsIndex, LateOnce, AtWork, Pcs, Results
<1> QED
  BY <1>1, <1>2

\* The steps that neither begin a cycle nor an attempt.
LEMMA VisitKeeps ==
    ASSUME AutoInv, NEW r \in Roots,
           SkipRoot(r) \/ TakeRoot(r) \/ IngestReturns(r)
    PROVE  AutoInv'
<1>1. CASE SkipRoot(r)
  BY <1>1 DEF SkipRoot, AutoInv, TypeOK, LockIsForIngest, AttemptsCounted,
     RootsCovered, GapFollowsIndex, LateOnce, AtWork, Pcs, Results
<1>2. CASE TakeRoot(r)
  BY <1>2 DEF TakeRoot, AutoInv, TypeOK, LockIsForIngest, AttemptsCounted,
     RootsCovered, GapFollowsIndex, LateOnce, AtWork, Pcs, Results
<1>3. CASE IngestReturns(r)
  BY <1>3 DEF IngestReturns, AutoInv, TypeOK, LockIsForIngest,
     AttemptsCounted, RootsCovered, GapFollowsIndex, LateOnce, AtWork, Pcs,
     Results
<1> QED
  BY <1>1, <1>2, <1>3

\* An attempt that raises is counted, and the last one settles the root.
LEMMA RaiseKeeps ==
    ASSUME AutoInv, FindLockHeld \/ IngestRaises
    PROVE  AutoInv'
<1>1. /\ pc \in {"try", "ingest"}
      /\ AttemptRaises
      /\ UNCHANGED <<cycle, full, todo, root, attempt, stop, disk, gap, late>>
      /\ lock' \in {"free", "tool"}
      /\ faults' \in 0 .. MaxFaults
  BY DEF FindLockHeld, IngestRaises, AutoInv, TypeOK, LockIsForIngest
<1>2. /\ raised[root] = attempt - 1
      /\ root \notin todo
      /\ attempt \in 1 .. MaxAttempts
      /\ root \in Roots
      /\ raised \in [Roots -> 0 .. MaxAttempts]
  BY <1>1 DEF AutoInv, AttemptsCounted, TypeOK, AtWork
<1>3. raised' = [raised EXCEPT ![root] = attempt]
  <2>1. raised' = [raised EXCEPT ![root] = CountUpTo(raised[root], MaxAttempts + 1)]
    BY <1>1 DEF AttemptRaises
  <2>2. CountUpTo(raised[root], MaxAttempts + 1) = attempt
    BY <1>2 DEF CountUpTo
  <2> QED
    BY <2>1, <2>2
<1>4. CASE attempt >= MaxAttempts
  <2>1. pc' = "next" /\ result' = [result EXCEPT ![root] = "failed"]
    BY <1>1, <1>4 DEF AttemptRaises, GiveUp
  <2> QED
    BY <1>1, <1>2, <1>3, <1>4, <2>1 DEF AutoInv, TypeOK, LockIsForIngest,
       AttemptsCounted, RootsCovered, GapFollowsIndex, LateOnce, AtWork, Pcs,
       Results
<1>5. CASE attempt < MaxAttempts
  <2>1. pc' = "backoff" /\ result' = result
    BY <1>1, <1>2, <1>5 DEF AttemptRaises
  <2> QED
    BY <1>1, <1>2, <1>3, <1>5, <2>1 DEF AutoInv, TypeOK, LockIsForIngest,
       AttemptsCounted, RootsCovered, GapFollowsIndex, LateOnce, AtWork, Pcs,
       Results
<1> QED
  BY <1>2, <1>4, <1>5

\* Taking the lock, and trying again.
LEMMA TryKeeps ==
    ASSUME AutoInv, TakeLock \/ Retry
    PROVE  AutoInv'
BY DEF TakeLock, Retry, cycleVars, AutoInv, TypeOK, LockIsForIngest,
   AttemptsCounted, RootsCovered, GapFollowsIndex, LateOnce, AtWork, Pcs,
   Results

\* What happens around the thread.
LEMMA OutsideKeeps ==
    ASSUME AutoInv,
           \/ ToolTakesLock \/ ToolReleasesLock \/ Stop \/ Restart
           \/ \E r \in Roots : Mount(r)
    PROVE  AutoInv'
<1>1. CASE ToolTakesLock \/ ToolReleasesLock
  BY <1>1 DEF ToolTakesLock, ToolReleasesLock, cycleVars, AutoInv, TypeOK,
     LockIsForIngest, AttemptsCounted, RootsCovered, GapFollowsIndex,
     LateOnce, AtWork, Pcs, Results
<1>2. CASE Stop
  BY <1>2 DEF Stop, cycleVars, AutoInv, TypeOK, LockIsForIngest,
     AttemptsCounted, RootsCovered, GapFollowsIndex, LateOnce, AtWork, Pcs,
     Results
<1>3. CASE Restart
  <2>1. TypeOK'
    <3>1. full' \in BOOLEAN /\ stop' \in BOOLEAN
      BY <1>3, Zenon DEF Restart
    <3>2. /\ pc' \in Pcs
          /\ lock' \in {"free", "auto", "tool"}
          /\ todo' \in SUBSET Roots
          /\ result' \in [Roots -> Results]
      BY <1>3 DEF Restart, Pcs, Results
    <3>3. /\ cycle' \in 0 .. FullInterval - 1
          /\ gap' \in 0 .. FullInterval
          /\ late' \in 0 .. 2
          /\ raised' \in [Roots -> 0 .. MaxAttempts]
      BY <1>3 DEF Restart
    <3>4. /\ faults' \in 0 .. MaxFaults
          /\ root' \in Roots
          /\ attempt' \in 1 .. MaxAttempts
          /\ disk' \in [Roots -> Disk]
      BY <1>3 DEF Restart, AutoInv, TypeOK
    <3> QED
      BY <3>1, <3>2, <3>3, <3>4 DEF TypeOK
  <2>2. LockIsForIngest' /\ RootsCovered' /\ GapFollowsIndex' /\ LateOnce'
    BY <1>3 DEF Restart, LockIsForIngest, RootsCovered, AtWork,
       GapFollowsIndex, LateOnce
  <2>3. AttemptsCounted'
    BY <1>3 DEF Restart, AttemptsCounted, AtWork
  <2> QED
    BY <2>1, <2>2, <2>3 DEF AutoInv
<1>4. CASE \E r \in Roots : Mount(r)
  BY <1>4 DEF Mount, cycleVars, AutoInv, TypeOK, LockIsForIngest,
     AttemptsCounted, RootsCovered, GapFollowsIndex, LateOnce, AtWork, Pcs,
     Results
<1> QED
  BY <1>1, <1>2, <1>3, <1>4

\* The invariant holds in every reachable state.
THEOREM LoopSafety == Spec => []AutoInv
<1>1. AutoInv /\ [Next]_vars => AutoInv'
  <2> SUFFICES ASSUME AutoInv, [Next]_vars PROVE AutoInv'
    OBVIOUS
  <2>1. CASE Boot
    <3>1. CASE RunOnStart
      BY <2>1, <3>1, BeginCycleKeeps DEF Boot
    <3>2. CASE ~RunOnStart
      BY <2>1, <3>2, WaitingKeeps
    <3> QED
      BY <3>1, <3>2
  <2>2. CASE Wake
    BY <2>2, BeginCycleKeeps DEF Wake
  <2>3. CASE IntervalPasses \/ LeaveLoop \/ EndCycle
    BY <2>3, WaitingKeeps
  <2>4. CASE \E r \in Roots : SkipRoot(r) \/ TakeRoot(r) \/ IngestReturns(r)
    BY <2>4, VisitKeeps
  <2>5. CASE FindLockHeld \/ IngestRaises
    BY <2>5, RaiseKeeps
  <2>6. CASE TakeLock \/ Retry
    BY <2>6, TryKeeps
  <2>7. CASE \/ ToolTakesLock \/ ToolReleasesLock \/ Stop \/ Restart
             \/ \E r \in Roots : Mount(r)
    BY <2>7, OutsideKeeps
  <2>8. CASE ListRoots \/ LookRaises
    BY <2>8, LookKeeps
  <2>9. CASE UNCHANGED vars
    BY <2>9 DEF vars, AutoInv, TypeOK, LockIsForIngest, AttemptsCounted,
       RootsCovered, GapFollowsIndex, LateOnce, AtWork, Pcs, Results
  <2> QED
    BY <2>1, <2>2, <2>3, <2>4, <2>5, <2>6, <2>7, <2>8, <2>9 DEF Next, Loop
<1> QED
  BY AutoInit, <1>1, PTL DEF Spec

\* Every variable stays in its type: the index below the interval, the
\* attempts within their number.
THEOREM TypeCorrect == Spec => []TypeOK
BY LoopSafety, PTL DEF AutoInv

\* The summary accounts for every root, and a root is given up only after
\* all its attempts, whatever the other roots do.
THEOREM AccountsSafety == Spec => []CycleAccounts
<1>1. AutoInv => CycleAccounts
  BY DEF AutoInv, TypeOK, AttemptsCounted, RootsCovered, CycleAccounts
<1> QED
  BY <1>1, LoopSafety, PTL

\* A full scan is due within FullInterval cycles, for any interval.
THEOREM FullScanSafety == Spec => []FullScanIsDue
<1>1. AutoInv => FullScanIsDue
  BY DEF AutoInv, TypeOK, GapFollowsIndex, FullScanIsDue
<1> QED
  BY <1>1, LoopSafety, PTL

\* At most one cycle begins after stop(), wherever the thread was.
THEOREM StopSafety == Spec => []OneLateCycle
<1>1. AutoInv => OneLateCycle
  BY DEF AutoInv, LateOnce, OneLateCycle
<1> QED
  BY <1>1, LoopSafety, PTL

===============================================================================
