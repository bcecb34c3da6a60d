------------------------------ MODULE AutoIngest ------------------------------
(***************************************************************************)
(* The auto-ingest thread of kb_mcp/ingest/auto_ingest.py: cycles over the *)
(* configured roots, full scans among cheaper git-diff scans, retries of a *)
(* root whose ingestion raised, and the stop event.  Beside it runs the    *)
(* thread of the MCP tools, which wants the same workspace lock.  What     *)
(* ingestion raises ends an attempt; what looking at a root raises ends    *)
(* the thread, for run_once looks outside its try and nothing above it     *)
(* catches.                                                                *)
(*                                                                         *)
(* The pipeline is abstract here: a call finds the lock held and raises,   *)
(* or takes it and later returns or raises.  What it does to the stores in *)
(* between is Ingestion's subject, and a scan of all files that returns is *)
(* what Ingestion's strong fairness on Start presumes again and again.     *)
(***************************************************************************)
EXTENDS Naturals

CONSTANTS
    Roots,         \* auto_ingest_roots, duplicates dropped
    Broken,        \* roots whose ingestion always raises
    MaxAttempts,   \* auto_ingest_retry_attempts
    FullInterval,  \* auto_ingest_full_interval_cycles
    RunOnStart,    \* auto_ingest_run_on_start
    MaxFaults      \* bound on other failures and on restarts

ASSUME ConfigAssumption ==
    /\ Broken \subseteq Roots
    /\ MaxAttempts \in Nat \ {0}
    /\ FullInterval \in Nat \ {0}
    /\ RunOnStart \in BOOLEAN
    /\ MaxFaults \in Nat
    /\ Roots # {}

VARIABLES
    pc,       \* where the thread is in _run_loop, run_once and _ingest_root
    cycle,    \* _cycle_index, which is only used modulo FullInterval
    full,     \* force_full of the cycle under way
    todo,     \* roots the cycle has still to visit
    root,     \* the root it is at
    attempt,  \* attempt of _ingest_root
    result,   \* the summary of the cycle, per root
    lock,     \* holder of the lock of auto_ingest_workspace_id
    stop,     \* the event that stop() sets
    disk,     \* what the host makes of each root now
    faults,   \* failures and restarts so far
    raised,   \* history: calls for this root that raised in this cycle
    gap,      \* history: cycles begun since a full one began
    late      \* history: cycles begun since stop was set

cycleVars == <<full, todo, root, attempt, result, raised>>
vars == <<pc, cycle, full, todo, root, attempt, result, lock, stop, disk,
          faults, raised, gap, late>>

Pcs == {"boot", "wait", "woken", "roots", "next", "try", "ingest", "backoff", "done", "dead"}
Results == {"none", "ok", "skipped", "failed"}

\* A root is a directory, is none, or cannot be looked at: a loop of links, a
\* directory above it that may not be searched, a mount that answers no more.
Disk == {"dir", "absent", "unreadable"}

\* Histories count up to a bound that only a wrong step would reach.
CountUpTo(n, bound) == IF n < bound THEN n + 1 ELSE n

-----------------------------------------------------------------------------
\* start() has been called: the thread is about to enter _run_loop.
Init ==
    /\ pc = "boot"
    /\ cycle = 0
    /\ full = FALSE
    /\ todo = {}
    /\ root = CHOOSE r \in Roots : TRUE
    /\ attempt = 1
    /\ result = [r \in Roots |-> "none"]
    /\ lock = "free"
    /\ stop = FALSE
    /\ disk \in [Roots -> Disk]
    /\ faults = 0
    /\ raised = [r \in Roots |-> 0]
    /\ gap = 0
    /\ late = 0

NextIndex == IF cycle + 1 = FullInterval THEN 0 ELSE cycle + 1

\* Mutant: only the startup cycle is a full one.
BeginCycle_StartupOnly(startup) ==
    /\ cycle' = NextIndex
    /\ full' = startup
    /\ result' = [r \in Roots |-> "none"]
    /\ raised' = [r \in Roots |-> 0]
    /\ gap' = IF full' THEN 0 ELSE CountUpTo(gap, FullInterval)
    /\ late' = IF stop THEN CountUpTo(late, 2) ELSE late
    /\ pc' = "roots"
    /\ UNCHANGED <<todo, root, attempt, lock, stop, disk, faults>>

\* run_once: the startup cycle and every FullInterval-th one scan all files.
BeginCycle(startup) ==
    /\ cycle' = NextIndex
    /\ full' = (startup \/ cycle' = 0)
    /\ result' = [r \in Roots |-> "none"]
    /\ raised' = [r \in Roots |-> 0]
    /\ gap' = IF full' THEN 0 ELSE CountUpTo(gap, FullInterval)
    /\ late' = IF stop THEN CountUpTo(late, 2) ELSE late
    /\ pc' = "roots"
    /\ UNCHANGED <<todo, root, attempt, lock, stop, disk, faults>>

\* The thread starts, whether or not it was asked to stop meanwhile.
Boot ==
    /\ pc = "boot"
    /\ IF RunOnStart THEN BeginCycle(TRUE)
       ELSE /\ pc' = "wait"
            /\ UNCHANGED <<cycle, cycleVars, lock, stop, disk, faults, gap, late>>

\* Mutant: the thread sleeps the interval and does not look at the event.
IntervalPasses_Sleeps ==
    /\ pc = "wait"
    /\ pc' = "woken"
    /\ UNCHANGED <<cycle, cycleVars, lock, stop, disk, faults, gap, late>>

\* wait() times out.  stop() may come before the cycle that follows begins.
IntervalPasses ==
    /\ pc = "wait"
    /\ ~stop
    /\ pc' = "woken"
    /\ UNCHANGED <<cycle, cycleVars, lock, stop, disk, faults, gap, late>>

Wake == pc = "woken" /\ BeginCycle(FALSE)

\* wait() returns because the event is set, and the loop is left.
LeaveLoop ==
    /\ pc = "wait"
    /\ stop
    /\ pc' = "done"
    /\ UNCHANGED <<cycle, cycleVars, lock, stop, disk, faults, gap, late>>

\* _roots: the configured paths are expanded and resolved.
ListRoots ==
    /\ pc = "roots"
    /\ todo' = Roots
    /\ pc' = "next"
    /\ UNCHANGED <<cycle, full, root, attempt, result, raised, lock, stop, disk,
                   faults, gap, late>>

\* Resolving a path, or asking whether it exists and is a directory, raises:
\* not in the try, so run_once is left, and _run_loop with it.
LookRaises ==
    /\ \/ pc = "roots" /\ \E r \in Roots : disk[r] = "unreadable"
       \/ pc = "next" /\ \E r \in todo : disk[r] = "unreadable"
    /\ pc' = "dead"
    /\ todo' = {}
    /\ UNCHANGED <<cycle, full, root, attempt, result, raised, lock, stop, disk,
                   faults, gap, late>>

\* A root that is no directory is skipped.
SkipRoot(r) ==
    /\ pc = "next"
    /\ r \in todo
    /\ disk[r] = "absent"
    /\ todo' = todo \ {r}
    /\ result' = [result EXCEPT ![r] = "skipped"]
    /\ UNCHANGED <<pc, cycle, full, root, attempt, raised, lock, stop, disk,
                   faults, gap, late>>

TakeRoot(r) ==
    /\ pc = "next"
    /\ r \in todo
    /\ disk[r] = "dir"
    /\ todo' = todo \ {r}
    /\ root' = r
    /\ attempt' = 1
    /\ pc' = "try"
    /\ UNCHANGED <<cycle, full, result, raised, lock, stop, disk, faults, gap, late>>

\* The summary is logged and the thread goes back to waiting.
EndCycle ==
    /\ pc = "next"
    /\ todo = {}
    /\ pc' = "wait"
    /\ UNCHANGED <<cycle, cycleVars, lock, stop, disk, faults, gap, late>>

\* Mutant: a root that fails for good ends the cycle for all of them.
GiveUp_EndsCycle ==
    /\ pc' = "wait"
    /\ result' = [result EXCEPT ![root] = "failed"]

\* run_once catches what _ingest_root raises at last and goes to the next root.
GiveUp ==
    /\ pc' = "next"
    /\ result' = [result EXCEPT ![root] = "failed"]

\* Mutant: the last attempt is not made.
AttemptRaises_OneShort ==
    /\ raised' = [raised EXCEPT ![root] = CountUpTo(@, MaxAttempts + 1)]
    /\ IF attempt + 1 >= MaxAttempts THEN GiveUp
       ELSE pc' = "backoff" /\ UNCHANGED result

\* Mutant: one attempt too many.
AttemptRaises_OneMore ==
    /\ raised' = [raised EXCEPT ![root] = CountUpTo(@, MaxAttempts + 1)]
    /\ IF attempt > MaxAttempts THEN GiveUp
       ELSE pc' = "backoff" /\ UNCHANGED result

\* An attempt raised: back off, or give the root up after the last attempt.
AttemptRaises ==
    /\ raised' = [raised EXCEPT ![root] = CountUpTo(@, MaxAttempts + 1)]
    /\ IF attempt >= MaxAttempts THEN GiveUp
       ELSE pc' = "backoff" /\ UNCHANGED result

\* A tool call is ingesting the workspace: RuntimeError, without waiting.
FindLockHeld ==
    /\ pc = "try"
    /\ lock # "free"
    /\ AttemptRaises
    /\ UNCHANGED <<cycle, full, todo, root, attempt, lock, stop, disk, faults,
                   gap, late>>

TakeLock ==
    /\ pc = "try"
    /\ lock = "free"
    /\ lock' = "auto"
    /\ pc' = "ingest"
    /\ UNCHANGED <<cycle, cycleVars, stop, disk, faults, gap, late>>

IngestRaises ==
    /\ pc = "ingest"
    /\ \/ root \in Broken /\ UNCHANGED faults
       \/ root \notin Broken /\ faults < MaxFaults /\ faults' = faults + 1
    /\ lock' = "free"
    /\ AttemptRaises
    /\ UNCHANGED <<cycle, full, todo, root, attempt, stop, disk, gap, late>>

IngestReturns(r) ==
    /\ pc = "ingest"
    /\ r = root
    /\ r \notin Broken
    /\ lock' = "free"
    /\ result' = [result EXCEPT ![r] = "ok"]
    /\ pc' = "next"
    /\ UNCHANGED <<cycle, full, todo, root, attempt, raised, stop, disk, faults,
                   gap, late>>

\* The sleep between two attempts ends; stop() does not cut it short.
Retry ==
    /\ pc = "backoff"
    /\ attempt' = attempt + 1
    /\ pc' = "try"
    /\ UNCHANGED <<cycle, full, todo, root, result, raised, lock, stop, disk,
                   faults, gap, late>>

\* The steps of the thread.
Loop ==
    \/ Boot
    \/ IntervalPasses
    \/ Wake
    \/ LeaveLoop
    \/ ListRoots
    \/ LookRaises
    \/ \E r \in Roots : SkipRoot(r) \/ TakeRoot(r) \/ IngestReturns(r)
    \/ EndCycle
    \/ FindLockHeld
    \/ TakeLock
    \/ IngestRaises
    \/ Retry

-----------------------------------------------------------------------------
\* A tool call ingests the same workspace for a while.
ToolTakesLock ==
    /\ lock = "free"
    /\ lock' = "tool"
    /\ UNCHANGED <<pc, cycle, cycleVars, stop, disk, faults, gap, late>>

ToolReleasesLock ==
    /\ lock = "tool"
    /\ lock' = "free"
    /\ UNCHANGED <<pc, cycle, cycleVars, stop, disk, faults, gap, late>>

\* stop(): the event is set while the thread is anywhere.
Stop ==
    /\ stop' = TRUE
    /\ UNCHANGED <<pc, cycle, cycleVars, lock, disk, faults, gap, late>>

\* The process ends, after stop() has waited long enough or without one, and
\* with it the daemon thread, wherever it is; a new process starts afresh.
Restart ==
    /\ faults < MaxFaults
    /\ faults' = faults + 1
    /\ pc' = "boot"
    /\ cycle' = 0
    /\ full' = FALSE
    /\ todo' = {}
    /\ result' = [r \in Roots |-> "none"]
    /\ raised' = [r \in Roots |-> 0]
    /\ lock' = "free"
    /\ stop' = FALSE
    /\ gap' = 0
    /\ late' = 0
    /\ UNCHANGED <<root, attempt, disk>>

\* A root is created, mounted, removed or unmounted, or no longer readable.
Mount(r) ==
    /\ \E d \in Disk \ {disk[r]} : disk' = [disk EXCEPT ![r] = d]
    /\ UNCHANGED <<pc, cycle, cycleVars, lock, stop, faults, gap, late>>

Next ==
    \/ Loop
    \/ ToolTakesLock
    \/ ToolReleasesLock
    \/ Stop
    \/ Restart
    \/ \E r \in Roots : Mount(r)

\* The thread is scheduled while it lives and its sleeps and waits end.  Nothing is assumed
\* of the tools, of stop() or of the disk.
Spec == Init /\ [][Next]_vars /\ WF_vars(Loop)

-----------------------------------------------------------------------------
TypeOK ==
    /\ pc \in Pcs
    /\ cycle \in 0 .. FullInterval - 1
    /\ full \in BOOLEAN
    /\ todo \in SUBSET Roots
    /\ root \in Roots
    /\ attempt \in 1 .. MaxAttempts
    /\ result \in [Roots -> Results]
    /\ lock \in {"free", "auto", "tool"}
    /\ stop \in BOOLEAN
    /\ disk \in [Roots -> Disk]
    /\ faults \in 0 .. MaxFaults
    /\ raised \in [Roots -> 0 .. MaxAttempts]
    /\ gap \in 0 .. FullInterval
    /\ late \in 0 .. 2

\* The summary of a cycle (created, failed_roots, retried_roots) accounts for
\* every root: a root counts as failed exactly when MaxAttempts calls for it
\* raised, and no root is left out because another one failed.
CycleAccounts ==
    \A r \in Roots :
        /\ result[r] = "failed" <=> raised[r] = MaxAttempts
        /\ pc = "next" => r \in todo \/ result[r] # "none"
        /\ pc = "wait" => result[r] # "none" \/ \A s \in Roots : result[s] = "none"

\* No FullInterval cycles in a row go without a full scan, wherever in the
\* count the process started: what git diff does not name, because it was
\* committed earlier or not at all, is missed for so many cycles at most.
FullScanIsDue == gap < FullInterval

\* After stop() at most one more cycle begins, that of a thread that had not
\* reached its loop or whose wait had timed out just before.
OneLateCycle == late <= 1

\* While the thread lives, a root that stays a directory is scanned in full
\* again and again, however many others are absent or raise in ingestion: once
\* tool calls leave the workspace alone, failures are over and the server is
\* not stopped, retries and further cycles get there.  That the thread lives
\* is a premise: one root that cannot be looked at ends it (LookRaises), and
\* with it the scans of every root, until the process is restarted.  This is
\* the fairness that Ingestion presumes.
FullScansGoOn ==
    \A r \in Roots \ Broken :
        <>[](disk[r] = "dir" /\ lock # "tool" /\ ~stop /\ pc # "dead")
            => []<><<full /\ IngestReturns(r)>>_vars

===============================================================================
