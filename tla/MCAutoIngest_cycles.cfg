\* One root that can be ingested and one that never can; three cycles to a
\* full scan, three attempts, two other failures or
\* restarts.
SPECIFICATION Spec
CONSTANTS
    good = good  bad = bad
    Roots = {good, bad}
    Broken = {bad}
    MaxAttempts = 3
    FullInterval = 3
    RunOnStart = TRUE
    MaxFaults = 2
INVARIANTS
    TypeOK
    CycleAccounts
    FullScanIsDue
    OneLateCycle
PROPERTIES
    FullScansGoOn
