\* Two processes, and two workspaces that name the same entities; a backfill with batches of two.
SPECIFICATION Spec
CONSTANTS
    p1 = p1  p2 = p2  w1 = w1  w2 = w2  e1 = e1  e2 = e2  e3 = e3  a = a  b = b
    Processes = {p1, p2}
    Workspaces = {w1, w2}
    Entities = {e1, e2, e3}
    Aliases = {a, b}
    NoRow = NoRow
    Texts <- MCTexts
    MaxChunks = 2
    OldRows <- MCOldRows
    OldNames <- MCOldNames
    BatchSize = 2
    MaxRuns = 2
SYMMETRY Symmetry
CHECK_DEADLOCK FALSE
INVARIANTS
    NamedIsFindable
    AliasesKept
    BackfilledIsIndexed
