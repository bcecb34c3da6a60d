\* Two workspaces index one path, two callers, two failures, arbitrary edits;
\* an older release left its document to w1.
SPECIFICATION Spec
CONSTANTS
    w1 = w1  w2 = w2  f1 = f1  f2 = f2
    auto = auto  tool = tool  p1 = p1  p2 = p2
    Workspaces = {w1, w2}
    Files = {f1}
    Versions = {1, 2}
    MaxChunks = 2
    ChunkCount <- MCChunkCount
    Rewrites <- AnyEdit
    Processes = {p1}
    Callers = {auto, tool}
    ProcessOf <- OneProcess
    AutoIngests <- NoAuto
    Durable <- AllStores
    LegacyDocs <- LegacyOfW1
    MaxFaults = 2
    Blank = Blank  Missing = Missing
    NoVersion = NoVersion  NoDoc = NoDoc  NoCaller = NoCaller  Legacy = Legacy
SYMMETRY Symmetry
INVARIANTS
    TypeOK
    RecordedIsIndexed
    FaultFreeExact
    GraphChunksHaveRows
    PassedIsRecorded
    LocalsTellTruth
PROPERTIES
    DocOwnerIsStable
