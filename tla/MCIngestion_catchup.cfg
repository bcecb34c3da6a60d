\* Fair auto-ingest beside a tool call; files never return to an old text.
SPECIFICATION FairSpec
CONSTANTS
    w1 = w1  w2 = w2  f1 = f1  f2 = f2
    auto = auto  tool = tool  p1 = p1  p2 = p2
    Workspaces = {w1}
    Files = {f1, f2}
    Versions <- MCVersions
    MaxChunks = 2
    ChunkCount <- MCChunkCount
    Rewrites <- Forward
    Processes = {p1}
    Callers = {auto, tool}
    ProcessOf <- OneProcess
    AutoIngests <- AutoOfW1
    Durable <- AllStores
    LegacyDocs <- NoLegacy
    MaxFaults = 1
    Blank = Blank  Missing = Missing
    NoVersion = NoVersion  NoDoc = NoDoc  NoCaller = NoCaller  Legacy = Legacy
PROPERTIES
    IndexCatchesUp
