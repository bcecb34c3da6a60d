\* The MCP server scans while the Swagger process is asked to ingest; no faults.
SPECIFICATION FairSpec
CONSTANTS
    w1 = w1  w2 = w2  f1 = f1  f2 = f2
    auto = auto  tool = tool  p1 = p1  p2 = p2
    Workspaces = {w1}
    Files = {f1}
    Versions = {1, 2}
    MaxChunks = 2
    ChunkCount <- MCChunkCount
    Rewrites <- Forward
    Processes = {p1, p2}
    Callers = {auto, tool}
    ProcessOf <- TwoProcesses
    AutoIngests <- AutoOfW1
    Durable <- AllStores
    LegacyDocs <- NoLegacy
    MaxFaults = 0
    Blank = Blank  Missing = Missing
    NoVersion = NoVersion  NoDoc = NoDoc  NoCaller = NoCaller  Legacy = Legacy
PROPERTIES
    IndexCatchesUp
