\* Documents in every mode, with windows of three, while queries are embedded.
SPECIFICATION Spec
CONSTANTS
    x = x  y = y  z = z
    Ingester = Ingester
    Server = Server
    Threads = {Ingester, Server}
    Symbols <- MCSymbols
    CacheSize = 2
    BatchLimit = 2
    Documents <- MCDocuments
    Queries <- MCQueries
    MaxChars = 3
    Overlap = 1
    MaxQueries = 1
    Earlier <- MCEarlier
CHECK_DEADLOCK FALSE
INVARIANTS
    ChunksTile
    OwnVectors
PROPERTIES
    Finishes
