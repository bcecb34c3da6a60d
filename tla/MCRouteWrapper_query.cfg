\* The wrapper's plans and direct searches, while chunks are stored and dropped.
SPECIFICATION Spec
CONSTANTS
    c1 = c1  c2 = c2  c3 = c3  tA = tA  tB = tB  e1 = e1  e2 = e2
    u1 = u1  u2 = u2  w1 = w1  w2 = w2  src1 = src1  tag1 = tag1  wA = wA  wB = wB
    Chunks = {c1, c2, c3}
    Texts = {tA, tB}
    NoText = NoText
    Writers = {wA, wB}
    NoPlan = NoPlan
    Payload <- MCPayload
    EntitiesIn <- MCEntitiesIn
    Similarity <- MCSimilarity
    Overlap <- MCOverlap
    Relevance <- MCRelevance
    KnownTerms = {"q"}
    MinScore = 4
    MemoryFinds <- MCMemoryFinds
    EntityFinds <- MCEntityFinds
    GraphFinds <- MCGraphFinds
    Setups <- MCSetups
    Corpora <- MCCorpora
    Requests <- MCRequests
    WrapperConfigs <- MCWrapperConfigs
    MaxTopK = 3
    MaxDepth = 2
    RankUnit = 238266
    MaxWrites = 1
CHECK_DEADLOCK FALSE
INVARIANTS
    TypeOK
    AgreedOrderKept
    PlanCarriedOut
    RouteAndSearchAgree
PROPERTIES
    CitesWhatItRanked
    Ends
