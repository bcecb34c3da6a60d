\* Two processes on the same stores, one failure.
SPECIFICATION Spec
CONSTANTS
    keyed = keyed  plain = plain
    Processes = {p1, p2}
    Requests = {keyed, plain}
    Keyed = {keyed}
    ValidItems <- MCValidItems
    Ids = {i1, i2}
    Tokens = {t1, t2}
    Expiry = 1
    MaxFaults = 1
    NoResult = NoResult  NoGate = NoGate  NoId = NoId
SYMMETRY Symmetry
INVARIANTS
    TypeOK
    AckedIsStored
    DeletedStaysGone
    ListedIsSearchable
    AckedIsRemembered
