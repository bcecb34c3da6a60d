\* Neo4j: two workspaces store the same document, entity and memory item.
SPECIFICATION Spec
CONSTANTS
    w1 = w1  w2 = w2  d1 = d1  c1 = c1  c2 = c2
    e1 = e1  m1 = m1  m2 = m2  u1 = u1  u2 = u2
    Workspaces = {w1, w2}
    Subjects = {u1, u2}
    Docs = {d1}
    Chunks = {c1, c2}
    Entities = {e1}
    Memories = {m1, m2}
    DocOf <- MCDocOf
    Texts = {{e1}}
    Slots = {w1, w2}
    SlotOf <- PerWorkspace
    NoOwner = NoOwner
SYMMETRY Symmetry
INVARIANTS
    TypeOK
    IndexedIsReachable
PROPERTIES
    IsGraphPerWorkspace
