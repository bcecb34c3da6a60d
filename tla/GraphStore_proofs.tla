-------------------------- MODULE GraphStore_proofs --------------------------
(***************************************************************************)
(* Proofs about GraphStore, for any workspaces, documents, chunks, texts   *)
(* and subjects.  TypeOK holds whatever the keys are; the other results    *)
(* suppose that every workspace has a slot of its own.                     *)
(***************************************************************************)
EXTENDS GraphStore, TLAPS

USE KindsAssumption, GraphAssumption DEF KindsAssumption, GraphAssumption

\* The slots but w's are left alone.
OtherSlots(w) ==
    \A z \in Slots \ {SlotOf[w]} :
        owner'[z] = owner[z] /\ acl'[z] = acl[z] /\ edge'[z] = edge[z]

\* Every edge of w's slot joins nodes of workspace w.
NoneDangling ==
    \A w \in Workspaces : \A l \in edge[SlotOf[w]] :
        owner[SlotOf[w]][l[1]] = w /\ owner[SlotOf[w]][l[3]] = w

\* Nodes in w's slot are w's, and what is no node is seen by nobody.
OwnSlot ==
    \A w \in Workspaces : \A u \in Uris :
        /\ owner[SlotOf[w]][u] \in {w, NoOwner}
        /\ owner[SlotOf[w]][u] = NoOwner => acl[SlotOf[w]][u] = {}

IndInv == TypeOK /\ NoneDangling /\ OwnSlot

\* What a relation joins.
LEMMA EndsAreUris ==
    \A l \in Links : l[1] \in Uris /\ l[3] \in Uris
BY DEF Links, Contains, Mentions, DocumentedIn, RelatesTo, RefersTo, Uris

-----------------------------------------------------------------------------
\* Merge, Connect and Detach keep the types, as long as they are given
\* nodes and edges.
LEMMA MergeTypes ==
    ASSUME TypeOK, NEW w \in Workspaces, NEW U \in SUBSET Uris,
           NEW s \in Subjects, Merge(w, U, s)
    PROVE  /\ owner' \in [Slots -> [Uris -> Workspaces \cup {NoOwner}]]
           /\ acl' \in [Slots -> [Uris -> SUBSET Subjects]]
<1>1. SlotOf[w] \in Slots
  OBVIOUS
<1>2. Put(owner[SlotOf[w]], U, w) \in [Uris -> Workspaces \cup {NoOwner}]
  BY <1>1 DEF TypeOK, Put
<1>3. [u \in Uris |-> IF u \in U THEN acl[SlotOf[w]][u] \cup {s}
                      ELSE acl[SlotOf[w]][u]] \in [Uris -> SUBSET Subjects]
  BY <1>1 DEF TypeOK
<1>4. QED
  BY <1>1, <1>2, <1>3 DEF TypeOK, Merge

LEMMA ConnectTypes ==
    ASSUME TypeOK, NEW w \in Workspaces, NEW L \in SUBSET Links, Connect(w, L)
    PROVE  edge' \in [Slots -> SUBSET Links]
BY DEF TypeOK, Connect

LEMMA DetachTypes ==
    ASSUME TypeOK, NEW w \in Workspaces, NEW U \in SUBSET Uris, Detach(w, U)
    PROVE  /\ owner' \in [Slots -> [Uris -> Workspaces \cup {NoOwner}]]
           /\ acl' \in [Slots -> [Uris -> SUBSET Subjects]]
           /\ edge' \in [Slots -> SUBSET Links]
<1>1. SlotOf[w] \in Slots
  OBVIOUS
<1>2. Put(owner[SlotOf[w]], Owned(w, U), NoOwner)
        \in [Uris -> Workspaces \cup {NoOwner}]
  BY <1>1 DEF TypeOK, Put
<1>3. Put(acl[SlotOf[w]], Owned(w, U), {}) \in [Uris -> SUBSET Subjects]
  BY <1>1 DEF TypeOK, Put
<1>4. QED
  BY <1>1, <1>2, <1>3 DEF TypeOK, Detach

\* The edges of a stored chunk are between a document, a chunk and entities.
LEMMA MentionLinksAreLinks ==
    ASSUME NEW c \in Chunks, NEW E \in SUBSET Entities
    PROVE  MentionLinks(c, E) \in SUBSET Links
BY DEF MentionLinks, Links

LEMMA TypeStep == TypeOK /\ [Next]_vars => TypeOK'
<1> SUFFICES ASSUME TypeOK, [Next]_vars PROVE TypeOK'
  OBVIOUS
<1>1. CASE UNCHANGED vars
  BY <1>1 DEF TypeOK, vars
<1>2. ASSUME NEW w \in Workspaces, NEW c \in Chunks, NEW E \in Texts,
             NEW s \in Subjects, UpsertMentions(w, c, E, s)
      PROVE  TypeOK'
  <2>1. E \in SUBSET Entities /\ {DocOf[c], c} \cup E \in SUBSET Uris
    BY DEF Uris
  <2>2. Merge(w, {DocOf[c], c} \cup E, s) /\ Connect(w, MentionLinks(c, E))
    BY <1>2 DEF UpsertMentions
  <2>3. indexed' \in SUBSET (Workspaces \X Chunks \X Entities \X Subjects)
    BY <1>2, <2>1 DEF UpsertMentions, TypeOK
  <2>4. edge' \in [Slots -> SUBSET Links]
    BY <2>1, <2>2, ConnectTypes, MentionLinksAreLinks
  <2>5. /\ owner' \in [Slots -> [Uris -> Workspaces \cup {NoOwner}]]
        /\ acl' \in [Slots -> [Uris -> SUBSET Subjects]]
    BY <2>1, <2>2, MergeTypes
  <2>6. QED
    BY <2>3, <2>4, <2>5 DEF TypeOK
<1>3. ASSUME NEW w \in Workspaces, NEW a \in Entities, NEW b \in Entities,
             NEW s \in Subjects, UpsertEntityRelation(w, a, b, s)
      PROVE  TypeOK'
  <2>1. {a, b} \in SUBSET Uris /\ {RelatesTo(a, b)} \in SUBSET Links
    BY DEF Uris, Links
  <2>2. QED
    BY <1>3, <2>1, MergeTypes, ConnectTypes DEF UpsertEntityRelation, TypeOK
<1>4. ASSUME NEW w \in Workspaces, NEW m \in Memories, NEW E \in Texts,
             UpsertMemoryLinks(w, m, E)
      PROVE  TypeOK'
  <2>1. {RefersTo(m, e) : e \in E} \in SUBSET Links
    BY DEF Links
  <2>2. owner' \in [Slots -> [Uris -> Workspaces \cup {NoOwner}]]
    BY <1>4 DEF UpsertMemoryLinks, TypeOK, Put
  <2>3. QED
    BY <1>4, <2>1, <2>2, ConnectTypes DEF UpsertMemoryLinks, TypeOK
<1>5. ASSUME NEW w \in Workspaces, NEW M \in SUBSET Memories,
             DeleteMemoryNodes(w, M)
      PROVE  TypeOK'
  BY <1>5, DetachTypes DEF DeleteMemoryNodes, TypeOK, Uris
<1>6. ASSUME NEW w \in Workspaces, NEW C \in SUBSET Chunks, DeleteChunks(w, C)
      PROVE  TypeOK'
  BY <1>6, DetachTypes DEF DeleteChunks, TypeOK, Uris
<1>7. QED
  BY <1>1, <1>2, <1>3, <1>4, <1>5, <1>6 DEF Next, Step

\* Nodes and edges have their types in both stores, the edges of a relation
\* the kinds of node that the relation is for.
THEOREM TypeCorrect == Spec => []TypeOK
<1>1. Init => TypeOK
  BY DEF Init, TypeOK
<1>2. QED
  BY <1>1, TypeStep, PTL DEF Spec

-----------------------------------------------------------------------------
\* What the three calls that store have in common: nodes, grants and edges
\* of w's slot stay, and what is new belongs to w.
Grows(w) ==
    /\ OtherSlots(w)
    /\ \A u \in Uris :
         /\ owner'[SlotOf[w]][u] \in {owner[SlotOf[w]][u], w}
         /\ acl[SlotOf[w]][u] \subseteq acl'[SlotOf[w]][u]
         /\ \/ acl'[SlotOf[w]][u] = acl[SlotOf[w]][u]
            \/ owner'[SlotOf[w]][u] = w
    /\ edge[SlotOf[w]] \subseteq edge'[SlotOf[w]]
    /\ \A l \in edge'[SlotOf[w]] \ edge[SlotOf[w]] :
         owner'[SlotOf[w]][l[1]] = w /\ owner'[SlotOf[w]][l[3]] = w

\* What the two calls that delete have in common, U being the nodes asked for.
Shrinks(w, U) ==
    /\ OtherSlots(w)
    /\ \A u \in Uris :
         /\ owner'[SlotOf[w]][u] =
              IF u \in Owned(w, U) THEN NoOwner ELSE owner[SlotOf[w]][u]
         /\ acl'[SlotOf[w]][u] =
              IF u \in Owned(w, U) THEN {} ELSE acl[SlotOf[w]][u]
    /\ edge'[SlotOf[w]] = {l \in edge[SlotOf[w]] : ~Touches(l, Owned(w, U))}

\* A merge of the ends of the new edges makes a workspace's graph grow.
LEMMA MergeGrows ==
    ASSUME TypeOK, NEW w \in Workspaces, NEW U \in SUBSET Uris,
           NEW s \in Subjects, NEW L \in SUBSET Links,
           Merge(w, U, s), Connect(w, L),
           \A l \in L : l[1] \in U /\ l[3] \in U
    PROVE  Grows(w)
<1>1. SlotOf[w] \in Slots
  OBVIOUS
<1>2. OtherSlots(w)
  BY DEF OtherSlots, Merge, Connect, TypeOK
<1>3. \A u \in Uris : owner'[SlotOf[w]][u] =
                       IF u \in U THEN w ELSE owner[SlotOf[w]][u]
  BY <1>1 DEF Merge, Put, TypeOK
<1>4. \A u \in Uris : acl'[SlotOf[w]][u] =
                       IF u \in U THEN acl[SlotOf[w]][u] \cup {s}
                       ELSE acl[SlotOf[w]][u]
  <2>1. acl'[SlotOf[w]] = [u \in Uris |-> IF u \in U
                                         THEN acl[SlotOf[w]][u] \cup {s}
                                         ELSE acl[SlotOf[w]][u]]
    BY <1>1 DEF Merge, TypeOK
  <2>2. QED
    BY <2>1
<1>5. edge'[SlotOf[w]] = edge[SlotOf[w]] \cup L
  BY <1>1 DEF Connect, TypeOK
<1>6. \A l \in edge'[SlotOf[w]] \ edge[SlotOf[w]] :
         owner'[SlotOf[w]][l[1]] = w /\ owner'[SlotOf[w]][l[3]] = w
  BY <1>3, <1>5
<1>7. \A u \in Uris :
         /\ acl[SlotOf[w]][u] \subseteq acl'[SlotOf[w]][u]
         /\ \/ acl'[SlotOf[w]][u] = acl[SlotOf[w]][u]
            \/ owner'[SlotOf[w]][u] = w
  <2> TAKE u \in Uris
  <2>1. CASE u \in U
    <3>1. acl'[SlotOf[w]][u] = acl[SlotOf[w]][u] \cup {s}
      BY <1>4, <2>1
    <3>2. owner'[SlotOf[w]][u] = w
      BY <1>3, <2>1
    <3>3. QED
      BY <3>1, <3>2
  <2>2. CASE u \notin U
    <3>1. acl'[SlotOf[w]][u] = acl[SlotOf[w]][u]
      BY <1>4, <2>2
    <3>2. QED
      BY <3>1
  <2>3. QED
    BY <2>1, <2>2
<1>8. QED
  BY <1>2, <1>3, <1>5, <1>6, <1>7 DEF Grows

LEMMA DetachShrinks ==
    ASSUME TypeOK, NEW w \in Workspaces, NEW U \in SUBSET Uris, Detach(w, U)
    PROVE  Shrinks(w, U)
<1>1. SlotOf[w] \in Slots
  OBVIOUS
<1>2. OtherSlots(w)
  BY DEF OtherSlots, Detach, TypeOK
<1>3. \A u \in Uris : owner'[SlotOf[w]][u] =
          IF u \in Owned(w, U) THEN NoOwner ELSE owner[SlotOf[w]][u]
  BY <1>1 DEF Detach, Put, TypeOK
<1>4. \A u \in Uris : acl'[SlotOf[w]][u] =
          IF u \in Owned(w, U) THEN {} ELSE acl[SlotOf[w]][u]
  BY <1>1 DEF Detach, Put, TypeOK
<1>5. edge'[SlotOf[w]] = {l \in edge[SlotOf[w]] : ~Touches(l, Owned(w, U))}
  BY <1>1 DEF Detach, TypeOK
<1>6. QED
  BY <1>2, <1>3, <1>4, <1>5 DEF Shrinks

LEMMA UpsertMentionsGrows ==
    ASSUME TypeOK, NEW w \in Workspaces, NEW c \in Chunks, NEW E \in Texts,
           NEW s \in Subjects, UpsertMentions(w, c, E, s)
    PROVE  Grows(w)
<1>1. E \in SUBSET Entities /\ {DocOf[c], c} \cup E \in SUBSET Uris
  BY DEF Uris
<1>2. \A l \in MentionLinks(c, E) :
         l[1] \in {DocOf[c], c} \cup E /\ l[3] \in {DocOf[c], c} \cup E
  BY DEF MentionLinks, Contains, Mentions, DocumentedIn
<1>3. MentionLinks(c, E) \in SUBSET Links
  BY <1>1, MentionLinksAreLinks
<1>4. QED
  BY <1>1, <1>2, <1>3, MergeGrows DEF UpsertMentions

LEMMA UpsertEntityRelationGrows ==
    ASSUME TypeOK, NEW w \in Workspaces, NEW a \in Entities,
           NEW b \in Entities, NEW s \in Subjects,
           UpsertEntityRelation(w, a, b, s)
    PROVE  Grows(w)
<1>1. {a, b} \in SUBSET Uris /\ {RelatesTo(a, b)} \in SUBSET Links
  BY DEF Uris, Links
<1>2. \A l \in {RelatesTo(a, b)} : l[1] \in {a, b} /\ l[3] \in {a, b}
  BY DEF RelatesTo
<1>3. QED
  BY <1>1, <1>2, MergeGrows DEF UpsertEntityRelation

\* The nodes that a memory item finds are w's own already: OwnSlot.
LEMMA UpsertMemoryLinksGrows ==
    ASSUME TypeOK, OwnSlot, NEW w \in Workspaces, NEW m \in Memories,
           NEW E \in Texts, UpsertMemoryLinks(w, m, E)
    PROVE  Grows(w)
<1> DEFINE U == {m} \cup E
           L == {RefersTo(m, e) : e \in E}
<1>1. U \in SUBSET Uris /\ SlotOf[w] \in Slots
  BY DEF Uris
<1>2. \A u \in Uris : owner'[SlotOf[w]][u] =
          IF u \in U \ Present(w, U) THEN w ELSE owner[SlotOf[w]][u]
  BY <1>1 DEF UpsertMemoryLinks, Put, TypeOK
<1>3. \A u \in U : owner'[SlotOf[w]][u] = w
  BY <1>1, <1>2 DEF OwnSlot, Present
<1>4. \A l \in L : l[1] \in U /\ l[3] \in U
  BY DEF RefersTo
<1>5. edge'[SlotOf[w]] = edge[SlotOf[w]] \cup L
  BY <1>1 DEF UpsertMemoryLinks, Connect, TypeOK
<1>6. OtherSlots(w)
  BY DEF OtherSlots, UpsertMemoryLinks, Connect, TypeOK
<1>7. acl' = acl
  BY DEF UpsertMemoryLinks
<1>8. \A l \in edge'[SlotOf[w]] \ edge[SlotOf[w]] :
         owner'[SlotOf[w]][l[1]] = w /\ owner'[SlotOf[w]][l[3]] = w
  BY <1>3, <1>4, <1>5
<1>9. QED
  BY <1>2, <1>5, <1>6, <1>7, <1>8 DEF Grows

\* Every step of a workspace makes its graph grow or takes nodes out of it.
LEMMA StepShape ==
    ASSUME TypeOK, OwnSlot, NEW w \in Workspaces, Step(w)
    PROVE  Grows(w) \/ \E U \in SUBSET (Chunks \cup Memories) : Shrinks(w, U)
<1>1. \A U \in SUBSET (Chunks \cup Memories) : Detach(w, U) => Shrinks(w, U)
  BY DetachShrinks DEF Uris
<1>2. ASSUME NEW M \in SUBSET Memories, DeleteMemoryNodes(w, M)
      PROVE  \E U \in SUBSET (Chunks \cup Memories) : Shrinks(w, U)
  BY <1>1, <1>2 DEF DeleteMemoryNodes
<1>3. ASSUME NEW C \in SUBSET Chunks, DeleteChunks(w, C)
      PROVE  \E U \in SUBSET (Chunks \cup Memories) : Shrinks(w, U)
  BY <1>1, <1>3 DEF DeleteChunks
<1>4. QED
  BY <1>2, <1>3, UpsertMentionsGrows, UpsertEntityRelationGrows,
     UpsertMemoryLinksGrows DEF Step

-----------------------------------------------------------------------------
\* The strengthened invariant: a workspace's slot holds its own nodes only,
\* and no edge hangs in the air.
LEMMA GrowsInv ==
    ASSUME Scoped, IndInv, TypeOK', NEW w \in Workspaces, Grows(w)
    PROVE  NoneDangling' /\ OwnSlot'
<1>1. \A v \in Workspaces \ {w} : /\ owner'[SlotOf[v]] = owner[SlotOf[v]]
                                  /\ acl'[SlotOf[v]] = acl[SlotOf[v]]
                                  /\ edge'[SlotOf[v]] = edge[SlotOf[v]]
  BY DEF Grows, OtherSlots, Scoped
<1>2. \A u \in Uris : /\ owner'[SlotOf[w]][u] \in {w, NoOwner}
                      /\ owner'[SlotOf[w]][u] = NoOwner => acl'[SlotOf[w]][u] = {}
  BY DEF Grows, IndInv, OwnSlot
<1>3. ASSUME NEW l \in edge'[SlotOf[w]]
      PROVE  owner'[SlotOf[w]][l[1]] = w /\ owner'[SlotOf[w]][l[3]] = w
  <2>1. CASE l \in edge[SlotOf[w]]
    <3>1. owner[SlotOf[w]][l[1]] = w /\ owner[SlotOf[w]][l[3]] = w
      BY <2>1 DEF IndInv, NoneDangling
    <3>2. l[1] \in Uris /\ l[3] \in Uris
      BY <2>1, EndsAreUris DEF IndInv, TypeOK
    <3>3. QED
      BY <3>1, <3>2 DEF Grows
  <2>2. QED
    BY <2>1 DEF Grows
<1>4. NoneDangling'
  BY <1>1, <1>3 DEF IndInv, NoneDangling
<1>5. OwnSlot'
  BY <1>1, <1>2 DEF IndInv, OwnSlot
<1>6. QED
  BY <1>4, <1>5

LEMMA ShrinksInv ==
    ASSUME Scoped, IndInv, TypeOK', NEW w \in Workspaces,
           NEW U \in SUBSET Uris, Shrinks(w, U)
    PROVE  NoneDangling' /\ OwnSlot'
<1>1. \A v \in Workspaces \ {w} : /\ owner'[SlotOf[v]] = owner[SlotOf[v]]
                                  /\ acl'[SlotOf[v]] = acl[SlotOf[v]]
                                  /\ edge'[SlotOf[v]] = edge[SlotOf[v]]
  BY DEF Shrinks, OtherSlots, Scoped
<1>2. \A u \in Uris : /\ owner'[SlotOf[w]][u] \in {w, NoOwner}
                      /\ owner'[SlotOf[w]][u] = NoOwner => acl'[SlotOf[w]][u] = {}
  BY DEF Shrinks, IndInv, OwnSlot
<1>3. ASSUME NEW l \in edge'[SlotOf[w]]
      PROVE  owner'[SlotOf[w]][l[1]] = w /\ owner'[SlotOf[w]][l[3]] = w
  <2>1. l \in edge[SlotOf[w]] /\ ~Touches(l, Owned(w, U))
    BY DEF Shrinks
  <2>2. l[1] \in Uris /\ l[3] \in Uris
    BY <2>1, EndsAreUris DEF IndInv, TypeOK
  <2>3. owner[SlotOf[w]][l[1]] = w /\ owner[SlotOf[w]][l[3]] = w
    BY <2>1 DEF IndInv, NoneDangling
  <2>4. l[1] \notin Owned(w, U) /\ l[3] \notin Owned(w, U)
    BY <2>1 DEF Touches
  <2>5. QED
    BY <2>2, <2>3, <2>4 DEF Shrinks
<1>4. NoneDangling'
  BY <1>1, <1>3 DEF IndInv, NoneDangling
<1>5. OwnSlot'
  BY <1>1, <1>2 DEF IndInv, OwnSlot
<1>6. QED
  BY <1>4, <1>5

LEMMA InvStep == Scoped /\ IndInv /\ [Next]_vars => IndInv'
<1> SUFFICES ASSUME Scoped, IndInv, [Next]_vars PROVE IndInv'
  OBVIOUS
<1>1. TypeOK'
  BY TypeStep DEF IndInv
<1>2. CASE UNCHANGED vars
  BY <1>1, <1>2 DEF IndInv, NoneDangling, OwnSlot, vars
<1>3. ASSUME NEW w \in Workspaces, Step(w)
      PROVE  IndInv'
  <2>1. TypeOK /\ OwnSlot
    BY DEF IndInv
  <2>2. CASE Grows(w)
    BY <1>1, <2>2, GrowsInv DEF IndInv
  <2>3. ASSUME NEW U \in SUBSET (Chunks \cup Memories), Shrinks(w, U)
        PROVE  IndInv'
    <3>1. U \in SUBSET Uris
      BY DEF Uris
    <3>2. QED
      BY <1>1, <2>3, <3>1, ShrinksInv DEF IndInv
  <2>4. QED
    BY <1>3, <2>1, <2>2, <2>3, StepShape
<1>4. QED
  BY <1>2, <1>3 DEF Next

LEMMA InvInit == Init => IndInv
BY DEF Init, IndInv, TypeOK, NoneDangling, OwnSlot

-----------------------------------------------------------------------------
\* What is indexed for a subject is visible to that subject.
LEMMA IndexedStep ==
    Scoped /\ IndInv /\ IndexedIsReachable /\ [Next]_vars => IndexedIsReachable'
<1> DEFINE Tie(c, e) == {Contains(DocOf[c], c), Mentions(c, e),
                         DocumentedIn(e, DocOf[c])}
<1> SUFFICES ASSUME Scoped, IndInv, IndexedIsReachable, [Next]_vars,
                    NEW w \in Workspaces, NEW c \in Chunks, NEW e \in Entities,
                    NEW s \in Subjects, <<w, c, e, s>> \in indexed'
             PROVE  Tie(c, e) \subseteq Shown(w, s)'
  BY DEF IndexedIsReachable
<1>1. DocOf[c] \in Uris /\ c \in Uris /\ e \in Uris
  BY DEF Uris
<1> DEFINE Seen == /\ Tie(c, e) \subseteq edge[SlotOf[w]]
                   /\ Visible(w, s, DocOf[c]) /\ Visible(w, s, c)
                   /\ Visible(w, s, e)
<1>2. <<w, c, e, s>> \in indexed => Seen
  BY DEF IndexedIsReachable, Shown, Contains, Mentions, DocumentedIn
<1>3. Seen' => Tie(c, e) \subseteq Shown(w, s)'
  BY DEF Shown, Contains, Mentions, DocumentedIn
<1> HIDE DEF Seen
<1>4. CASE UNCHANGED vars
  BY <1>2, <1>3, <1>4 DEF Seen, Visible, vars
<1>5. ASSUME NEW v \in Workspaces, Step(v), <<w, c, e, s>> \in indexed,
             Grows(v)
      PROVE  Seen'
  <2>1. CASE v = w
    BY <1>1, <1>2, <1>5, <2>1 DEF Seen, Visible, Grows
  <2>2. CASE v # w
    BY <1>2, <1>5, <2>2 DEF Seen, Visible, Grows, OtherSlots, Scoped
  <2>3. QED
    BY <2>1, <2>2
<1>6. ASSUME NEW v \in Workspaces, NEW U \in SUBSET (Chunks \cup Memories),
             <<w, c, e, s>> \in indexed, Shrinks(v, U), v = w => c \notin U
      PROVE  Seen'
  <2>1. CASE v = w
    <3>1. {DocOf[c], c, e} \cap Owned(w, U) = {}
      BY <1>6, <2>1 DEF Owned
    <3>2. \A l \in Tie(c, e) : ~Touches(l, Owned(w, U))
      BY <3>1 DEF Contains, Mentions, DocumentedIn, Touches
    <3>3. Tie(c, e) \subseteq edge'[SlotOf[w]]
      BY <1>2, <1>6, <2>1, <3>2 DEF Seen, Shrinks
    <3>4. \A u \in {DocOf[c], c, e} : /\ owner'[SlotOf[w]][u] = owner[SlotOf[w]][u]
                                     /\ acl'[SlotOf[w]][u] = acl[SlotOf[w]][u]
      BY <1>1, <1>6, <2>1, <3>1 DEF Shrinks
    <3>5. QED
      BY <1>2, <1>6, <3>3, <3>4 DEF Seen, Visible
  <2>2. CASE v # w
    BY <1>2, <1>6, <2>2 DEF Seen, Visible, Shrinks, OtherSlots, Scoped
  <2>3. QED
    BY <2>1, <2>2
<1>7. TypeOK /\ OwnSlot
  BY DEF IndInv
<1>8. ASSUME NEW v \in Workspaces, NEW k \in Chunks, NEW E \in Texts,
             NEW t \in Subjects, UpsertMentions(v, k, E, t)
      PROVE  Seen'
  <2>1. Grows(v)
    BY <1>7, <1>8, UpsertMentionsGrows
  <2>2. CASE <<w, c, e, s>> \in indexed
    BY <1>5, <1>8, <2>1, <2>2 DEF Step
  <2>3. CASE <<w, c, e, s>> \notin indexed
    <3>1. v = w /\ k = c /\ e \in E /\ t = s
      BY <1>8, <2>3 DEF UpsertMentions
    <3>2. Tie(c, e) \subseteq MentionLinks(c, E)
      BY <3>1 DEF MentionLinks
    <3>3. edge'[SlotOf[w]] = edge[SlotOf[w]] \cup MentionLinks(c, E)
      BY <1>7, <1>8, <3>1 DEF UpsertMentions, Connect, TypeOK
    <3>4. \A u \in {DocOf[c], c} \cup E : u \in Uris =>
             owner'[SlotOf[w]][u] = w /\ s \in acl'[SlotOf[w]][u]
      BY <1>7, <1>8, <3>1 DEF UpsertMentions, Merge, Put, TypeOK
    <3>5. QED
      BY <1>1, <3>1, <3>2, <3>3, <3>4 DEF Seen, Visible
  <2>4. QED
    BY <2>2, <2>3
<1>9. ASSUME NEW v \in Workspaces, NEW a \in Entities, NEW b \in Entities,
             NEW t \in Subjects, UpsertEntityRelation(v, a, b, t)
      PROVE  Seen'
  <2>1. Grows(v)
    BY <1>7, <1>9, UpsertEntityRelationGrows
  <2>2. indexed' = indexed
    BY <1>9 DEF UpsertEntityRelation
  <2>3. QED
    BY <1>5, <1>9, <2>1, <2>2 DEF Step
<1>10. ASSUME NEW v \in Workspaces, NEW m \in Memories, NEW E \in Texts,
              UpsertMemoryLinks(v, m, E)
       PROVE  Seen'
  <2>1. Grows(v)
    BY <1>7, <1>10, UpsertMemoryLinksGrows
  <2>2. indexed' = indexed
    BY <1>10 DEF UpsertMemoryLinks
  <2>3. QED
    BY <1>5, <1>10, <2>1, <2>2 DEF Step
<1>11. ASSUME NEW v \in Workspaces, NEW M \in SUBSET Memories,
              DeleteMemoryNodes(v, M)
       PROVE  Seen'
  <2>1. M \in SUBSET Uris /\ c \notin M
    BY DEF Uris
  <2>2. QED
    BY <1>6, <1>7, <1>11, <2>1, DetachShrinks DEF DeleteMemoryNodes
<1>12. ASSUME NEW v \in Workspaces, NEW C \in SUBSET Chunks, DeleteChunks(v, C)
       PROVE  Seen'
  <2>1. C \in SUBSET Uris
    BY DEF Uris
  <2>2. Shrinks(v, C)
    BY <1>7, <1>12, <2>1, DetachShrinks DEF DeleteChunks
  <2>3. <<w, c, e, s>> \in indexed /\ (v = w => c \notin C)
    BY <1>12 DEF DeleteChunks
  <2>4. QED
    BY <1>6, <2>2, <2>3
<1>13. ASSUME NEW v \in Workspaces, Step(v) PROVE Seen'
  BY <1>8, <1>9, <1>10, <1>11, <1>12, <1>13 DEF Step
<1>14. QED
  BY <1>3, <1>4, <1>13 DEF Next

\* In a store that keys its nodes by workspace, what a chunk was stored with
\* is reachable by expansion until the chunk is deleted.
THEOREM Reachable == Scoped /\ Spec => []IndexedIsReachable
<1>1. Init => IndexedIsReachable
  BY DEF Init, IndexedIsReachable
<1>2. SUFFICES ASSUME Scoped PROVE Spec => []IndexedIsReachable
  OBVIOUS
<1>3. IndInv /\ IndexedIsReachable /\ [Next]_vars
        => IndInv' /\ IndexedIsReachable'
  BY <1>2, InvStep, IndexedStep
<1>4. QED
  BY <1>1, <1>3, InvInit, PTL DEF Spec

-----------------------------------------------------------------------------
\* Growing and shrinking, seen from outside.
LEMMA GrowsIsAdd ==
    ASSUME Scoped, IndInv, IndInv', NEW w \in Workspaces, Grows(w)
    PROVE  KG!Add(w)
<1> DEFINE view == [v \in Workspaces |-> GraphOf(v)]
<1>1. ASSUME NEW v \in Workspaces \ {w} PROVE view'[v] = view[v]
  <2>1. SlotOf[v] \in Slots \ {SlotOf[w]}
    BY DEF Scoped
  <2>2. /\ owner'[SlotOf[v]] = owner[SlotOf[v]]
        /\ acl'[SlotOf[v]] = acl[SlotOf[v]]
        /\ edge'[SlotOf[v]] = edge[SlotOf[v]]
    BY <2>1 DEF Grows, OtherSlots
  <2>3. GraphOf(v)' = GraphOf(v)
    BY <2>2 DEF GraphOf
  <2>4. QED
    BY <2>3
<1>2. GraphOf(w).nodes \subseteq GraphOf(w)'.nodes
  BY DEF GraphOf, Grows
<1>3. \A u \in Uris : GraphOf(w).grants[u] \subseteq GraphOf(w)'.grants[u]
  BY DEF GraphOf, Grows
<1>4. GraphOf(w).links \subseteq GraphOf(w)'.links
  BY DEF GraphOf, Grows
<1>5. ASSUME NEW l \in GraphOf(w)'.links
      PROVE  l[1] \in GraphOf(w)'.nodes /\ l[3] \in GraphOf(w)'.nodes
  <2>1. l \in edge'[SlotOf[w]]
    BY DEF GraphOf
  <2>2. l[1] \in Uris /\ l[3] \in Uris
    BY <2>1, EndsAreUris DEF IndInv, TypeOK
  <2>3. QED
    BY <2>1, <2>2 DEF GraphOf, IndInv, NoneDangling
<1>6. KG!Ends(GraphOf(w)'.links) \subseteq GraphOf(w)'.nodes
  BY <1>5 DEF KG!Ends
<1>7. view[w] = GraphOf(w) /\ view'[w] = GraphOf(w)'
  OBVIOUS
<1>8. QED
  BY <1>1, <1>2, <1>3, <1>4, <1>6, <1>7 DEF KG!Add, KG!OnlyIn, KG!Extends

LEMMA ShrinksIsRemove ==
    ASSUME Scoped, IndInv, IndInv', NEW w \in Workspaces,
           NEW U \in SUBSET (Chunks \cup Memories), Shrinks(w, U)
    PROVE  KG!Remove(w, U)
<1> DEFINE view == [v \in Workspaces |-> GraphOf(v)]
<1>1. ASSUME NEW v \in Workspaces \ {w} PROVE view'[v] = view[v]
  <2>1. SlotOf[v] \in Slots \ {SlotOf[w]}
    BY DEF Scoped
  <2>2. /\ owner'[SlotOf[v]] = owner[SlotOf[v]]
        /\ acl'[SlotOf[v]] = acl[SlotOf[v]]
        /\ edge'[SlotOf[v]] = edge[SlotOf[v]]
    BY <2>1 DEF Shrinks, OtherSlots
  <2>3. GraphOf(v)' = GraphOf(v)
    BY <2>2 DEF GraphOf
  <2>4. QED
    BY <2>3
<1>2. U \in SUBSET Uris /\ SlotOf[w] \in Slots
  BY DEF Uris
<1>3. \A u \in Uris : u \in Owned(w, U) <=>
                       u \in U /\ owner[SlotOf[w]][u] = w
  BY DEF Owned
<1>4. GraphOf(w)'.nodes = GraphOf(w).nodes \ U
  BY <1>3 DEF GraphOf, Shrinks
<1>5. ASSUME NEW u \in Uris
      PROVE  acl'[SlotOf[w]][u] = IF u \in U THEN {} ELSE acl[SlotOf[w]][u]
  <2>1. CASE u \in Owned(w, U)
    BY <1>3, <2>1 DEF Shrinks
  <2>2. CASE u \in U /\ u \notin Owned(w, U)
    <3>1. owner[SlotOf[w]][u] = NoOwner
      BY <1>3, <2>2 DEF IndInv, OwnSlot
    <3>2. acl[SlotOf[w]][u] = {}
      BY <3>1 DEF IndInv, OwnSlot
    <3>3. acl'[SlotOf[w]][u] = acl[SlotOf[w]][u]
      BY <2>2 DEF Shrinks
    <3>4. QED
      BY <2>2, <3>2, <3>3
  <2>3. CASE u \notin U
    BY <1>3, <2>3 DEF Shrinks
  <2>4. QED
    BY <2>1, <2>2, <2>3
<1>6. acl'[SlotOf[w]] = [u \in Uris |-> IF u \in U THEN {} ELSE acl[SlotOf[w]][u]]
  BY <1>2, <1>5 DEF IndInv, TypeOK
<1>7. ASSUME NEW l \in edge[SlotOf[w]]
      PROVE  Touches(l, Owned(w, U)) <=> l[1] \in U \/ l[3] \in U
  BY <1>3 DEF Touches, Owned, IndInv, NoneDangling
<1>8. edge'[SlotOf[w]] = {l \in edge[SlotOf[w]] : l[1] \notin U /\ l[3] \notin U}
  BY <1>7 DEF Shrinks
<1>9. GraphOf(w)' = KG!Without(GraphOf(w), U)
  BY <1>4, <1>6, <1>8 DEF GraphOf, KG!Without
<1>10. view[w] = GraphOf(w) /\ view'[w] = GraphOf(w)'
  OBVIOUS
<1>11. QED
  BY <1>1, <1>9, <1>10 DEF KG!Remove, KG!OnlyIn

\* In a store that keys its nodes by workspace, every workspace has a graph
\* of its own, which no other workspace changes and in which every link
\* joins two nodes.
THEOREM Isolated == Scoped /\ Spec => IsGraphPerWorkspace
<1>1. SUFFICES ASSUME Scoped PROVE Spec => IsGraphPerWorkspace
  OBVIOUS
<1>2. Init => KG!Init
  <2>1. ASSUME Init, NEW w \in Workspaces PROVE GraphOf(w) = KG!Empty
    <3>1. {u \in Uris : owner[SlotOf[w]][u] = w} = {}
      BY <2>1 DEF Init
    <3>2. acl[SlotOf[w]] = [u \in Uris |-> {}] /\ edge[SlotOf[w]] = {}
      BY <2>1 DEF Init
    <3>3. QED
      BY <3>1, <3>2 DEF GraphOf, KG!Empty
  <2>2. QED
    BY <2>1 DEF KG!Init
<1>3. ASSUME IndInv, IndInv', [Next]_vars
      PROVE  [KG!Next]_([w \in Workspaces |-> GraphOf(w)])
  <2>1. CASE UNCHANGED vars
    BY <2>1 DEF vars, GraphOf
  <2>2. ASSUME NEW w \in Workspaces, Step(w) PROVE KG!Next
    <3>1. TypeOK /\ OwnSlot
      BY <1>3 DEF IndInv
    <3>2. CASE Grows(w)
      BY <1>1, <1>3, <3>2, GrowsIsAdd DEF KG!Next
    <3>3. ASSUME NEW U \in SUBSET (Chunks \cup Memories), Shrinks(w, U)
          PROVE  KG!Next
      BY <1>1, <1>3, <3>3, ShrinksIsRemove DEF KG!Next
    <3>4. QED
      BY <2>2, <3>1, <3>2, <3>3, StepShape
  <2>3. QED
    BY <1>3, <2>1, <2>2 DEF Next
<1>4. IndInv /\ [Next]_vars => IndInv'
  BY <1>1, InvStep
<1>5. QED
  BY <1>2, <1>3, <1>4, InvInit, PTL DEF Spec, IsGraphPerWorkspace, KG!Spec

=============================================================================
