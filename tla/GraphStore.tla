------------------------------ MODULE GraphStore ------------------------------
(***************************************************************************)
(* The graph stores of kb_mcp/storage: the calls that the ingestion and    *)
(* the memory service make, and what expansion can then reach.  A node is  *)
(* found by its URI and, in Neo4j, the workspace: MERGE names both         *)
(* (neo4j_store.py), while the in-memory store's dict has the URI alone.   *)
(* The slot of a workspace is the part of the key that is not the URI.     *)
(*                                                                         *)
(* A call is one step: a transaction in Neo4j, one relation at a time in   *)
(* upsert_entity_relations.  Names and aliases are left out, the five      *)
(* relations between entities are one, and duplicate edges are one edge.   *)
(***************************************************************************)
CONSTANTS
    Workspaces, Subjects,
    Docs, Chunks, Entities, Memories,  \* URIs by kind of node
    DocOf,      \* DocOf[c]: the document of chunk c
    Texts,      \* what a chunk or a memory item can mention: sets of entities
    Slots,      \* values of a key beside the URI
    SlotOf,     \* SlotOf[w]: the one used for workspace w
    NoOwner     \* where there is no node

Uris == Docs \cup Chunks \cup Entities \cup Memories

\* Edges: <<source, relation, target>>.
Contains(d, c) == <<d, "CONTAINS", c>>
Mentions(c, e) == <<c, "MENTIONS", e>>
DocumentedIn(e, d) == <<e, "DOCUMENTED_IN", d>>
RelatesTo(a, b) == <<a, "RELATES_TO", b>>
RefersTo(m, e) == <<m, "MEMORY_REFERS_TO", e>>

Links == {Contains(d, c) : d \in Docs, c \in Chunks}
         \cup {Mentions(c, e) : c \in Chunks, e \in Entities}
         \cup {DocumentedIn(e, d) : e \in Entities, d \in Docs}
         \cup {RelatesTo(a, b) : a \in Entities, b \in Entities}
         \cup {RefersTo(m, e) : m \in Memories, e \in Entities}

ASSUME KindsAssumption ==
    /\ Docs \cap Chunks = {} /\ Docs \cap Entities = {} /\ Docs \cap Memories = {}
    /\ Chunks \cap Entities = {} /\ Chunks \cap Memories = {}
    /\ Entities \cap Memories = {}

ASSUME GraphAssumption ==
    /\ DocOf \in [Chunks -> Docs]
    /\ Texts \subseteq SUBSET Entities
    /\ SlotOf \in [Workspaces -> Slots]
    /\ NoOwner \notin Workspaces

\* Every workspace has nodes of its own, as in Neo4j.
Scoped == \A v, w \in Workspaces : SlotOf[v] = SlotOf[w] => v = w

VARIABLES
    owner,    \* owner[z][u]: workspace_id of the node of URI u in slot z
    acl,      \* acl[z][u]: its acl_allow
    edge,     \* edge[z]: the edges between the nodes of slot z
    indexed   \* history: <<w, c, e, s>>, chunk c of workspace w was stored for
              \* subject s as mentioning e, and not deleted since

vars == <<owner, acl, edge, indexed>>

-----------------------------------------------------------------------------
Init ==
    /\ owner = [z \in Slots |-> [u \in Uris |-> NoOwner]]
    /\ acl = [z \in Slots |-> [u \in Uris |-> {}]]
    /\ edge = [z \in Slots |-> {}]
    /\ indexed = {}

\* f with the value v at every member of U.
Put(f, U, v) == [u \in DOMAIN f |-> IF u \in U THEN v ELSE f[u]]

\* Mutant: a node that is stored again is only seen by its latest subject.
Merge_Overwrites(w, U, s) ==
    /\ owner' = [owner EXCEPT ![SlotOf[w]] = Put(@, U, w)]
    /\ acl' = [acl EXCEPT ![SlotOf[w]] = Put(@, U, {s})]

\* Nodes for the URIs in U that workspace w lets s see: created, or taken
\* over with s added to those who already see them.
Merge(w, U, s) ==
    /\ owner' = [owner EXCEPT ![SlotOf[w]] = Put(@, U, w)]
    /\ acl' = [acl EXCEPT ![SlotOf[w]] =
                 [u \in Uris |-> IF u \in U THEN @[u] \cup {s} ELSE @[u]]]

Connect(w, links) == edge' = [edge EXCEPT ![SlotOf[w]] = @ \cup links]

\* Mutant: DOCUMENTED_IN is drawn the wrong way round.
MentionLinks_Reversed(c, E) ==
    {Contains(DocOf[c], c)} \cup {Mentions(c, e) : e \in E}
    \cup {<<DocOf[c], "DOCUMENTED_IN", e>> : e \in E}

\* The edges a chunk that mentions E is stored with.
MentionLinks(c, E) ==
    {Contains(DocOf[c], c)} \cup {Mentions(c, e) : e \in E}
    \cup {DocumentedIn(e, DocOf[c]) : e \in E}

\* A chunk, its document and the entities that it mentions.
UpsertMentions(w, c, E, s) ==
    /\ Merge(w, {DocOf[c], c} \cup E, s)
    /\ Connect(w, MentionLinks(c, E))
    /\ indexed' = indexed \cup {<<w, c, e, s>> : e \in E}

\* Two entities of which a chunk's text says that they are related.
UpsertEntityRelation(w, a, b, s) ==
    /\ Merge(w, {a, b}, s)
    /\ Connect(w, {RelatesTo(a, b)})
    /\ UNCHANGED indexed

\* The URIs among U that have a node in w's slot, whosever it is.
Present(w, U) == {u \in U : owner[SlotOf[w]][u] # NoOwner}

\* A memory item and the entities it refers to.  Missing nodes are created,
\* seen by nobody; those that exist are left alone.
UpsertMemoryLinks(w, m, E) ==
    LET new == ({m} \cup E) \ Present(w, {m} \cup E)
    IN /\ owner' = [owner EXCEPT ![SlotOf[w]] = Put(@, new, w)]
       /\ Connect(w, {RefersTo(m, e) : e \in E})
       /\ UNCHANGED <<acl, indexed>>

\* The nodes among U that belong to workspace w.
Owned(w, U) == {u \in U : owner[SlotOf[w]][u] = w}

Touches(l, U) == l[1] \in U \/ l[3] \in U

\* Mutant: the nodes are deleted and their edges are left behind.
Detach_Dangling(w, U) ==
    /\ owner' = [owner EXCEPT ![SlotOf[w]] = Put(@, Owned(w, U), NoOwner)]
    /\ acl' = [acl EXCEPT ![SlotOf[w]] = Put(@, Owned(w, U), {})]
    /\ UNCHANGED edge

\* DETACH DELETE: the nodes among U that are w's go with all their edges.
Detach(w, U) ==
    /\ owner' = [owner EXCEPT ![SlotOf[w]] = Put(@, Owned(w, U), NoOwner)]
    /\ acl' = [acl EXCEPT ![SlotOf[w]] = Put(@, Owned(w, U), {})]
    /\ edge' = [edge EXCEPT ![SlotOf[w]] = {l \in @ : ~Touches(l, Owned(w, U))}]

DeleteMemoryNodes(w, M) ==
    /\ Detach(w, M)
    /\ UNCHANGED indexed

DeleteChunks(w, C) ==
    /\ Detach(w, C)
    /\ indexed' = {x \in indexed : ~(x[1] = w /\ x[2] \in C)}

-----------------------------------------------------------------------------
Step(w) ==
    \/ \E c \in Chunks, E \in Texts, s \in Subjects :
         UpsertMentions(w, c, E, s)
    \/ \E a, b \in Entities, s \in Subjects : UpsertEntityRelation(w, a, b, s)
    \/ \E m \in Memories, E \in Texts : UpsertMemoryLinks(w, m, E)
    \/ \E M \in SUBSET Memories : DeleteMemoryNodes(w, M)
    \/ \E C \in SUBSET Chunks : DeleteChunks(w, C)

Next == \E w \in Workspaces : Step(w)

Spec == Init /\ [][Next]_vars

-----------------------------------------------------------------------------
\* What expansion goes by: a node's workspace and its acl_allow.
Visible(w, s, u) == owner[SlotOf[w]][u] = w /\ s \in acl[SlotOf[w]][u]

\* The links expansion can follow for subject s of workspace w: every path
\* it returns is made of these.
Shown(w, s) ==
    {l \in edge[SlotOf[w]] : Visible(w, s, l[1]) /\ Visible(w, s, l[3])}

\* Every node has an owner and subjects, every edge joins the kinds of node
\* its relation is for, whatever the calls of neo4j_store.py store.
TypeOK ==
    /\ owner \in [Slots -> [Uris -> Workspaces \cup {NoOwner}]]
    /\ acl \in [Slots -> [Uris -> SUBSET Subjects]]
    /\ edge \in [Slots -> SUBSET Links]
    /\ indexed \in SUBSET (Workspaces \X Chunks \X Entities \X Subjects)

\* From a chunk that was stored for a subject expansion reaches the entities
\* it mentions, and from them its document, until the chunk is deleted:
\* whatever other workspaces, subjects, relations, memory items and
\* deletions do to the same nodes.
IndexedIsReachable ==
    \A w \in Workspaces, c \in Chunks, e \in Entities, s \in Subjects :
        <<w, c, e, s>> \in indexed =>
            {Contains(DocOf[c], c), Mentions(c, e), DocumentedIn(e, DocOf[c])}
               \subseteq Shown(w, s)

\* The graph of workspace w, without those of the others.
GraphOf(w) ==
    [nodes  |-> {u \in Uris : owner[SlotOf[w]][u] = w},
     grants |-> acl[SlotOf[w]],
     links  |-> edge[SlotOf[w]]]

KG == INSTANCE KnowledgeGraph
        WITH Removable <- Chunks \cup Memories,
             view <- [w \in Workspaces |-> GraphOf(w)]

\* README.md, "Different workspace_id: data is isolated": the store is a
\* graph per workspace, no link of which hangs in the air.
IsGraphPerWorkspace == KG!Spec

===============================================================================
