--------------------------- MODULE KnowledgeGraph ---------------------------
(***************************************************************************)
(* What a graph store promises to the tools above it: every workspace has  *)
(* a graph of its own.  Whoever writes to one workspace adds nodes, grants *)
(* and links to its graph and takes none away, or removes some documents'  *)
(* chunks or memory items with every link that ends in one.  No step of    *)
(* one workspace is seen by another.                                       *)
(***************************************************************************)
CONSTANTS Workspaces, Uris, Removable

VARIABLE view  \* view[w]: what expansion and explain can show of workspace w

Empty == [nodes  |-> {},                   \* the nodes of the workspace
          grants |-> [u \in Uris |-> {}],  \* acl_allow of each
          links  |-> {}]                   \* <<source, relation, target>>

Ends(links) == {l[1] : l \in links} \cup {l[3] : l \in links}

Init == view = [w \in Workspaces |-> Empty]

\* What is added to a graph takes nothing away, and links join its nodes.
Extends(new, old) ==
    /\ old.nodes \subseteq new.nodes
    /\ \A u \in Uris : old.grants[u] \subseteq new.grants[u]
    /\ old.links \subseteq new.links
    /\ Ends(new.links) \subseteq new.nodes

\* A graph without the nodes in U.
Without(graph, U) ==
    [nodes  |-> graph.nodes \ U,
     grants |-> [u \in Uris |-> IF u \in U THEN {} ELSE graph.grants[u]],
     links  |-> {l \in graph.links : l[1] \notin U /\ l[3] \notin U}]

OnlyIn(w) == \A v \in Workspaces \ {w} : view'[v] = view[v]

Add(w) == OnlyIn(w) /\ Extends(view'[w], view[w])

Remove(w, U) == OnlyIn(w) /\ view'[w] = Without(view[w], U)

Next == \E w \in Workspaces : Add(w) \/ \E U \in SUBSET Removable : Remove(w, U)

Spec == Init /\ [][Next]_view

=============================================================================
