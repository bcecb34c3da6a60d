---------------------------- MODULE MCGraphStore ----------------------------
(* Small instances of GraphStore for TLC. *)
EXTENDS GraphStore, TLC

CONSTANTS w1, w2, d1, c1, c2, e1, m1, m2, u1, u2

\* Both chunks are of one document.
MCDocOf == c1 :> d1 @@ c2 :> d1

\* Neo4j: the workspace is part of the key.
PerWorkspace == w1 :> w1 @@ w2 :> w2

\* The workspaces do the same things, so do the chunks, the
\* subjects and the memory items.
Symmetry == Permutations({w1, w2}) \cup Permutations({c1, c2})
                \cup Permutations({u1, u2}) \cup Permutations({m1, m2})
=============================================================================
