----------------------------- MODULE MCIngestion -----------------------------
(* Small instances of Ingestion for TLC. *)
EXTENDS IngestionInv, TLC

CONSTANTS w1, w2, f1, f2, auto, tool, p1, p2

\* Three texts of two, one and two chunks: growing, shrinking and rewriting.
MCVersions == {1, 2, 3}
MCChunkCount == [v \in Versions |-> IF v = 2 THEN 1 ELSE 2]

OneProcess == [c \in Callers |-> p1]
TwoProcesses == [c \in Callers |-> IF c = auto THEN p1 ELSE p2]
NoLegacy == [f \in Files |-> NoDoc]
\* An older release indexed f1 at version 1 for w1.
LegacyOfW1 == [f \in Files |->
                 IF f = f1 THEN [ws |-> w1, sum |-> 1] ELSE NoDoc]

AllStores == Stores

\* Any text may replace any other, or only texts not seen before (a file is
\* created, rewritten and emptied, never put back to an old text).  A blank
\* file and one that is gone are passed over alike: AnyEdit only deletes.
AnyEdit == {e \in Texts \X Texts : e[1] # e[2] /\ e[2] # Blank}
Forward == {<<Missing, 1>>, <<1, 2>>, <<2, Blank>>, <<2, 3>>, <<1, 3>>, <<Blank, 3>>}
              \cap (Texts \X Texts)

Symmetry == Permutations({auto, tool})

AutoOfW1 == {<<auto, w1>>}
NoAuto == {}
=============================================================================
