------------------------------- MODULE MCMemory -------------------------------
(* A small instance of Memory for TLC. *)
EXTENDS Memory, TLC

CONSTANTS keyed, plain

\* A keyed request of one valid item and a request of two without a key.
MCValidItems == [r \in Requests |-> IF r = keyed THEN 1 ELSE 2]
Symmetry == Permutations(Ids) \cup Permutations(Tokens) \cup Permutations(Processes)
===============================================================================
