------------------------------ MODULE MCGateway ------------------------------
(* A small instance of Gateway for TLC. *)
EXTENDS Gateway

\* kb_graph_expand calls the stores and resolves an identity, kb_health does
\* neither; only the first one's output has no required field of its own.
CONSTANTS expand, health
===============================================================================
