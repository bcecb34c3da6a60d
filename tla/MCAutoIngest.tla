---------------------------- MODULE MCAutoIngest ----------------------------
(* A small instance of AutoIngest for TLC. *)
EXTENDS AutoIngest

CONSTANTS good, bad
=============================================================================
