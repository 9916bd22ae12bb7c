-------------------------- MODULE MCPoemPolling --------------------------
(* PoemPolling on small instances. *)
EXTENDS PoemPolling, TLC

CONSTANTS p1, p2, p3
=============================================================================
