--------------------------- MODULE MCJobPipeline ---------------------------
(* JobPipeline on small instances. *)
EXTENDS JobPipeline, TLC

CONSTANTS p1, p2

PoemSymmetry == Permutations(Poems)
=============================================================================
