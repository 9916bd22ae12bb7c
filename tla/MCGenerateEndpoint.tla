------------------------ MODULE MCGenerateEndpoint ------------------------
(* GenerateEndpoint on small instances. *)
EXTENDS GenerateEndpoint, TLC

CONSTANTS g1, g2, g3, r1

Symmetry == Permutations(Generations)
=============================================================================
