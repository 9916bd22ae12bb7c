-------------------------- MODULE MCComfyUIClient --------------------------
(* ComfyUIClient on small instances. *)
EXTENDS ComfyUIClient, TLC

CONSTANTS i1, i2

Symmetry == Permutations(Images)
=============================================================================
