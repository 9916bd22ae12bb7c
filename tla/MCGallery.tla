----------------------------- MODULE MCGallery -----------------------------
(* Gallery on small instances. *)
EXTENDS Gallery, TLC

CONSTANTS yuri, monika

Symmetry == Permutations(Characters)
=============================================================================
