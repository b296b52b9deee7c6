------------------------------ MODULE MCPhotos ------------------------------
(* Instances of Photos for TLC. *)
EXTENDS Photos, TLC

Symmetry == Permutations(Photos) \union Permutations(Requests)
=============================================================================
