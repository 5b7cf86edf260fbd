----------------------------- MODULE MCPetGame -----------------------------
(* Model values and symmetry for checking PetGame. *)
EXTENDS PetGame, TLC

MapSymmetry == Permutations(Maps)
=============================================================================
