------------------------------ MODULE MCMQueue ------------------------------
(* Constants of MQueue for TLC. *)
EXTENDS MQueue, TLC

Symmetry == Permutations(Collectors) \cup Permutations(Programs)
=============================================================================
