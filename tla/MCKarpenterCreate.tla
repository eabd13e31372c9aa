-------------------------- MODULE MCKarpenterCreate --------------------------
(* Finite instances of KarpenterCreate. *)
EXTENDS KarpenterCreate, TLC

Symmetry == Permutations(Creators)

=============================================================================
