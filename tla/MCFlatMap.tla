------------------------------ MODULE MCFlatMap ------------------------------
(* FlatMap with four slots and every hash function.                         *)
EXTENDS FlatMap, TLC

Symmetry == Permutations(Keys) \cup Permutations(Values)
=============================================================================
