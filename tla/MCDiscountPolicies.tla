------------------------- MODULE MCDiscountPolicies -------------------------
(* Four creations that may start at any of three instants.                 *)
EXTENDS DiscountPolicies, TLC

Symmetry == Permutations(Creations) \cup Permutations(PolicyIds)
=============================================================================
