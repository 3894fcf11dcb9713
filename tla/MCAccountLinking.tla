--------------------------- MODULE MCAccountLinking ---------------------------
(* Constants for TLC: persons and cases may be exchanged among themselves.    *)
EXTENDS AccountLinking, TLC

Symmetry == Permutations(Person) \cup Permutations(Case)
=============================================================================
