---- MODULE MCRenterRecord ----
(* Instances of RenterRecord for TLC. *)
EXTENDS RenterRecord, TLC

\* Bound: behaviours are followed up to the write that comes too late.
Unskewed == skewed = {}

HandlerSymmetry == Permutations(Handler)
====
