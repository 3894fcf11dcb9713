---- MODULE MCApplicationDecision ----
(* Instances of ApplicationDecision for TLC. *)
EXTENDS ApplicationDecision, TLC

CONSTANTS a1, a2, ann, bob

\* Two applications by two renters.
TwoRenters == a1 :> ann @@ a2 :> bob

\* Handlers, units and items; one of the two renters answers the link, so they differ.
Symmetry == Permutations(Handler) \cup Permutations(Unit) \cup Permutations(Item)
====
