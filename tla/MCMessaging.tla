---- MODULE MCMessaging ----
(* Instances of Messaging for TLC. *)
EXTENDS Messaging, TLC

\* Handlers, keys and contents are interchangeable (the actors are not: one of them reads).
Symmetry == Permutations(Handler) \cup Permutations(Key) \cup Permutations(Text)
====
