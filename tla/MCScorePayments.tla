---- MODULE MCScorePayments ----
(* Instances of ScorePayments for TLC. *)
EXTENDS ScorePayments, TLC

HandlerSymmetry == Permutations(Handler)
====
