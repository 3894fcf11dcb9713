---- MODULE MCAuthSessions ----
(* Instances of AuthSessions for TLC. *)
EXTENDS AuthSessions, TLC

\* Bound: behaviours are followed up to the write that comes too late.
Unskewed == skewed = {}

HandlerSymmetry == Permutations(Handler)
====
