---- MODULE MCEmailOutbox ----
(* Instances of EmailOutbox for TLC. *)
EXTENDS EmailOutbox, TLC

\* Processes are interchangeable; used only where no liveness is checked.
WorkerSymmetry == Permutations(Worker)
====
