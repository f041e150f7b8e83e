------------------------------ MODULE MCOutbox ------------------------------
(* Instances of Outbox for TLC. *)
EXTENDS Outbox, TLC

\* Workers are interchangeable: sound for the runs without liveness.
WorkerSymmetry == Permutations(Workers)
=============================================================================
