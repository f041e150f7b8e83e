---------------------------- MODULE MCRateLimit ----------------------------
(* Instances of RateLimit for TLC. *)
EXTENDS RateLimit, TLC

\* Calls are interchangeable: sound for the runs without liveness.
Symmetry == Permutations(Calls)
=============================================================================
