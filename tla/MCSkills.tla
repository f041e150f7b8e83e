------------------------------ MODULE MCSkills ------------------------------
(* Instances of Skills for TLC. *)
EXTENDS Skills, TLC

\* Requests and keys are interchangeable: sound for the runs without liveness.
Symmetry == Permutations(Requests) \cup Permutations(Keys)
=============================================================================
