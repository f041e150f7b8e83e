--------------------------- MODULE MCConnections ---------------------------
(* Instances of Connections for TLC. *)
EXTENDS Connections, TLC

\* Requests, keys and connections are interchangeable, but for the connections
\* of Given: sound for the runs without liveness.
Symmetry == Permutations(Requests) \cup Permutations(Keys) \cup Permutations(Conns \ Given)
=============================================================================
