------------------------------- MODULE MCJobs -------------------------------
(* Instances of Jobs for TLC. *)
EXTENDS Jobs, TLC

\* Workers are interchangeable: sound for the runs without liveness.
WorkerSymmetry == Permutations(Workers)

\* Two states are the same when they differ only in what a worker keeps for a
\* handler it has left, or for one that has no more use for it.
Meanwhile(places, value, none) == [w \in Workers |-> IF pc[w] \in places THEN value[w] ELSE none]
View ==
  <<apiVars, row, old, redisVars, pc, cur, running, resultVars, faults,
    Meanwhile({"step"}, step, 0),
    Meanwhile({"step", "write", "finish", "fail"}, poisoned, FALSE),
    Meanwhile({"report"}, verdict, "complete")>>
=============================================================================
