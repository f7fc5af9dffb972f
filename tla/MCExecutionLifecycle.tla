------------------------ MODULE MCExecutionLifecycle ------------------------
(* A small instance of ExecutionLifecycle. *)
EXTENDS ExecutionLifecycle, TLC

CONSTANTS c1, c2, i1, i2

MCTimes == 1 .. 2
MCSymmetry == Permutations({c1, c2}) \cup Permutations({i1, i2})

=============================================================================
