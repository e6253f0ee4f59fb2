------------------------------- MODULE MCJobLock -------------------------------
(* JobLock on small instances. *)
EXTENDS JobLock, TLC

Symmetry == Permutations(Runs)

=============================================================================
