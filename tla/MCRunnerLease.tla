--------------------------- MODULE MCRunnerLease ---------------------------
(* Small instances of RunnerLease for TLC. *)
EXTENDS RunnerLease, TLC

\* Runners are alike.
Symmetry == Permutations(Runners)
=============================================================================
