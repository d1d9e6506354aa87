--------------------------- MODULE MCRunnerServer ---------------------------
(* Small instances of RunnerServer for TLC. *)
EXTENDS RunnerServer, TLC

\* Calls are alike, and so are run identifiers.
Symmetry == Permutations(Calls) \cup Permutations(Runs)
=============================================================================
