-------------------------- MODULE MCSchemaMigration --------------------------
(* A small instance of SchemaMigration for TLC. *)
EXTENDS SchemaMigration, TLC

CONSTANTS r1, r2, m1, m2, old, new

Symmetric == Permutations({r1, r2}) \cup Permutations({m1, m2})
=============================================================================
