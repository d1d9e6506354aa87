---------------------------- MODULE MCAuditChain ----------------------------
(* Small instances of AuditChain for TLC. *)
EXTENDS AuditChain, TLC

\* Writers are alike.
Symmetry == Permutations(Writers)
=============================================================================
