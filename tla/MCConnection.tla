---------------------------- MODULE MCConnection ----------------------------
(* Connection for TLC: clients, callers and subjects are interchangeable. *)
EXTENDS Connection, TLC

Symmetry == Permutations(Callers) \cup Permutations(ClientIds) \cup Permutations(Subjects)
=============================================================================
