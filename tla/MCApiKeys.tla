------------------------------ MODULE MCApiKeys ------------------------------
(* Finite instances of ApiKeys for TLC. *)
EXTENDS ApiKeys, TLC

Symmetry == Permutations(Requests) \cup Permutations(KeyIds) \cup Permutations(Prefixes)
=============================================================================
