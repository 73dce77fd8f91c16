----------------------------- MODULE MCRedisPool -----------------------------
(* Finite instances of RedisPool for TLC. *)
EXTENDS RedisPool

Symmetry == Permutations(Workers) \cup Permutations(Connections)
=============================================================================
