----------------------------- MODULE MCRateLimit -----------------------------
(* Finite instances of RateLimit for TLC. *)
EXTENDS RateLimit, TLC

Symmetry == Permutations(Threads) \cup Permutations(Ids)
=============================================================================
