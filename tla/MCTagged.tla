----------------------------- MODULE MCTagged -----------------------------
(* Instances of RedisTaggedCache for TLC. *)
EXTENDS RedisTaggedCache, TLC

MCSymmetry == Permutations(Callers) \cup Permutations(Tags)
=============================================================================
