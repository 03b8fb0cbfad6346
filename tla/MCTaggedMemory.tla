-------------------------- MODULE MCTaggedMemory --------------------------
(* Instances of MemoryTaggedCache for TLC. *)
EXTENDS MemoryTaggedCache, TLC

MCSymmetry == Permutations(Keys) \cup Permutations(Tags)
=============================================================================
