---------------------------- MODULE MCRegistry ----------------------------
(* Instances of TaskRegistry for TLC. *)
EXTENDS TaskRegistry, TLC

MCSymmetry == Permutations(Names) \cup Permutations(Funcs)
=============================================================================
