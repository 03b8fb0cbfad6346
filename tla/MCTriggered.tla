---------------------------- MODULE MCTriggered ----------------------------
(* TLC instances of TriggeredRunner. *)
EXTENDS TriggeredRunner, TLC

PodSymmetry == Permutations(Pods)
=============================================================================
