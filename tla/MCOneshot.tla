----------------------------- MODULE MCOneshot -----------------------------
(* TLC instances of OneshotRunner: every pod knows every handler. *)
EXTENDS OneshotRunner, TLC

EveryHandler == Pods \X Tasks

PodSymmetry == Permutations(Pods)
=============================================================================
