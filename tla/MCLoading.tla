----------------------------- MODULE MCLoading -----------------------------
(* TLC instances of LoadingCache. *)
EXTENDS LoadingCache, TLC

CallerSymmetry == Permutations(Callers)
=============================================================================
