---------------------------- MODULE MCScheduled ----------------------------
(* Instances of ScheduledRunner for TLC. *)
EXTENDS ScheduledRunner, TLC

PodSymmetry == Permutations(Pods)

\* A jitter that moves a run forward, back or not at all.
MCJitter == [t \in 0..MaxTime |-> (t % 3) - 1]

\* Jitter switched off.
MCNoJitter == [t \in 0..MaxTime |-> 0]
=============================================================================
