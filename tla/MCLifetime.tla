----------------------------- MODULE MCLifetime -----------------------------
(* TLC instances of RedisLifetime. *)
EXTENDS RedisLifetime

CONSTANTS t1, t2

\* Each task has the monitors and pipelines it owns.
OneOwner == [h \in Monitors \cup Pipelines |-> IF h \in Monitors THEN t1 ELSE t2]
=============================================================================
