---------------------------- MODULE MCRedisQueue ----------------------------
(* TLC instances of RedisQueue. *)
EXTENDS RedisQueue

\* An environment without a namespace beside one that has a prefix.
MCPrefix == [e \in Envs |-> IF e = "prod" THEN <<>> ELSE <<"local">>]

MCNames == {<<"report">>}

\* The pods compete in the environment with the prefix.
MCEnvOf == [p \in Pods |-> "local"]
=============================================================================
