--------------------------- MODULE RedisTaskStore ---------------------------
(***************************************************************************)
(* The keys of one task in the Redis store (scheduler/store/redis.py): the *)
(* lock key, with its owner and expiry, and last_run, here run_at as in    *)
(* the SQL store.  Every store method is one command, script or MULTI, so  *)
(* each is an operator from the keys before it to the keys after it.       *)
(* run_count, the failure record and the history, which no runner reads,   *)
(* are left out.                                                           *)
(***************************************************************************)
EXTENDS Naturals

CONSTANT NULL          \* a key that does not exist

\* The lock key exists: it has been set and has not expired.
Locked(k, now) == k.owner # NULL /\ now < k.expire_at

\* acquire_lock: SET key pod_id NX EX ttl, where it succeeds.
Acquired(k, p, now, ttl) == [k EXCEPT !.owner = p, !.expire_at = now + ttl]

\* The script of release_lock: DEL if GET is the pod's own id.
Released(k, p, now) ==
    IF Locked(k, now) /\ k.owner = p
    THEN [k EXCEPT !.owner = NULL, !.expire_at = NULL]
    ELSE k

\* Mutant: a failure forgets the last run, to run again soon.
RecordedResets(k, started_at, outcome) ==
    IF outcome = "success"
    THEN [k EXCEPT !.run_at = started_at]
    ELSE [k EXCEPT !.run_at = NULL]

\* record_success sets last_run, whoever holds the lock; record_failure leaves
\* it alone.
Recorded(k, started_at, outcome) ==
    IF outcome = "success"
    THEN [k EXCEPT !.run_at = started_at]
    ELSE k
=============================================================================
