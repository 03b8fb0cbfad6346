----------------------------- MODULE RedisQueue -----------------------------
(***************************************************************************)
(* Oneshot tasks over the Redis store (store/redis.py), in environments    *)
(* that share it: submissions (OneshotSubmit) together with the tick loops *)
(* and background jobs of the pods (runner/oneshot.py, runner/base.py).    *)
(*                                                                         *)
(* The Redis store has no rows and no status: a task is a member of the    *)
(* set task:dynamic:pending until a job removes it, and a lock is a key of *)
(* its own that carries the task's id and expires.  So a pod that listed a *)
(* task may take its lock after another pod ran and removed it.            *)
(*                                                                         *)
(* Locks expire at no given time, but not while their job executes: the    *)
(* TTL is longer than one attempt (OneshotRunner has the clock, retries    *)
(* and max_concurrency).  With store = "sql" only submissions and removals *)
(* happen: the pods of the SQL store are in OneshotRunner.                 *)
(***************************************************************************)
EXTENDS OneshotSubmit

CONSTANTS
    Pods,           \* scheduler instances, by pod_id
    EnvOf,          \* the environment of each
    MaxMishaps      \* most crashes, shutdowns and faults together

\* A prefix is no prefix of what another environment stores.
ASSUME PrefixesAssumption ==
    \A e, f \in Envs, n \in Names :
        e # f /\ Prefix[e] # <<>> => ~StartsWith(to_store_name(f, n), Prefix[e])

ASSUME QueueAssumption ==
    NULL \notin Pods /\ EnvOf \in [Pods -> Envs] /\ MaxMishaps \in Nat

VARIABLES
    lock,       \* owner of the lock key of each task id, NULL if there is none
    pod,        \* "up", "stopping", "cancelled" or "crashed"
    todo,       \* what is left of the snapshot of each tick, NULL between ticks
    job,        \* phase of the in-flight job of each pod and task
    mishaps,    \* how many happened, to bound them
    finished,   \* history: tasks one of whose execute() calls returned
    dropped,    \* history: tasks a shutdown cancelled while they executed
    cleaner     \* history: the environment whose cleanup deleted each row

vars == <<submission, lock, pod, todo, job, mishaps, finished, dropped, cleaner>>

Init ==
    /\ SubmitInit
    /\ lock = [i \in Ids |-> NULL]
    /\ pod = [p \in Pods |-> "up"]
    /\ todo = [p \in Pods |-> NULL]
    /\ job = [p \in Pods |-> [i \in Ids |-> "none"]]
    /\ mishaps = 0
    /\ finished = {} /\ dropped = {}
    /\ cleaner = [i \in Ids |-> NULL]

---------------------------------------------------------------------------
(* The tick loop. *)

\* A member whose name is not of the pod's environment, or has no handler
\* there, is passed over.
Handles(p, i) == from_store_name(EnvOf[p], task[i].name) \in Names

\* The tick goes on with the tasks S, or is over.
Rest(S) == IF S = {} THEN NULL ELSE S

ListPending(p) ==
    /\ store = "redis"
    /\ pod[p] = "up" /\ todo[p] = NULL
    /\ todo' = [todo EXCEPT ![p] = Rest({i \in Pending : Handles(p, i)})]
    /\ UNCHANGED <<submission, lock, pod, job, mishaps, finished, dropped, cleaner>>

\* SET task:lock:<id> <pod_id> NX EX <ttl> returns OK.
LockFree(i) == lock[i] = NULL

AtTask(p, i) == todo[p] # NULL /\ i \in todo[p]

\* In flight on this pod already, or the lock is held.
PassOver(p, i) ==
    /\ AtTask(p, i)
    /\ job[p][i] # "none" \/ ~LockFree(i)
    /\ todo' = [todo EXCEPT ![p] = Rest(@ \ {i})]
    /\ UNCHANGED <<submission, lock, pod, job, mishaps, finished, dropped, cleaner>>

\* acquire_dynamic_task_lock, create_task, in_flight.
Dispatch(p, i) ==
    /\ AtTask(p, i)
    /\ job[p][i] = "none" /\ LockFree(i)
    /\ lock' = [lock EXCEPT ![i] = p]
    /\ job' = [job EXCEPT ![p][i] = "execute"]
    /\ todo' = [todo EXCEPT ![p] = Rest(@ \ {i})]
    /\ UNCHANGED <<submission, pod, mishaps, finished, dropped, cleaner>>

\* The tick ends early; a SET under way may have taken the lock all the same.
AbandonTick(p) ==
    /\ todo' = [todo EXCEPT ![p] = NULL]
    /\ \/ UNCHANGED lock
       \/ \E i \in Ids : /\ AtTask(p, i) /\ job[p][i] = "none" /\ LockFree(i)
                         /\ lock' = [lock EXCEPT ![i] = p]

---------------------------------------------------------------------------
(* The background job. *)

Goto(p, i, phase) == job' = [job EXCEPT ![p][i] = phase]

\* execute() returns, with a success or a failure, and record_success or
\* record_failure writes keys of the task's id that nobody reads: whether it
\* returns or raises, the release follows.
ExecuteAndRecord(p, i) ==
    /\ job[p][i] = "execute"
    /\ Goto(p, i, "release")
    /\ finished' = finished \cup {i}
    /\ UNCHANGED <<submission, lock, pod, todo, mishaps, dropped, cleaner>>

\* Mutant: DEL without the comparison.
FreedByAnyone(p, i) == NULL

\* The lock after the script of release_lock, which deletes only its own.
Freed(p, i) == IF lock[i] = p THEN NULL ELSE lock[i]

Release(p, i) ==
    /\ job[p][i] = "release"
    /\ lock' = [lock EXCEPT ![i] = Freed(p, i)]
    /\ Goto(p, i, "remove")
    /\ UNCHANGED <<submission, pod, todo, mishaps, finished, dropped, cleaner>>

\* delete_oneshot_task, after a success and a failure alike: SMEMBERS to find
\* the member with the id, and SREM.  A member never changes, so only the SREM
\* counts, and it finds nothing if another pod has removed it.
RemoveMember(p, i) ==
    /\ job[p][i] = "remove"
    /\ task' = [task EXCEPT ![i] = Removed(@)]
    /\ Goto(p, i, "none")
    /\ UNCHANGED <<store, call, lock, pod, todo, mishaps, finished, dropped, cleaner>>

\* Where the job goes on after its store call raised: only a failed release
\* is followed by another call.
AfterFault(phase) == IF phase = "release" THEN "remove" ELSE "none"

\* Where a cancellation leaves it: execute() and the record run on into the
\* finally clause, and a cancellation inside that clause ends it there.
AfterCancel(phase) == IF phase = "execute" THEN "release" ELSE "none"

\* Store calls of the jobs S that failed or were cut short: any of them may
\* have taken effect.
MaybeStored(p, S) ==
    \E done \in SUBSET S :
        /\ lock' = [i \in Ids |-> IF i \in done /\ job[p][i] = "release" THEN Freed(p, i) ELSE lock[i]]
        /\ task' = [i \in Ids |-> IF i \in done /\ job[p][i] = "remove" THEN Removed(task[i]) ELSE task[i]]

---------------------------------------------------------------------------
(* Faults, pods and locks. *)

Mishap == mishaps < MaxMishaps /\ mishaps' = mishaps + 1

TickFault(p) ==
    /\ Mishap
    /\ todo[p] # NULL
    /\ AbandonTick(p)
    /\ UNCHANGED <<submission, pod, job, finished, dropped, cleaner>>

JobFault(p, i) ==
    /\ Mishap
    /\ job[p][i] \in {"release", "remove"}
    /\ Goto(p, i, AfterFault(job[p][i]))
    /\ MaybeStored(p, {i})
    /\ UNCHANGED <<store, call, pod, todo, finished, dropped, cleaner>>

\* TaskScheduler.stop: the tick is cancelled, the jobs get their grace.
Stop(p) ==
    /\ Mishap
    /\ pod[p] = "up"
    /\ pod' = [pod EXCEPT ![p] = "stopping"]
    /\ AbandonTick(p)
    /\ UNCHANGED <<submission, job, finished, dropped, cleaner>>

\* runner.shutdown after the grace: every job still there is cancelled.
GraceExpires(p) ==
    /\ pod[p] = "stopping"
    /\ \E i \in Ids : job[p][i] # "none"
    /\ MaybeStored(p, Ids)
    /\ pod' = [pod EXCEPT ![p] = "cancelled"]
    /\ job' = [job EXCEPT ![p] = [i \in Ids |-> AfterCancel(job[p][i])]]
    /\ dropped' = dropped \cup {i \in Ids : job[p][i] = "execute"}
    /\ UNCHANGED <<store, call, todo, mishaps, finished, cleaner>>

\* The process dies; its locks stay until they expire.
Crash(p) ==
    /\ Mishap
    /\ pod[p] # "crashed"
    /\ pod' = [pod EXCEPT ![p] = "crashed"]
    /\ todo' = [todo EXCEPT ![p] = NULL]
    /\ job' = [job EXCEPT ![p] = [i \in Ids |-> "none"]]
    /\ UNCHANGED <<submission, lock, finished, dropped, cleaner>>

Restart(p) ==
    /\ pod[p] # "up" /\ \A i \in Ids : job[p][i] = "none"
    /\ pod' = [pod EXCEPT ![p] = "up"]
    /\ UNCHANGED <<submission, lock, todo, job, mishaps, finished, dropped, cleaner>>

\* Mutant: SET without EX.
ExpireNever(i) == FALSE

\* The key's TTL runs out.
Expire(i) ==
    /\ lock[i] # NULL /\ job[lock[i]][i] # "execute"
    /\ lock' = [lock EXCEPT ![i] = NULL]
    /\ UNCHANGED <<submission, pod, todo, job, mishaps, finished, dropped, cleaner>>

\* Rows within reach of the cleanup of the environment e: task_name LIKE
\* prefix%, or every row if it has no prefix.
InReach(e, i) == Prefix[e] = <<>> \/ StartsWith(task[i].name, Prefix[e])

\* cleanup_expired_oneshot_tasks deletes a row of the SQL store that has run,
\* so here at any time; delete_oneshot_task of a pod of e is a case of it.
RemoveRow(e, i) ==
    /\ store = "sql" /\ i \in Pending /\ InReach(e, i)
    /\ task' = [task EXCEPT ![i] = Removed(@)]
    /\ cleaner' = [cleaner EXCEPT ![i] = e]
    /\ UNCHANGED <<store, call, lock, pod, todo, job, mishaps, finished, dropped>>

---------------------------------------------------------------------------

Submission == SubmitStep /\ UNCHANGED <<lock, pod, todo, job, mishaps, finished, dropped, cleaner>>

LoopStep(p) == ListPending(p) \/ \E i \in Ids : PassOver(p, i) \/ Dispatch(p, i)

JobStep(p) ==
    \E i \in Ids :
        ExecuteAndRecord(p, i) \/ Release(p, i) \/ RemoveMember(p, i)

MishapStep(p) ==
    \/ TickFault(p) \/ Stop(p) \/ Crash(p)
    \/ \E i \in Ids : JobFault(p, i)

PodStep(p) == GraceExpires(p) \/ Restart(p)

Next ==
    \/ Submission
    \/ \E p \in Pods : LoopStep(p) \/ JobStep(p) \/ MishapStep(p) \/ PodStep(p)
    \/ \E i \in Ids : Expire(i) \/ \E e \in Envs : RemoveRow(e, i)

\* Event loops run on, handlers time out and keys expire.
Fairness ==
    /\ \A p \in Pods : WF_vars(LoopStep(p)) /\ WF_vars(JobStep(p))
    /\ \A i \in Ids : WF_vars(Expire(i))

Spec == Init /\ [][Next]_vars /\ Fairness

---------------------------------------------------------------------------
(* Properties. *)

Phases == {"none", "execute", "release", "remove"}

\* Type invariant.
TypeOK ==
    /\ SubmitTypeOK
    /\ lock \in [Ids -> Pods \cup {NULL}]
    /\ pod \in [Pods -> {"up", "stopping", "cancelled", "crashed"}]
    /\ todo \in [Pods -> ((SUBSET Ids) \ {{}}) \cup {NULL}]
    /\ job \in [Pods -> [Ids -> Phases]]
    /\ mishaps \in 0..MaxMishaps
    /\ finished \subseteq Ids /\ dropped \subseteq Ids
    /\ cleaner \in [Ids -> Envs \cup {NULL}]

\* One pod at a time executes a task, although a pod may lock a task that was
\* run and removed, and release a lock that has passed to another pod.
MutualExclusion ==
    \A i \in Ids, p, q \in Pods : job[p][i] = "execute" /\ job[q][i] = "execute" => p = q

\* The documented at-least-once: a member leaves the set only when its handler
\* has returned, or was cut off by the shutdown of its pod (redis.py:305).
NotLost == store = "redis" => \A i \in Ids : task[i].state = "out" => i \in finished \cup dropped

\* What TaskQueue sees of the set and the jobs; the pods over the SQL store are
\* those of OneshotRunner.  The Redis store is done with a task that a
\* shutdown cut off.
Queued == {i \in Pending : store = "redis"}

Working == {w \in Pods \X Ids : job[w[1]][w[2]] = "execute"}

Contract == INSTANCE TaskQueue WITH
    Tasks <- Ids, queued <- Queued, working <- Working, done <- finished \cup dropped

\* The pods over the Redis store keep the promise of TaskQueue.
KeepsContract == Contract!QueueSpec

\* A pod runs, and removes, only tasks its own environment submitted, and so
\* does the cleanup of an environment with a prefix (namespaced.py:15: "a
\* local worker cannot consume or update another environment's task rows").
\* The cleanup of one without a prefix reaches every row.  A submission never
\* returns a task of another environment, name or biz_name.
Isolated ==
    /\ ResultsOwn
    /\ \A p \in Pods, i \in Ids :
        (job[p][i] # "none" \/ AtTask(p, i)) => task[i].env = EnvOf[p]
    /\ \A i \in Ids :
        cleaner[i] # NULL => cleaner[i] = task[i].env \/ Prefix[cleaner[i]] = <<>>

\* A submitted task is run although pods crash with its lock and store calls
\* fail, as long as its environment has a pod that is up.
EventuallyRuns ==
    \A i \in Ids :
        (store = "redis" /\ i \in Pending)
            ~> (\/ i \in finished \cup dropped
                \/ \A p \in Pods : EnvOf[p] = task[i].env => pod[p] # "up")

=============================================================================
