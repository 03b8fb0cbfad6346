--------------------------- MODULE OneshotRunner ---------------------------
(***************************************************************************)
(* Oneshot tasks: pods that run the same TaskScheduler against one task    *)
(* table (scheduler/runner/oneshot.py, runner/base.py, executor.py and the *)
(* start/stop/loop of scheduler.py, over the SQL store).                   *)
(*                                                                         *)
(* A pod is one asyncio event loop.  Its tick loop lists the pending rows, *)
(* then, row by row, checks the concurrency cap, takes the row's lock and  *)
(* dispatches a background job; every job runs the handler with retries,   *)
(* records the outcome, releases the lock and may delete the row.  Each    *)
(* await of a store method is a step of its own, so the steps of different *)
(* pods, and of the jobs and the tick loop of one pod, interleave there.   *)
(*                                                                         *)
(* Time is a counter shared by all pods: the store compares timestamps of  *)
(* different pods, so it relies on their clocks agreeing.                  *)
(***************************************************************************)
EXTENDS SQLTaskStore, FiniteSets

CONSTANTS
    Pods,               \* scheduler instances, by pod_id
    Tasks,              \* row ids, numbered in the order of created_at
    Registered,         \* <<pod, row>>: the pod's task_defs know the handler
    Timeout,            \* timeout of a row
    LOCK_TTL_BUFFER,    \* what a lock's TTL adds to the timeout
    TaskMaxRuns,        \* max_runs of the @task: attempts of one execute()
    RowMaxRuns,         \* max_runs of the submitted row
    Backoff,            \* sleep between two attempts
    Cap,                \* max_concurrency of the handler, NULL if undeclared
    SuccessRetention,   \* TaskRetentionPolicy; 0 deletes at once
    FailureRetention,
    Lag,                \* most an event loop is late for what is due
    MaxTime, MaxCrashes, MaxStops, MaxFaults    \* bounds of the exploration

ASSUME PodsAssumption == NULL \notin Pods

ASSUME TasksAssumption == Tasks \subseteq Nat

ASSUME FiniteAssumption == IsFiniteSet(Pods) /\ IsFiniteSet(Tasks)

ASSUME TimesAssumption ==
    /\ Timeout \in Nat /\ LOCK_TTL_BUFFER \in Nat /\ Backoff \in Nat
    /\ Lag \in Nat /\ MaxTime \in Nat
    /\ SuccessRetention \in Nat /\ FailureRetention \in Nat

ASSUME RunsAssumption ==
    /\ TaskMaxRuns \in Nat \ {0}
    /\ RowMaxRuns \in Nat \cup {NULL}
    /\ Cap \in (Nat \ {0}) \cup {NULL}

ASSUME BoundsAssumption ==
    MaxCrashes \in Nat /\ MaxStops \in Nat /\ MaxFaults \in Nat

VARIABLES
    now,        \* the clock
    row,        \* the task table
    pod,        \* "up", "stopping", "cancelled" or "crashed"
    loop,       \* the tick loop of each pod: where it is, the rows left
    job,        \* the in-flight job of each pod and row
    crashes, stops, faults,     \* how often each happened, to bound them
    grants,     \* history: how often each row's lock was granted
    finished    \* history: the rows one of whose execute() calls returned

vars == <<now, row, pod, loop, job, crashes, stops, faults, grants, finished>>

budgets == <<crashes, stops, faults>>

---------------------------------------------------------------------------

\* Mutant: the buffer left out of the TTL.
BareTTL == Timeout

LockTTL == Timeout + LOCK_TTL_BUFFER

Rows == [status : Statuses, owner : Pods \cup {NULL},
         expire_at : Nat \cup {NULL}, run_at : Nat \cup {NULL},
         run_count : Nat, max_runs : {RowMaxRuns}]

\* A job is at most this far: dispatched, in an attempt of execute() or in
\* the sleep after one, or at the store call that its phase names.
Jobs == [phase : {"none", "dispatched", "attempt", "backoff",
                  "record", "release", "delete"},
         attempt : 0..TaskMaxRuns, until : Nat, started_at : Nat,
         outcome : {"none", "success", "failed"}, grant : Nat]

NoJob == [phase |-> "none", attempt |-> 0, until |-> 0, started_at |-> 0,
          outcome |-> "none", grant |-> 0]

\* A job just dispatched with the g-th grant of its row's lock.
NewJob(g) == [phase |-> "dispatched", attempt |-> 0, until |-> now + Lag,
              started_at |-> 0, outcome |-> "none", grant |-> g]

IdleLoop == [pc |-> "idle", todo |-> {}]

\* execute() has been scheduled and has not returned.
Executing == {"dispatched", "attempt", "backoff"}

\* in_flight holds the row until the job's done callback removes it.
InFlight(p, t) == job[p][t].phase # "none"

in_flight_count(p) == Cardinality({t \in Tasks : InFlight(p, t)})

RunningRows == {t \in Tasks : RunningOneshot(row[t], now)}

\* The row the tick loop of p is at: list_pending orders by created_at.
AtRow(p, t) == t \in loop[p].todo /\ \A u \in loop[p].todo : t <= u

\* The rest of the snapshot once the loop is done with row t.
NextRow(p, t) ==
    LET rest == loop[p].todo \ {t}
    IN  [pc |-> IF rest = {} THEN "idle" ELSE "scan", todo |-> rest]

Init ==
    /\ now = 0
    /\ row = [t \in Tasks |->
                 [status |-> "absent", owner |-> NULL, expire_at |-> NULL,
                  run_at |-> NULL, run_count |-> 0, max_runs |-> RowMaxRuns]]
    /\ pod = [p \in Pods |-> "up"]
    /\ loop = [p \in Pods |-> IdleLoop]
    /\ job = [p \in Pods |-> [t \in Tasks |-> NoJob]]
    /\ crashes = 0 /\ stops = 0 /\ faults = 0
    /\ grants = [t \in Tasks |-> 0]
    /\ finished = {}

---------------------------------------------------------------------------
(* The tick loop. *)

\* submit_task without biz_name: INSERT of a pending row.
Submit(t) ==
    /\ row[t].status = "absent"
    /\ \A u \in Tasks : u < t => row[u].status # "absent"
    /\ row' = [row EXCEPT ![t].status = "pending"]
    /\ UNCHANGED <<now, pod, loop, job, budgets, grants, finished>>

\* OneshotRunner.tick up to the result of list_pending_oneshot_tasks.
ListPending(p) ==
    /\ pod[p] = "up" /\ loop[p].pc = "idle"
    /\ LET pending == {t \in Tasks : PendingOneshot(row[t], now)}
       IN  loop' = [loop EXCEPT ![p] =
                      [pc |-> IF pending = {} THEN "idle" ELSE "scan",
                       todo |-> pending]]
    /\ UNCHANGED <<now, row, pod, job, budgets, grants, finished>>

\* Mutant: the row in flight is left to the lock alone.
PassesOverUnlocked(p, t) ==
    \/ <<p, t>> \notin Registered
    \/ Cap # NULL /\ in_flight_count(p) >= Cap

\* The continue statements that precede the first await for a row.
PassesOver(p, t) ==
    \/ <<p, t>> \notin Registered
    \/ InFlight(p, t)
    \/ Cap # NULL /\ in_flight_count(p) >= Cap

PassOver(p, t) ==
    /\ loop[p].pc = "scan" /\ AtRow(p, t)
    /\ PassesOver(p, t)
    /\ loop' = [loop EXCEPT ![p] = NextRow(p, t)]
    /\ UNCHANGED <<now, row, pod, job, budgets, grants, finished>>

\* Mutant: the cluster may be at the cap and still take one more.
CapReachedLate == Cap # NULL /\ Cardinality(RunningRows) > Cap

\* running_counts.get(handler_name, 0) >= cap
CapReached == Cap # NULL /\ Cardinality(RunningRows) >= Cap

\* The cap check: count_running_oneshot_tasks, and past it unless it is full.
CheckCap(p, t) ==
    /\ loop[p].pc = "scan" /\ AtRow(p, t)
    /\ ~PassesOver(p, t)
    /\ loop' = [loop EXCEPT ![p] =
                  IF CapReached THEN NextRow(p, t) ELSE [@ EXCEPT !.pc = "acquire"]]
    /\ UNCHANGED <<now, row, pod, job, budgets, grants, finished>>

\* The lock transaction's effect on the row, where it succeeds.
TakeLock(p, t) ==
    /\ CanAcquire(row[t], now)
    /\ row' = [row EXCEPT ![t] = Acquired(@, p, now, LockTTL)]
    /\ grants' = [grants EXCEPT ![t] = @ + 1]

\* acquire_dynamic_task_lock returned True: create_task, in_flight.
AcquireAndDispatch(p, t) ==
    /\ loop[p].pc = "acquire" /\ AtRow(p, t)
    /\ TakeLock(p, t)
    /\ job' = [job EXCEPT ![p][t] = NewJob(grants[t] + 1)]
    /\ loop' = [loop EXCEPT ![p] = NextRow(p, t)]
    /\ UNCHANGED <<now, pod, budgets, finished>>

\* acquire_dynamic_task_lock returned False.
AcquireRefused(p, t) ==
    /\ loop[p].pc = "acquire" /\ AtRow(p, t)
    /\ ~CanAcquire(row[t], now)
    /\ loop' = [loop EXCEPT ![p] = NextRow(p, t)]
    /\ UNCHANGED <<now, row, pod, job, budgets, grants, finished>>

\* The tick ends early, by an exception or a cancellation.  A transaction
\* that was under way in its thread commits all the same, or never starts.
AbandonTick(p) ==
    /\ loop' = [loop EXCEPT ![p] = IdleLoop]
    /\ \/ UNCHANGED <<row, grants>>
       \/ /\ loop[p].pc = "acquire"
          /\ \E t \in Tasks : AtRow(p, t) /\ TakeLock(p, t)

\* A store call of the tick raises; _run_loop logs it and waits for the next.
TickFault(p) ==
    /\ faults < MaxFaults
    /\ loop[p].pc # "idle"
    /\ AbandonTick(p)
    /\ faults' = faults + 1
    /\ UNCHANGED <<now, pod, job, crashes, stops, finished>>

---------------------------------------------------------------------------
(* The background job: Executor.execute, then _run_one_and_finalize. *)

\* An attempt begins; asyncio.timeout ends it after Timeout at the latest.
StartAttempt(j) ==
    [j EXCEPT !.phase = "attempt", !.attempt = @ + 1, !.until = now + Timeout + Lag]

\* execute() returns its ExecutionResult.
Return(j, outcome) == [j EXCEPT !.phase = "record", !.outcome = outcome]

Begin(p, t) ==
    /\ job[p][t].phase = "dispatched"
    /\ job' = [job EXCEPT ![p][t] = [StartAttempt(@) EXCEPT !.started_at = now]]
    /\ UNCHANGED <<now, row, pod, loop, budgets, grants, finished>>

AttemptSucceeds(p, t) ==
    /\ job[p][t].phase = "attempt"
    /\ job' = [job EXCEPT ![p][t] = Return(@, "success")]
    /\ finished' = finished \cup {t}
    /\ UNCHANGED <<now, row, pod, loop, budgets, grants>>

\* Mutant: one attempt more than max_runs.
LastAttemptLate(j) == j.attempt > TaskMaxRuns

\* Not (attempt < td.max_runs): no backoff and no further attempt.
LastAttempt(j) == j.attempt >= TaskMaxRuns

\* The handler raises or times out, and execute() sleeps before a retry.
AttemptFails(p, t) ==
    /\ job[p][t].phase = "attempt"
    /\ ~LastAttempt(job[p][t])
    /\ job' = [job EXCEPT ![p][t] =
                 [@ EXCEPT !.phase = "backoff", !.until = now + Backoff + Lag]]
    /\ UNCHANGED <<now, row, pod, loop, budgets, grants, finished>>

Retry(p, t) ==
    /\ job[p][t].phase = "backoff"
    /\ job[p][t].until <= now + Lag
    /\ job' = [job EXCEPT ![p][t] = StartAttempt(@)]
    /\ UNCHANGED <<now, row, pod, loop, budgets, grants, finished>>

LastAttemptFails(p, t) ==
    /\ job[p][t].phase = "attempt"
    /\ LastAttempt(job[p][t])
    /\ job' = [job EXCEPT ![p][t] = Return(@, "failed")]
    /\ finished' = finished \cup {t}
    /\ UNCHANGED <<now, row, pod, loop, budgets, grants>>

\* should_delete_successful_oneshot_task, should_delete_failed_oneshot_task
ShouldDelete(j) ==
    IF j.outcome = "success" THEN SuccessRetention = 0 ELSE FailureRetention = 0

\* The job waits for a store call.
AtStoreCall(j) == j.phase \in {"record", "release", "delete"}

\* The row after the store call that ends the current phase of the job.
StoreEffect(p, t) ==
    LET j == job[p][t]
    IN  CASE j.phase = "record"  -> Recorded(row[t], p, j.started_at, j.outcome)
          [] j.phase = "release" -> Released(row[t], p)
          [] j.phase = "delete"  -> Deleted(row[t])

\* What is left of the job once the lock is released, or could not be.
AfterRelease(j) == IF ShouldDelete(j) THEN [j EXCEPT !.phase = "delete"] ELSE NoJob

\* record_dynamic_success or record_dynamic_failure.
Record(p, t) ==
    /\ job[p][t].phase = "record"
    /\ row' = [row EXCEPT ![t] = StoreEffect(p, t)]
    /\ job' = [job EXCEPT ![p][t].phase = "release"]
    /\ UNCHANGED <<now, pod, loop, budgets, grants, finished>>

\* release_dynamic_task_lock in the finally clause.
Release(p, t) ==
    /\ job[p][t].phase = "release"
    /\ row' = [row EXCEPT ![t] = StoreEffect(p, t)]
    /\ job' = [job EXCEPT ![p][t] = AfterRelease(@)]
    /\ UNCHANGED <<now, pod, loop, budgets, grants, finished>>

\* delete_oneshot_task, when the retention of the outcome is 0.
Delete(p, t) ==
    /\ job[p][t].phase = "delete"
    /\ row' = [row EXCEPT ![t] = StoreEffect(p, t)]
    /\ job' = [job EXCEPT ![p][t] = NoJob]
    /\ UNCHANGED <<now, pod, loop, budgets, grants, finished>>

\* Mutant: succeeded starts out True.
UnwindAsSuccess(j) == [j EXCEPT !.phase = "release", !.outcome = "success"]

\* An exception or a cancellation leaves _run_one: succeeded is still False
\* and the finally clause goes on to the release.
Unwind(j) == [j EXCEPT !.phase = "release", !.outcome = "failed"]

\* Where the job goes on when the store call of its phase raised.
AfterFault(j) ==
    CASE j.phase = "record"  -> Unwind(j)
      [] j.phase = "release" -> AfterRelease(j)
      [] j.phase = "delete"  -> NoJob

\* A store call of the job raises.  The transaction may have committed.
JobFault(p, t) ==
    /\ faults < MaxFaults
    /\ faults' = faults + 1
    /\ AtStoreCall(job[p][t])
    /\ job' = [job EXCEPT ![p][t] = AfterFault(@)]
    /\ row' \in {row, [row EXCEPT ![t] = StoreEffect(p, t)]}
    /\ UNCHANGED <<now, pod, loop, crashes, stops, grants, finished>>

---------------------------------------------------------------------------
(* Pods, cleanup and the clock. *)

\* TaskScheduler.stop: the loop task is cancelled, the jobs get their grace.
Stop(p) ==
    /\ stops < MaxStops
    /\ pod[p] = "up"
    /\ pod' = [pod EXCEPT ![p] = "stopping"]
    /\ AbandonTick(p)
    /\ stops' = stops + 1
    /\ UNCHANGED <<now, job, crashes, faults, finished>>

\* runner.shutdown: the grace is over and every job still there is
\* cancelled at once.  CancelledError is no Exception: a job that waited
\* for its release or its delete ends there, any other unwinds to the
\* release.  Store calls under way in threads commit, or never start.
\* (A dispatched job has started by then: it is ahead of the grace's timer.)
GraceExpires(p) ==
    /\ pod[p] = "stopping"
    /\ \E t \in Tasks : InFlight(p, t)
    /\ \A t \in Tasks : job[p][t].phase # "dispatched"
    /\ pod' = [pod EXCEPT ![p] = "cancelled"]
    /\ \E committed \in SUBSET {t \in Tasks : AtStoreCall(job[p][t])} :
          row' = [t \in Tasks |-> IF t \in committed THEN StoreEffect(p, t) ELSE row[t]]
    /\ job' = [job EXCEPT ![p] =
                 [t \in Tasks |->
                    IF job[p][t].phase \in Executing \cup {"record"}
                    THEN Unwind(job[p][t]) ELSE NoJob]]
    /\ UNCHANGED <<now, loop, budgets, grants, finished>>

\* The process dies; its locks stay until they expire.  Crashes are only
\* explored while the clock has room for the locks to expire.
Crash(p) ==
    /\ crashes < MaxCrashes /\ now + LockTTL <= MaxTime
    /\ pod[p] # "crashed"
    /\ pod' = [pod EXCEPT ![p] = "crashed"]
    /\ loop' = [loop EXCEPT ![p] = IdleLoop]
    /\ job' = [job EXCEPT ![p] = [t \in Tasks |-> NoJob]]
    /\ crashes' = crashes + 1
    /\ UNCHANGED <<now, row, stops, faults, grants, finished>>

\* The pod is started again under the same pod_id.
Restart(p) ==
    /\ pod[p] # "up"
    /\ \A t \in Tasks : ~InFlight(p, t)
    /\ pod' = [pod EXCEPT ![p] = "up"]
    /\ UNCHANGED <<now, row, loop, job, budgets, grants, finished>>

\* OneshotRunner.cleanup, called periodically in some pod.
Cleanup ==
    LET expired == {t \in Tasks :
                      ExpiredOneshot(row[t], now, SuccessRetention, FailureRetention)}
    IN  /\ expired # {}
        /\ row' = [t \in Tasks |-> IF t \in expired THEN Deleted(row[t]) ELSE row[t]]
        /\ UNCHANGED <<now, pod, loop, job, budgets, grants, finished>>

\* Time passes, but not past the deadline of a handler that is executing.
Advance ==
    /\ now < MaxTime
    /\ \A p \in Pods, t \in Tasks :
          job[p][t].phase \in Executing => now < job[p][t].until
    /\ now' = now + 1
    /\ UNCHANGED <<row, pod, loop, job, budgets, grants, finished>>

---------------------------------------------------------------------------

LoopStep(p) ==
    \/ ListPending(p) \/ TickFault(p)
    \/ \E t \in Tasks : \/ PassOver(p, t) \/ CheckCap(p, t)
                        \/ AcquireAndDispatch(p, t) \/ AcquireRefused(p, t)

JobStep(p, t) ==
    \/ Begin(p, t) \/ AttemptSucceeds(p, t) \/ AttemptFails(p, t)
    \/ Retry(p, t) \/ LastAttemptFails(p, t)
    \/ Record(p, t) \/ Release(p, t) \/ Delete(p, t)

PodStep(p) == Stop(p) \/ GraceExpires(p) \/ Crash(p) \/ Restart(p)

Next ==
    \/ \E t \in Tasks : Submit(t)
    \/ \E p \in Pods : LoopStep(p) \/ PodStep(p)
    \/ \E p \in Pods, t \in Tasks : JobStep(p, t) \/ JobFault(p, t)
    \/ Cleanup
    \/ Advance

Spec == Init /\ [][Next]_vars

\* Event loops run on, timeouts fire and time passes.
Fairness ==
    /\ WF_vars(Advance)
    /\ \A p \in Pods : WF_vars(LoopStep(p))
    /\ \A p \in Pods, t \in Tasks : WF_vars(JobStep(p, t))

FairSpec == Spec /\ Fairness

---------------------------------------------------------------------------
(* Properties. *)

\* The shape of the state: one row per id, one job per pod and row, and an
\* execute() that never makes more attempts than the task's max_runs.
TypeOK ==
    /\ now \in Nat
    /\ row \in [Tasks -> Rows]
    /\ pod \in [Pods -> {"up", "stopping", "cancelled", "crashed"}]
    /\ loop \in [Pods -> [pc : {"idle", "scan", "acquire"}, todo : SUBSET Tasks]]
    /\ job \in [Pods -> [Tasks -> Jobs]]
    /\ crashes \in Nat /\ stops \in Nat /\ faults \in Nat
    /\ grants \in [Tasks -> Nat]
    /\ finished \subseteq Tasks

\* "The lock ensures that only one pod executes a row at any time"
\* (scheduler.py, TaskScheduler): no two pods are inside execute() for the
\* same row, whatever crashes, faults, shutdowns and stale lists happen.
MutualExclusion ==
    \A p, q \in Pods, t \in Tasks :
        job[p][t].phase \in Executing /\ job[q][t].phase \in Executing => p = q

\* The tick loop never takes the lock of a row that its own pod still has
\* in flight, although it checked in_flight several awaits earlier and the
\* lock of that row may have expired meanwhile.
OneJobPerRow ==
    \A p \in Pods, t \in Tasks :
        loop[p].pc = "acquire" /\ AtRow(p, t) => ~InFlight(p, t)

\* While a row names the pod of a job, the job holds the row's latest grant.
LatestGrantOwns ==
    \A p \in Pods, t \in Tasks :
        InFlight(p, t) /\ row[t].owner = p => job[p][t].grant = grants[t]

\* The owner column fences late jobs: an outcome is recorded in a row, and a
\* lock is given back, only by the job that the lock was last granted to,
\* although jobs go on after their lock expired and went to another pod.
FencedWrites ==
    [][\A t \in Tasks :
         \/ row'[t].run_count # row[t].run_count
         \/ row[t].owner # NULL /\ row'[t].owner = NULL /\ InTable(row'[t])
         => \E p \in Pods : /\ job[p][t].phase \in {"record", "release"}
                            /\ job[p][t].grant = grants[t]]_vars

\* max_concurrency is soft: each pod checks the count and takes the lock in
\* two steps, so the rows that run at once, together with the locks that
\* pods are past the check for, may exceed the cap, but by no more than the
\* number of pods less one.
SoftCap ==
    Cap # NULL =>
        Cardinality(RunningRows) + Cardinality({p \in Pods : loop[p].pc = "acquire"})
            <= Cap + Cardinality(Pods) - 1

\* At-least-once execution: a row leaves the queue, as success, as failed
\* or deleted, only after execute() has returned for it once.  This needs
\* failed rows to be kept for a while: with failure_retention_seconds=0 a
\* job that is cancelled deletes its row.
AtLeastOnce ==
    FailureRetention # 0 =>
        \A t \in Tasks :
            row[t].status \in {"success", "failed", "deleted"} => t \in finished

\* What TaskQueue sees of the table and the jobs.
Queued == {t \in Tasks : row[t].status \in {"pending", "running"}}

Working == {w \in Pods \X Tasks : job[w[1]][w[2]].phase \in Executing}

Contract == INSTANCE TaskQueue WITH queued <- Queued, working <- Working, done <- finished

\* The runner over the SQL store keeps the promise of TaskQueue, as long as
\* attempts fit into their lock (NoOverrun) and failed rows are kept.
KeepsContract == Contract!QueueSpec

\* Crash recovery: every submitted row is eventually run to an outcome
\* although a pod may die at any step, because its lock expires and another
\* pod's tick takes the row over.
EventuallyRuns ==
    \A t \in Tasks : row[t].status = "pending" ~> t \in finished

\* "A row left in a running state becomes eligible again after that TTL"
\* (docs/scheduler.md): a running row always has an expiry to wait for.
RunningRowRecoverable ==
    \A t \in Tasks : row[t].status = "running" => row[t].expire_at # NULL

---------------------------------------------------------------------------
(* Why the lock excludes: the timing argument. *)

\* The longest way from the end of one attempt to the end of the next.
Round == Backoff + Lag + Timeout + Lag

Rounds(n) == n * Round

\* All attempts of an execute(), their backoffs and the delays of the event
\* loop fit into the TTL of the lock.  With one attempt per execute() this
\* says that the buffer is more than twice the lag.
NoOverrun == Lag + Timeout + Lag + Rounds(TaskMaxRuns - 1) < LockTTL

\* When execute() will have returned at the latest.
LatestEnd(j) ==
    j.until + (IF j.phase = "attempt"
               THEN Rounds(TaskMaxRuns - j.attempt)
               ELSE Timeout + Lag + Rounds(TaskMaxRuns - 1 - j.attempt))

\* While a pod executes a row it owns the row's lock, and will be done
\* before the lock expires; unless the row is deleted, and then for good.
LockHeldAt(p, t) ==
    job[p][t].phase \in Executing =>
        /\ now <= job[p][t].until
        /\ row[t].status # "absent"
        /\ InTable(row[t]) => /\ row[t].owner = p
                              /\ row[t].expire_at # NULL
                              /\ LatestEnd(job[p][t]) < row[t].expire_at

LockHeld == \A p \in Pods, t \in Tasks : LockHeldAt(p, t)
=============================================================================
