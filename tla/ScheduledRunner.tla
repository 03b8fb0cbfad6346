-------------------------- MODULE ScheduledRunner --------------------------
(***************************************************************************)
(* Scheduled tasks (scheduler/runner/scheduled.py) over the SQL store, one *)
(* long-lived row per @schedule that the first lock inserts, or over the   *)
(* Redis store, a few keys per @schedule.  A tick decides in Python, from  *)
(* the last run it read, whether the task is due; the lock is taken by a   *)
(* later store call that does not look again.                              *)
(*                                                                         *)
(* Schedules do not interact, so one is modelled.  The inside of           *)
(* Executor.execute is in OneshotRunner; here it is one phase of the job.  *)
(***************************************************************************)
EXTENDS SQLTaskStore, Integers

CONSTANTS
    Pods,           \* scheduler instances, by pod_id
    Stores,         \* the stores to explore: "sql", "redis"
    LockTTL,        \* timeout of the task + LOCK_TTL_BUFFER
    JobTime,        \* most a job takes from its lock to its record
    Cron,           \* TRUE: CronSchedule; FALSE: IntervalSchedule
    Interval,       \* seconds between runs, or between the ticks of the cron
    JitterFor,      \* the jitter of a last run: a hash, so any fixed function
    MaxTime, MaxMishaps       \* bounds of the exploration

ASSUME PodsAssumption == NULL \notin Pods

ASSUME ScheduleAssumption ==
    /\ LockTTL \in Nat \ {0} /\ JobTime \in Nat
    /\ Cron \in BOOLEAN /\ Interval \in Nat \ {0}
    /\ MaxTime \in Nat /\ MaxMishaps \in Nat
    /\ JitterFor \in [0..MaxTime -> Int]
    /\ Stores \subseteq {"sql", "redis"}

VARIABLES
    now,            \* the clock
    store,          \* the store in use; never changes
    row,            \* the row of the task, or its keys
    pod,            \* "up", "stopping", "cancelled" or "crashed"
    loop,           \* tick loop: where it is, and the time it works with
    job,            \* the in-flight job of each pod
    mishaps         \* crashes, shutdowns and store faults so far, to bound them

Redis == INSTANCE RedisTaskStore

vars == <<now, store, row, pod, loop, job, mishaps>>

---------------------------------------------------------------------------

NoJob == [phase |-> "none", until |-> 0, started_at |-> 0, outcome |-> "none"]

IdleLoop == [pc |-> "idle", at |-> 0]

InFlight(p) == job[p].phase # "none"

\* A crash, a shutdown or a store fault.  They are explored while the clock
\* has room for a lock that they leave behind to expire.
Mishap ==
    /\ mishaps < MaxMishaps /\ now + LockTTL <= MaxTime
    /\ mishaps' = mishaps + 1

Init ==
    /\ now = 0
    /\ store \in Stores
    /\ row = [status |-> "absent", owner |-> NULL, expire_at |-> NULL,
              run_at |-> NULL, run_count |-> 0]
    /\ pod = [p \in Pods |-> "up"]
    /\ loop = [p \in Pods |-> IdleLoop]
    /\ job = [p \in Pods |-> NoJob]
    /\ mishaps = 0

---------------------------------------------------------------------------
(* Schedules. *)

\* CronSchedule.next_run at the clock t: the first tick of the cron after
\* the last run, or after the clock itself if there was none.
CronNext(last_run, t) ==
    LET base == IF last_run = NULL THEN t ELSE last_run
    IN  (base \div Interval + 1) * Interval

\* IntervalSchedule.next_run: at once, or an interval after the last run.
IntervalNext(last_run) ==
    IF last_run = NULL THEN 0 ELSE last_run + Interval + JitterFor[last_run]

NextRun(last_run, t) == IF Cron THEN CronNext(last_run, t) ELSE IntervalNext(last_run)

---------------------------------------------------------------------------
(* The tick loop. *)

\* tick takes its time and passes a task over that is in flight here.
StartTick(p) ==
    /\ pod[p] = "up" /\ loop[p].pc = "idle" /\ ~InFlight(p)
    /\ loop' = [loop EXCEPT ![p] = [pc |-> "read", at |-> now]]
    /\ UNCHANGED <<now, store, row, pod, job, mishaps>>

\* What get_last_run returns: run_at of the latest row of the task.
LastRun == row.run_at

\* get_last_run and next_run: the time of the tick decides if it is due.
CheckDue(p) ==
    /\ loop[p].pc = "read"
    /\ loop' = [loop EXCEPT ![p] =
                  IF loop[p].at < NextRun(LastRun, now) THEN IdleLoop
                  ELSE [pc |-> "acquire", at |-> 0]]
    /\ UNCHANGED <<now, store, row, pod, job, mishaps>>

\* The job of a pod whose lock was taken at the time t.
Dispatch(p, t) ==
    /\ job' = [job EXCEPT ![p] = [NoJob EXCEPT !.phase = "dispatched", !.until = t + JobTime]]
    /\ loop' = [loop EXCEPT ![p] = IdleLoop]

\* acquire_lock meets a row, or a key, that it can take.
LockFree == IF store = "sql" THEN CanAcquire(row, now) ELSE ~Redis!Locked(row, now)

Taken(p) ==
    IF store = "sql" THEN Acquired(row, p, now, LockTTL) ELSE Redis!Acquired(row, p, now, LockTTL)

\* The SELECT ... FOR UPDATE of acquire_lock finds a row and takes its lock;
\* the SET NX of the Redis store sets the lock key.
AcquireAndDispatch(p) ==
    /\ loop[p].pc = "acquire"
    /\ LockFree
    /\ row' = Taken(p)
    /\ Dispatch(p, now)
    /\ UNCHANGED <<now, store, pod, mishaps>>

\* The SELECT finds no row.  FOR UPDATE has nothing to lock then, so the INSERT may
\* come after that of another pod.
SelectNoRow(p) ==
    /\ loop[p].pc = "acquire"
    /\ store = "sql" /\ ~InTable(row)
    /\ loop' = [loop EXCEPT ![p] = [pc |-> "insert", at |-> now]]
    /\ UNCHANGED <<now, store, row, pod, job, mishaps>>

\* The row that the INSERT of acquire_lock writes at its time t.
Inserted(r, p, t) == Acquired(r, p, t, LockTTL)

\* Mutant: an INSERT ... ON CONFLICT UPDATE, which takes the lock anyway.
AlwaysUpserts == TRUE

\* The unique key on (task_name, biz_name) lets only the first INSERT in.
UniqueKeyFree == ~InTable(row)

\* The INSERT of the first lock takes effect.
InsertAndDispatch(p) ==
    /\ loop[p].pc = "insert"
    /\ UniqueKeyFree
    /\ row' = Inserted(row, p, loop[p].at)
    /\ Dispatch(p, loop[p].at)
    /\ UNCHANGED <<now, store, pod, mishaps>>

\* The lock is held, or the INSERT meets the unique key: acquire_lock
\* returns False.
AcquireRefused(p) ==
    /\ \/ loop[p].pc = "acquire" /\ (store = "sql" => InTable(row)) /\ ~LockFree
       \/ loop[p].pc = "insert" /\ ~UniqueKeyFree
    /\ loop' = [loop EXCEPT ![p] = IdleLoop]
    /\ UNCHANGED <<now, store, row, pod, job, mishaps>>

\* The tick ends early, by an exception or a cancellation.  A lock
\* transaction under way in its thread commits all the same, or never starts.
AbandonTick(p) ==
    /\ loop' = [loop EXCEPT ![p] = IdleLoop]
    /\ \/ row' = row
       \/ /\ loop[p].pc = "acquire" /\ (LockFree \/ (store = "sql" /\ ~InTable(row)))
          /\ row' = Taken(p)
       \/ /\ loop[p].pc = "insert" /\ UniqueKeyFree
          /\ row' = Inserted(row, p, loop[p].at)

\* A store call of the tick raises; _run_loop logs it.
TickFault(p) ==
    /\ Mishap
    /\ loop[p].pc # "idle"
    /\ AbandonTick(p)
    /\ UNCHANGED <<now, store, pod, job>>

---------------------------------------------------------------------------
(* The background job. *)

\* execute() takes its started_at and calls the handler.
Begin(p) ==
    /\ job[p].phase = "dispatched"
    /\ job' = [job EXCEPT ![p].phase = "executing", ![p].started_at = now]
    /\ UNCHANGED <<now, store, row, pod, loop, mishaps>>

\* execute() returns an ExecutionResult.
Finish(p) ==
    /\ job[p].phase = "executing"
    /\ \E outcome \in {"success", "failed"} :
          job' = [job EXCEPT ![p].phase = "record", ![p].outcome = outcome]
    /\ UNCHANGED <<now, store, row, pod, loop, mishaps>>

\* record_success or record_failure: WHERE ... AND owner = :owner in the SQL
\* store, no comparison in the Redis store.
CommitRecord(p) ==
    row' = IF store = "sql" THEN Recorded(row, p, job[p].started_at, job[p].outcome)
           ELSE Redis!Recorded(row, job[p].started_at, job[p].outcome)

Record(p) ==
    /\ job[p].phase = "record"
    /\ CommitRecord(p)
    /\ job' = [job EXCEPT ![p].phase = "release"]
    /\ UNCHANGED <<now, store, pod, loop, mishaps>>

\* release_lock: both stores release the lock only if the pod owns it.
CommitRelease(p) ==
    row' = IF store = "sql" THEN Released(row, p) ELSE Redis!Released(row, p, now)

Release(p) ==
    /\ job[p].phase = "release"
    /\ CommitRelease(p)
    /\ job' = [job EXCEPT ![p] = NoJob]
    /\ UNCHANGED <<now, store, pod, loop, mishaps>>

\* An exception or a cancellation: the finally clause of the job releases
\* the lock, and nothing follows a release that was itself cut short.
Unwind(j) == IF j.phase = "release" THEN NoJob ELSE [j EXCEPT !.phase = "release"]

\* The store call under way in its thread committed, or never started.
MaybeStored(p) ==
    \/ row' = row
    \/ job[p].phase = "record" /\ CommitRecord(p)
    \/ job[p].phase = "release" /\ CommitRelease(p)

\* A store call of the job raises.
JobFault(p) ==
    /\ Mishap
    /\ job[p].phase \in {"record", "release"}
    /\ job' = [job EXCEPT ![p] = Unwind(@)]
    /\ MaybeStored(p)
    /\ UNCHANGED <<now, store, pod, loop>>

---------------------------------------------------------------------------
(* Pods and the clock. *)

\* TaskScheduler.stop: the tick is cancelled, the job gets its grace.
Stop(p) ==
    /\ Mishap
    /\ pod[p] = "up"
    /\ pod' = [pod EXCEPT ![p] = "stopping"]
    /\ AbandonTick(p)
    /\ UNCHANGED <<now, store, job>>

\* runner.shutdown after the grace: a job that executes or records unwinds
\* to its release, one that releases ends there.
GraceExpires(p) ==
    /\ pod[p] = "stopping"
    /\ job[p].phase \in {"executing", "record", "release"}
    /\ pod' = [pod EXCEPT ![p] = "cancelled"]
    /\ job' = [job EXCEPT ![p] = Unwind(@)]
    /\ MaybeStored(p)
    /\ UNCHANGED <<now, store, loop, mishaps>>

\* The process dies.
Crash(p) ==
    /\ Mishap
    /\ pod[p] # "crashed"
    /\ pod' = [pod EXCEPT ![p] = "crashed"]
    /\ loop' = [loop EXCEPT ![p] = IdleLoop]
    /\ job' = [job EXCEPT ![p] = NoJob]
    /\ UNCHANGED <<now, store, row>>

Restart(p) ==
    /\ pod[p] # "up" /\ ~InFlight(p)
    /\ pod' = [pod EXCEPT ![p] = "up"]
    /\ UNCHANGED <<now, store, row, loop, job, mishaps>>

\* Time passes, but no job and no INSERT gets past the bound on its lock.
Advance ==
    /\ now < MaxTime
    /\ \A p \in Pods :
          /\ job[p].phase \in {"dispatched", "executing", "record"} => now < job[p].until
          /\ loop[p].pc = "insert" => now < loop[p].at + JobTime
    /\ now' = now + 1
    /\ UNCHANGED <<store, row, pod, loop, job, mishaps>>

---------------------------------------------------------------------------

AcquireStep(p) ==
    \/ AcquireAndDispatch(p) \/ SelectNoRow(p) \/ InsertAndDispatch(p) \/ AcquireRefused(p)

LoopStep(p) == StartTick(p) \/ CheckDue(p) \/ AcquireStep(p)

JobStep(p) == Begin(p) \/ Finish(p) \/ Record(p) \/ Release(p)

PodStep(p) == Stop(p) \/ GraceExpires(p) \/ Crash(p) \/ Restart(p)

Next ==
    \/ \E p \in Pods : LoopStep(p) \/ JobStep(p) \/ PodStep(p)
                     \/ TickFault(p) \/ JobFault(p)
    \/ Advance

Spec == Init /\ [][Next]_vars

\* Event loops run on, handlers time out and time passes.
Fairness ==
    /\ WF_vars(Advance)
    /\ \A p \in Pods : WF_vars(LoopStep(p)) /\ WF_vars(JobStep(p))

FairSpec == Spec /\ Fairness

---------------------------------------------------------------------------
(* Properties. *)

Rows == [status : Statuses \ {"pending", "deleted"}, owner : Pods \cup {NULL},
         expire_at : Nat \cup {NULL}, run_at : Nat \cup {NULL}, run_count : Nat]

Jobs == [phase : {"none", "dispatched", "executing", "record", "release"},
         until : Nat, started_at : Nat, outcome : {"none", "success", "failed"}]

\* The shape of the state.  A scheduled row is never pending
\* (scheduled.py), and a lock always has an expiry.
TypeOK ==
    /\ now \in Nat
    /\ store \in Stores
    /\ row \in Rows
    /\ row.owner # NULL => row.expire_at # NULL
    /\ pod \in [Pods -> {"up", "stopping", "cancelled", "crashed"}]
    /\ loop \in [Pods -> [pc : {"idle", "read", "acquire", "insert"}, at : Nat]]
    /\ job \in [Pods -> Jobs]
    /\ mishaps \in Nat

\* The handler of p may be running, or is about to be called.
Executing(p) == job[p].phase \in {"dispatched", "executing"}

\* One pod at a time executes the task (scheduler.py), the pods that race
\* for the first INSERT included.
OnePodRuns == \A p, q \in Pods : Executing(p) /\ Executing(q) => p = q

\* The task does not come to a halt: as long as some pod is up, what is due
\* by the end of the exploration is run, although pods may die or be shut
\* down at any step and store calls may raise.  A run that fails counts as a
\* run, though it is no last run in the Redis store, which runs it again.
KeepsRunning ==
    \A t \in {NULL} \cup {u \in 0..MaxTime : NextRun(u, u) <= MaxTime} :
        row.run_at = t ~> \/ row.run_at # t
                          \/ \A p \in Pods : pod[p] # "up"
                          \/ store = "redis" /\ \E p \in Pods : job[p].outcome = "failed"

\* The last run never goes back, whatever the order in which jobs, faults and
\* shutdowns of different pods reach the store: a task is not due again
\* because an older run was recorded over a newer one.
LastRunAdvances ==
    [][row.run_at # NULL => row'.run_at # NULL /\ row'.run_at >= row.run_at]_vars
=============================================================================
