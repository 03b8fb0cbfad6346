# A TLA+ model of python-stdx

python-stdx is a library of asyncio building blocks.  Its own logic is in three
places: a **distributed task scheduler**, whose pods coordinate through a shared
task table or through keys in Redis, three **caches**, two of which coordinate
callers through Redis, and a **Redis client** with a lifetime of its own.  This
directory models them: specifications, instances for TLC, and proofs for TLAPS.

Paths below are relative to `src/src/python_stdx/` unless they begin with `docs/`.

## 1. Inventory

| component | state | operations | what makes it hard | what makes it correct |
|---|---|---|---|---|
| SQL task store (`scheduler/store/sqlalchemy.py`) | the task table: status, owner, expiry, run times, requests | one transaction per method: lock, release, record, list, count, submit, delete, clean up | callers use what one transaction returned in a later one | fenced writes; an expired lock can be taken over, a held one cannot |
| Oneshot runner (`scheduler/runner/oneshot.py`, `base.py`) | per pod: tick loop, jobs in flight | tick, cap check, lock, dispatch, execute, record, release, delete, cleanup | pods race for rows; retries outlive locks; shutdown cuts a job between two transactions | one execution at a time, at least one, a soft cap |
| Triggered runner (`scheduler/runner/triggered.py`) | the same, over one long-lived row per business key | submit (merges requests), tick, run | a submission may fall anywhere between the steps of a run | no request is lost |
| Scheduled runner, schedules (`scheduler/runner/scheduled.py`, `scheduler/schedule.py`) | one row per `@schedule` | due check, first INSERT, lock, run | due is decided from a read that precedes the lock; the first row does not exist yet | one pod at a time; the task does not come to a halt |
| Executor (`scheduler/executor.py`) | attempt counter | attempts with timeout and backoff | total time against the lock's TTL | attempts bounded by `max_runs` |
| Scheduler loop and lifecycle (`scheduler/scheduler.py`) | loop task, runners | start, stop with grace, tick with fault handling | cancellation while a store call is in its thread | what is abandoned can be recovered |
| Decorators and registry (`scheduler/decorator.py`) | definitions by name | `@task`, `@schedule`, `@trigger`, `@oneshot` | checks depend on the order of the decorators | one submission mode per task |
| Redis loading cache (`cache/loading/redis.py`) | value key, lease key | `get`, `set`, `get_or_load` | lease expiry, lost replies, cancellation, a `set` during a load | single flight, fenced owners, bounded waits |
| Redis tagged cache (`cache/tagged/redis.py`) | entries, generations | `get`, `set`, `delete`, `invalidate_tag`, `clear` | generations are read one command at a time | a hit is valid; nothing invalidated comes back |
| Memory tagged cache (`cache/tagged/memory.py`) | TTLCache and two tag maps | the same | the TTLCache drops or keeps expired entries without telling the maps | the maps stay inverse, and exact for what a get finds |
| Redis task store (`scheduler/store/redis.py`) | lock keys, the pending set, `last_run` keys | the store's methods, one or two commands each | look-up and add are two commands; a lock says nothing about the task; records are not fenced | one execution at a time; a task leaves the set only when it was run; the last run never goes back |
| Namespaced store (`scheduler/store/namespaced.py`) | a prefix | prefixes every name, filters what it lists | environments share ids, locks and one set or table | no pod and no prefixed cleanup touches another environment's tasks |
| Redis client lifetime (`redis/_lifetime.py`, `_client.py`, `_protocols.py`) | `closed`, permits, tasks inside operations, open resources | commands, pipelines, subscriptions, monitors, `aclose` | an error or a cancellation at every await; close races with everything | permits exact; close finds what is open, waits for whom it cancelled, and ends |
| Redis connector and backends (`redis/_connector.py`, `_backend.py`) | `_connected`, a lock, native clients | `connect`, `ready`, `protocol_pool`, `aclose` | a failed `connect` closes clients that others use | nothing is opened after close |
| Watchdog, stream scope (`asyncio/`) | thread and stop event; a stream to close | start/stop; drain/close | two threads; cancellation during the close | not modelled yet |
| Redis commands and transport, Database, text/iterables/mappings | – | wrappers and pure helpers | – | not modelled (section 8) |

Interactions.  Pods never talk to each other: everything goes through the store.
Inside a pod, the tick loop and the jobs share `in_flight` and one event loop, so
they interleave at every `await`.  A store call runs in a thread (`to_thread`), so
cancelling the waiter does not cancel the transaction.  Callers of the Redis caches
share only the keys in Redis.  The tasks that use one Redis client share its
`Lifetime`, and interleave at every `await` as well.

`PROJECT.json` lists the hazards with the line at which each bites, and the
properties that would catch it.

## 2. Modules

```
TaskQueue            the contract of oneshot tasks over either store
SQLTaskStore         the task table, one operator per transaction
  OneshotRunner      implements TaskQueue   MCOneshot     OneshotProofs
  TriggeredRunner                           MCTriggered   TriggeredProofs
  ScheduledRunner    over either store      MCScheduled   ScheduledProofs
RedisTaskStore       the keys of a scheduled task, one operator per command
  (instantiated by ScheduledRunner)
OneshotSubmit        submissions, namespaces, deduplication
  RedisQueue         implements TaskQueue   MCRedisQueue  RedisQueueProofs
RedisLifetime        the Redis client       MCLifetime    LifetimeProofs
TaskRegistry                                MCRegistry    (in TriggeredProofs)
LoadingCache                                MCLoading     LoadingProofs
TaggedCache          the contract of both tagged caches
  RedisTaggedCache   implements it          MCTagged      TaggedProofs
  MemoryTaggedCache  implements it          MCTaggedMemory TaggedMemoryProofs
```

**SQLTaskStore** has no variables.  A row is a record, and every store method an
operator from the row before the transaction to the row after it (`Acquired`,
`Recorded`, `Released`, `Submitted`, `Deleted`) or a WHERE clause (`PendingOneshot`,
`RunningOneshot`, `PendingTriggered`, `ExpiredOneshot`).  SQL's NULL is a model value
that compares as not true: the finding on stranded rows depends on it.

**TaskQueue** is the contract of oneshot tasks: a task is executed by one pod at a
time, stays in the queue until an execution of it is done with, and is left to others
if its pod ends.  It promises no order and not exactly one execution.  Both queues
implement it, with `Queued` (the rows that are pending or running; the members of the
Redis set), `Working` (the jobs that execute) and the tasks an execution of which has
returned; over Redis a task that a shutdown cut off counts as done with, because the
store removes it.

**OneshotRunner** has any number of pods and rows.  `loop` is the tick loop, with the
snapshot that `list_pending_oneshot_tasks` returned; `job` the background job of a
pod and a row.  The actions follow the awaits: `ListPending`; per row `PassOver`
(continue before any await), `CheckCap`, `AcquireAndDispatch` or `AcquireRefused`;
per job `Begin`, the attempts (`AttemptSucceeds`, `AttemptFails`, `Retry`,
`LastAttemptFails`), `Record`, `Release`, `Delete`.  `TickFault` and `JobFault` are
store calls that raise (their transaction committed or did not).  `Stop` cancels the
loop, `GraceExpires` cancels the jobs, `Crash` kills the pod, `Restart` starts it
again under the same `pod_id`.  `Cleanup` deletes what retention allows.  `grants`
and `finished` are history.

**TriggeredRunner** and **ScheduledRunner** have the same pods and jobs with
`execute()` as a single phase, and one row, since rows do not interact there.
`Submit` merges requests and applies the cooldown.  In ScheduledRunner `CheckDue`
decides from the last run, and the first lock is the pair `SelectNoRow`,
`InsertAndDispatch`, since `FOR UPDATE` locks nothing while there is no row.  The
jitter is a hash of the last run, hence any fixed function `JitterFor`.  Crashes,
shutdowns and store faults share one budget, `MaxMishaps`.  The variable `store` of
ScheduledRunner, fixed by `Init`, chooses between **SQLTaskStore** and
**RedisTaskStore**, whose `Recorded` compares no owner and leaves the last run alone
after a failure.

**OneshotSubmit** is `OneshotRunner.submit` over the namespaced store over either
store.  A submission with a `biz_name` looks for the task (`get`), looks again inside
the store (`get_again`), adds it, and in the SQL store looks a third time if the
unique key refused the row (`get_conflict`); each is a step.  Names are sequences of
tokens, because a namespace is a prefix of the stored name.

**RedisQueue** puts the pods beside it.  A task of the Redis store is a member of one
set and has no status; its lock is a key of its own.  The actions follow the awaits
of `tick` and `_run_one_and_finalize`: `ListPending`, `PassOver`, `Dispatch`,
`ExecuteAndRecord`, `Release`, `RemoveMember`, with `TickFault`, `JobFault`, `Stop`,
`GraceExpires`, `Crash` and `Restart` as in OneshotRunner.  There is no clock: a lock
key may `Expire` whenever its job does not execute.  With the SQL store only
submissions and cleanups (`RemoveRow`) happen, since OneshotRunner has its pods.

**RedisLifetime** has the tasks of one event loop as actors.  `run[t]` is the await
task t is suspended in, on which object, in which method, and the exception it has in
hand; what the code does between two awaits is one step.  An await ends with a
result, an error, or, once the task was cancelled, with its `CancelledError`; the
error paths of the code (`except BaseException`, `finally`) follow from there.  The
calls of `aclose()` that `_close` gathers are agents named after their handles.
`closer` is `_close_task` with the tasks it waits for.

**TaskRegistry** applies the decorators in any order to any functions.  A decorator
that raises changes nothing, so only the successful applications are actions.

**LoadingCache** has one key (keys do not interact) and any number of callers.  The
four Lua scripts are operators with their names in the code; a step of `get_or_load`
is one Redis command or the loader.  `CommandFails`, `Cancel` and `Crash` happen at
every await, with or without the script's effect (`MaybeEffect`).  The tokens
(uuids in the code) are the numbers of the grants.

**TaggedCache** is the contract: a key has what its latest set wrote, or nothing; a
cache may lose entries at any time, must lose those an invalidation names, and
nothing comes back without a set.  **RedisTaggedCache** takes one step per Redis
command.  **MemoryTaggedCache** takes one step per method, in which the external
TTLCache may expire entries between the code's own calls.  In `set` that is between
`_expire`, `in`, `len`, `popitem` and the assignment (`SetRaises` is the KeyError of
`popitem` on a cache that just became empty).  In `delete` and `invalidate_tag` it is
between `_expire` and `pop` (`ExpireAndPop`): a key that is over before its pop is
absent to it, so that its bindings go and its entry stays, expired, until the next
`_expire`.  `DeleteRaises` and `InvalidateRaises` are a `pop(key, None)` that raises
because the key expires inside it.  As far as we know cachetools holds its clock still
for the length of a `pop`, so that it does not; but that is the library's affair, and
nothing here rests on it.

## 3. Assumptions

* The clocks of the pods agree: the store compares the timestamps of different pods.
* A store method is one atomic transaction.  If its caller is cancelled it commits or
  never starts.
* A handler ends, by itself or by its timeout, within the bound of its phase;
  `Lag` is the most an event loop is late for what is due.
* "Executing" includes a job that is dispatched and has not called its handler.
* A pod restarts only when none of its jobs is in flight.
* In TriggeredRunner a submission and the start of a run have distinct timestamps:
  the code compares them strictly and a tie would count as covered.  `Submit` and
  `Begin` therefore take the clock with them; `Begin` may do so one tick past a bound.
* Redis does not evict keys; generation keys have no TTL.
* In RedisQueue a lock key does not expire while its job executes (the TTL exceeds one
  attempt by `LOCK_TTL_BUFFER`), and a cleanup may delete an SQL row at any time,
  which is more than retention allows.
* Environments store their handlers under different names (`NamespacesAssumption`), and
  no prefix is a prefix of what another environment stores (`PrefixesAssumption`,
  for the cleanup only).  The code checks neither.
* A monitor and a pipeline are used by one task, their `Owner`, and by close.  Two
  tasks that enter one monitor at once both take a permit, and one is lost
  (`redis/_protocols.py:130`).
* An application task that close cancelled ends once its `CancelledError`, or an error
  of the closed client, has passed through its finally clauses; it does not start
  another call.
* Crashes, shutdowns and faults that can leave a lock behind are only explored while
  the bounded clock has room for the lock to expire: without this every liveness
  property would fail at the end of the clock and nowhere else.

## 4. Runs

`tlc -config <run>.cfg <module>`.  The bounds are named constants of the cfg.

| run | module | properties | result |
|---|---|---|---|
| OneshotLock | MCOneshot | `TypeOK`, `MutualExclusion`, `AtLeastOnce`, `OneJobPerRow`, `FencedWrites`, `KeepsContract` | hold |
| OneshotRecovery | MCOneshot | `SoftCap`, `EventuallyRuns` | hold |
| OneshotShutdown | MCOneshot | `RunningRowRecoverable` | violated (finding 1) |
| TriggeredRequests | MCTriggered | `TypeOK`, `NoLostRequest`, `RunAtMonotone`, `EventuallyCovered` | hold |
| ScheduledRuns | MCScheduled | `OnePodRuns`, `KeepsRunning`, `LastRunAdvances` | hold |
| ScheduledCron | MCScheduled | `KeepsRunning` | violated (finding 2) |
| RedisQueue | MCRedisQueue | `TypeOK`, `Isolated`, `KeepsContract`, `Deduplicated`, `EventuallyRuns` | hold |
| RedisLifetime | MCLifetime | `TypeOK`, `PermitsExact`, `Barrier`, `CloseEnds` | hold |
| LoadingLease | MCLoading | `TypeOK`, `SingleLoader`, `LoadedOnce`, `BoundedWait`, `TimeoutAfterHandover`, `NoStaleLoad`, `SupersededIsHarmless` | hold |
| TaggedRedis | MCTagged | `TypeOK`, `HitIsCurrent`, `KeepsContract` | hold |
| TaggedMemory | MCTaggedMemory | `TypeOK`, `SizeBounded`, `IndexExact`, `KeepsContract` | hold |
| RegistryModes | MCRegistry | `WellFormed`, `OneSubmissionMode` | hold |

Why the bounds are enough.

* *Oneshot.*  Two pods are needed for every race and a third adds none: a lock has an
  owner and others.  OneshotLock has two attempts with a backoff between them, a lock
  that expires within the clock with room for a second run after a crash, and one
  crash, one shutdown and one store fault; a lock left by an abandoned tick or a lost
  release expires under jobs that are past their execution, which are then fenced.
  Jobs that execute past their lock are left to the proof of `LateJobsAreFenced`.
  OneshotRecovery has two rows and a cap of 1, so that a dead pod's row occupies the
  cap until its lock expires, and both pods can pass the check before either locks.
* *Triggered.*  Two submissions, jobs longer than locks, two mishaps of any kind, and
  a cooldown that delays a request while a run is under way.
* *Scheduled.*  Two pods that race for the first INSERT, a clock with room for a
  second run, a jitter that moves runs both ways, two mishaps of any kind, both stores.
* *RedisQueue.*  Two submissions suffice for a duplicate, two pods for a stale list and
  a stale release, two environments, one with the empty prefix, for isolation, one
  mishap of any kind for a lock that is left behind.
* *RedisLifetime.*  Two tasks, one of which closes; one handle of each kind; two permits
  for three kinds of callers, so that the pool is exhausted.  Three tasks exceed what
  TLC can explore in minutes.
* *Loading.*  Three callers (an owner, a successor, a waiter), a lease that can
  expire after a crash, a set, one fault.  The overrun of a lease is left to the
  proofs; here an owner loses its lease because a reply was lost.
* *Tagged.*  Two callers, two tags, two writes and an invalidation; in memory three
  keys for two places.

Symmetry over pods, callers, keys and tags is used where only safety is checked;
runs with a liveness property have none.  Deadlock is checked except where everything
may end: calls of `get_or_load`, imports, submissions, and a closed client.

Each property of a passing run has a mutant (an operator marked "Mutant" before the
one it replaces): a plausible slip in the code that makes TLC find a violation.

### Fairness

`FairSpec` has weak fairness of `Advance` (time passes), of the tick loop of each pod
and of each job.  The code justifies this: `_run_loop` catches every exception of a
tick and goes on, a handler runs under `asyncio.timeout`, and store calls return or
raise.  No fairness of `Restart`, of submissions or of mishaps is assumed: a pod that
died may stay dead, and the properties ask for progress only while some pod is up.
Each pod's loop keeps ticking as long as it is up, which matters: `EventuallyRuns`
rests on the other pod's tick.  RedisQueue has the same fairness, with the expiry of
lock keys in the place of the clock.

RedisLifetime assumes that a task goes on when its lock is free, its timeout has run
out or its `CancelledError` is due, and that `_close` goes on.  It assumes nothing of
an await on the server that nobody cancelled: `BLPOP key 0` and `next_command` may
block for ever, and `CloseEnds` must hold all the same.

### Properties with conditions

* `MutualExclusion` holds under `NoOverrun`: all attempts, backoffs and lags of an
  `execute()` fit into `timeout + LOCK_TTL_BUFFER`.  For one attempt this says the
  buffer is more than twice the lag.  A task with `max_runs > 1` easily breaks it:
  the example at `scheduler/decorator.py:163` (timeout 180, three attempts) has locks
  of 240 seconds for 540 seconds of attempts.
* `AtLeastOnce` needs `failure_retention_seconds` other than 0: with 0, a job that is
  cancelled at shutdown deletes its row.
* `EventuallyCovered` excepts rows that were stranded (finding 1) and clusters in
  which no pod comes up again.
* `KeepsContract` of OneshotRunner holds under `NoOverrun` and with a
  `failure_retention_seconds` other than 0: it says what `MutualExclusion` and
  `AtLeastOnce` say, and that nothing else changes the queue.
* `KeepsContract` of RedisQueue lets a task leave that executes when its pod is shut
  down: its job counts as failed, and the Redis store removes failed tasks
  (`store/redis.py:305`).
* `Deduplicated` speaks of a task that was in the store when the submission began; of
  two submissions that race it says nothing (section 5).
* `OnePodRuns` needs jobs that end within their lock (`JobTime < LockTTL`), and so does
  `LastRunAdvances` if the store is Redis: a run that outlived its lock could set the
  last run back there, as `record_success` compares no owner.
* `CloseEnds` excepts the state `SelfWait` (section 5).
* `TimeoutAfterHandover` needs `wait_timeout >= lease_ttl`, `NoStaleLoad` needs
  `ttl >= lease_ttl`.

## 5. Findings

1. **A cancelled job strands its row** (`OneshotShutdown`).  A job that is cancelled
   at shutdown, or whose record raised, releases its lock in its finally clause: owner
   and expiry become NULL and the status stays `running`.  The list takes a running
   row only if `expire_at <= now`, which NULL never satisfies, so nobody runs it again.
   `docs/scheduler.md:55` says such a row "becomes eligible again after that TTL".
   Triggered rows share this (`Stranded` in TriggeredRunner).  It lasts: once no list
   and no job of a pod holds such a row, it stays as it is for ever (`AbandonedForGood`),
   and a triggered one whatever is submitted to it (`StrandedForGood`).
2. **A cron task never has its first run** (`ScheduledCron`).  Without a last run,
   `CronSchedule.next_run` counts from the clock and returns a time after it, hence
   after the time the tick compares it with.  The row stays absent in every state, for
   any number of pods and in either store (`CronNeverStarts`).
   `schedule.py:40` describes this trap for IntervalSchedule, which avoids it.

Other places where the code allows more than a comment suggests.  The models have the
steps that lead there, but no run states a property about them:

* a task that close cancelled and that calls `aclose()` on its way out, from a finally
  clause or by leaving `async with connector`, waits for the close that waits for it
  (`redis/_lifetime.py:62`, `:70`): neither ever ends, while `docs/redis.md:62` calls
  closing "terminal and idempotent"; only somebody's further cancellation of that task
  ends the deadlock (`SelfWaitLasts`);
* a Redis task is run again by a pod that listed it before another pod ran and removed
  it (`store/redis.py:50`);
* two submissions with one `biz_name` may both look before either adds, and both add a
  Redis task (`store/redis.py:193`), while `store/base.py:140` says that a unique index
  on name and biz_name backs every submission;
* a submission raises `IntegrityError` if the row that refused its INSERT is deleted, by
  the job that ran it or by a cleanup, before the second look-up
  (`store/sqlalchemy.py:621`), while `store/base.py:142` says that it does not raise;
* `@schedule` above `@trigger` or `@oneshot` gives a task two modes, while the reverse
  order raises: `schedule` (`decorator.py:126`) looks at no other mode, although the
  comment at `decorator.py:180` and the docstring at
  `tests/scheduler/test_scheduler.py:873` rule both modes out;
* a scheduled run that failed is due again at the next tick if the store is Redis
  (`store/redis.py:116`), and an interval later if it is SQL;
* the cleanup of an environment without a prefix deletes the rows of every environment
  by its own retention (`store/sqlalchemy.py:1039`);
* a tick that listed a row before another pod finished it takes its free lock and runs
  it once more than `max_runs` (`sqlalchemy.py:272` looks at the lock only);
* a scheduled tick whose read of the last run precedes another pod's run starts the
  task again right after that run (`runner/scheduled.py:56`);
* a request that arrives during a run is dated by the run before it, so two starts may
  be closer than `cooldown_seconds` (`sqlalchemy.py:807`);
* a triggered run uses the params of the list, and covers a submission made between
  the list and its start (`runner/triggered.py:57`; params are not modelled yet);
* a caller of `get_or_load` that is cancelled at its second get leaves its lease to
  expire (`cache/loading/redis.py:144`; `docs/cache.md:27`);
* an entry of the in-process cache that expires inside `delete` or `invalidate_tag` stays
  in `_cache` until the next `_expire`, and one that expires inside `set` leaves its
  bindings in the tag maps until its key is set or deleted or one of its tags is
  invalidated (`cache/tagged/memory.py:31`, `:46`, `:52`); no get finds either.

## 6. Proofs

All proofs are for every value of the constants under the ASSUMEs of the modules:
times and bounds are naturals, NULL and NONE are not among the names, ids and pods,
the pods, rows, tasks and handles that are counted (`SoftCap`, `PermitsExact`) are
finite, and the assumptions on namespaces of section 3.  A timing assumption is a
hypothesis of the theorem that needs it.

**OneshotProofs.**
`TypeCorrect`: `Spec => []TypeOK`.
`OnePodExecutes`: `NoOverrun` implies `Spec => []MutualExclusion`.  Exclusion is not
inductive; the strengthening `LockHeld` says that a pod that executes a row owns its
lock and that the latest end of its `execute()` (`LatestEnd`, a sum over the attempts
left) precedes the lock's expiry.  Every job step may only move that end forward
(`EndNotLater`); a new grant needs a free or expired lock, and then nobody else
executes (`FreeLock`).
`NoSecondJob`, `OwnerIsNewest` and `LateJobsAreFenced`: `OneJobPerRow`,
`LatestGrantOwns` and `FencedWrites` without any timing assumption.  The first two
are inductive together: a row that names a pod names the pod's newest job, because a
tick never takes the lock of a row its own pod has in flight; the third follows.
`RowsLeaveAfterRunning`: `AtLeastOnce`.  It is not enough to speak of the rows that
have left: `RanInv` adds the jobs that may yet take a row out (about to record, to
delete, or to release after a success).
`CapIsSoft`: `SoftCap`.  It is inductive as stated because it counts the pods that are
past their check (`PastCheck`) with the rows that run: the check adds a pod only
when fewer rows run than the cap allows, and the lock turns that pod into one row.
`SQLKeepsContract`: `KeepsContract`, the refinement of TaskQueue, under the hypotheses
of exclusion and of `AtLeastOnce`.  It rests on the invariants of both: a start needs
that nobody else executes (the lock step is where `FreeLock` gives it), and a row that
stops being pending or running needs an execution behind it (`RanInv`).  Each action is
one action of the contract or a stutter.
`AbandonedForGood`: `Abandoned(t)` (running, no owner, no expiry, in no list and no job)
is stable.  Only a list, a job or the cleanup leads to a transaction on a row; no list
takes a running row without an expiry, and the cleanup takes none that runs.

**TriggeredProofs.**  No timing assumption: jobs may outlive their locks.
`TypeCorrect`; `RequestNeverLost`: `NoLostRequest`; `RunAtNeverBack`: `RunAtMonotone`.
`TriggerInv` says that the latest request is in the row and not dated before its
submission (`RequestInRow`), that starts and submissions are different times, all past
(`TimesApart`), and that the job of the row's owner started no earlier than the last
run recorded (`OwnerNewest`).  Without the last a late job could put an old start into
`run_at` and reopen, or hide, a request.
`StrandedForGood`: the same as `AbandonedForGood`, with the start of the last run fixed:
submissions still merge into the row, but no run follows.
The module also proves TaskRegistry.  `RegistryResolves`: `WellFormed`;
`ModesExclude`: `OneSubmissionMode`.  Neither is inductive as it stands: `ModesApart`
says that each list of definitions has no name twice and that no name is in both, and
the injectivity of their concatenation follows (`ConcatInjective`).  `TaskOf` takes the
first definition of a function, and that there is a first one is the well-foundedness
of the naturals.

**ScheduledProofs.**  `TypeCorrect` for both stores.
`OnePodAtATime`: `JobTime < LockTTL` implies `OnePodRuns`.  `LockHeld`: the pod of a job
that has not recorded owns the lock, which outlasts the job, and over SQL the row
exists.  The last part is what the race for the first INSERT needs: while a job works
the unique key refuses every other INSERT (`WorkingExcludes`).
`LastRunNeverBack`: `LastRunAdvances`, over SQL alone with no timing assumption, with
Redis under `JobTime < LockTTL`.  `RunsInOrder`: no run lies in the future, and a run
that may still be recorded (any in Redis, that of the owner in SQL) began no earlier
than the last one.  The hypothesis is where the two stores differ: a record in Redis
compares no owner.
`CronNeverStarts`: `NeverRun`, for a cron schedule.  `CronInv` adds that no tick gets past
its due check: the next run is after the time it is compared with (`CronIsLater`), so
the row is never inserted and the last run stays absent.

**RedisQueueProofs.**  `TypeCorrect`.
`OnePodExecutes`: `MutualExclusion`, from `LockHeld`: the lock key of a task that a pod
executes holds the pod's id, so another pod's compare-and-delete leaves it alone.
`RemovedAfterRunning`: `NotLost`, from `RunBeforeRemoval`: a job about to release or
remove is of a task that finished or was cut off.
`RedisKeepsContract`: `KeepsContract`, from `LockHeld` and `RunBeforeRemoval` together.
A member that an old list names may be executed after another pod removed it, which is
why the contract allows a start without a queued task.
`EnvironmentsIsolated`: `Isolated`, from `NamespacesAssumption` and
`PrefixesAssumption`.  `IsolationInv`: what a pod listed or works on, and what a cleanup
removed, has been submitted, and its stored name tells who submitted it.
`SubmissionsDeduplicated`: `Deduplicated`, from `KnownGone`: the tasks a submission
found present when it began have its key, and are gone once a look-up missed; a task
that left the store never comes back.

**LifetimeProofs.**  `TypeCorrect`, `PermitsNeverLeak` (`PermitsExact`) and
`CloseIsABarrier` (`Barrier`), for any number of tasks, handles and permits.
`LifetimeInv` adds to the two what each await implies: which method of which object an
agent can be in (`RunsInPlace`), how many operations the task is counted in
(`OpsExact`), which lock it holds (`LocksExact`), that nobody makes a native object
where there is one (`NativeFree`), and what each phase of `_close` has behind it
(`Phases`).  The proof has two layers.  `Move(a, r)` is what a step of agent a to
the await r may do to the lock, the permits, the native objects and what close looks
at; one lemma per conjunct shows that any move keeps the invariant, and one per action
that the action is a move.  Only the steps of `_close` are treated by themselves.
`SelfWaitLasts`: while a task that `_close` waits for waits for `_close`, every step keeps
it so, unless it is a cancellation of that task.

**LoadingProofs.**  `LoadingTypes`; `LoadsAreFresh` (a set outlives the lease it
overtook: `SetOutlivesLease`, `LeaseOK`); `OwnersAreFenced` (the lease in progress is
always the latest grant); `WaitingIsBounded` and `NoTimeoutWithoutHandover` (`WaitOK`
ties each phase of the loop to the deadline, `HandoverOK` says the lease waited for
ends before it); `OneLoaderAtATime` and `LoadsAreReused`, under the same kind of
`NoOverrun` (`OwnersOK`, `TokensDistinct`).

**TaggedProofs.**  `TaggedTypes`, `HitsAreCurrent`, and the refinement
`RedisKeepsContract`: the entry a get would return now (`Visible`) implements the
contract.  The invariant: no generation stored in an entry or read by a call is ahead
of the present one, so an entry that became stale stays stale.

**TaggedMemoryProofs.**  `MemoryTypes`, `IndexIsExact` (the two maps are inverse, and
exact for every entry that a get finds, which is all that an invalidation needs: an
entry that expires before its pop misses without it), `MemoryKeepsContract`, and
`SizeIsBounded` (with the library's theorems on cardinality).

Only model-checked.  The liveness properties (`EventuallyRuns` of OneshotRunner and of
RedisQueue, `EventuallyCovered`, `KeepsRunning`, `CloseEnds`): fairness and ENABLED are
beyond the prover.  All other properties of the passing runs are theorems.

## 7. Plan

In this order:

1. *Params and clock ties* of triggered rows, and the cooldown between starts.
2. *One table for three modes*: `get_last_run`, `record_*` and `release_lock` of a
   scheduled task go by `task_name` alone, so a oneshot row of the same name
   interferes.  Composes the runners over a shared table.
3. *Watchdog* (`_stop` is replaced by `start`) and *stream scope* (close once).
4. `max_concurrency` over the Redis store, where a task counts as running while its lock
   key exists.

## 8. Not modelled

* Redis commands, transport and configuration, the construction of pools and clients,
  and `Database`: they parse arguments and wrap library clients, whose behaviour is the
  library's.  Transactions and commands are taken as atomic.
* Text, iterables and mappings: pure helpers that unit tests reach.
* Serialisation of params, keys, values and errors; messages, traces and logs:
  no property depends on them.
* Reports and listings that only read (`list_history`, `list_long_pending_tasks` and the like), and
  `wait_until_next`, which the scheduler does not call.
* The parts section 7 plans.
