-------------------------- MODULE TriggeredRunner --------------------------
(***************************************************************************)
(* Triggered tasks (scheduler/runner/triggered.py over the SQL store): one *)
(* long-lived row per (task_name, biz_name) that every submission updates  *)
(* and that is run again whenever its last run began before its latest     *)
(* request.                                                                *)
(*                                                                         *)
(* Rows do not interact in this runner, so one row is modelled.  The       *)
(* inside of Executor.execute is in OneshotRunner; here it is one phase of *)
(* the job.  A submission and the start of an execution each take a        *)
(* timestamp of their own: the code compares them strictly and relies on   *)
(* two of them never falling into the same tick of the clock.              *)
(***************************************************************************)
EXTENDS SQLTaskStore, FiniteSets

CONSTANTS
    Pods,           \* scheduler instances, by pod_id
    LockTTL,        \* timeout of the row + LOCK_TTL_BUFFER
    JobTime,        \* most a job takes from its lock to its record
    Cooldown,       \* cooldown_seconds of the @trigger
    MaxSubmits, MaxTime, MaxMishaps   \* bounds of the exploration

ASSUME PodsAssumption == NULL \notin Pods

ASSUME TriggerAssumption ==
    /\ LockTTL \in Nat /\ JobTime \in Nat /\ Cooldown \in Nat
    /\ MaxSubmits \in Nat /\ MaxTime \in Nat
    /\ MaxMishaps \in Nat

VARIABLES
    now,            \* the clock
    row,            \* the row
    pod,            \* "up", "stopping", "cancelled" or "crashed"
    loop,           \* tick loop: idle, or about to lock the row it listed
    job,            \* the in-flight job of each pod
    submits,        \* number of submissions so far
    submitted_at,   \* when the latest of them was made
    mishaps,        \* crashes, shutdowns and store faults so far, to bound them
    last_start      \* history: when the last execution recorded called the handler

vars == <<now, row, pod, loop, job, submits, submitted_at, mishaps, last_start>>
requests == <<submits, submitted_at>>

---------------------------------------------------------------------------

NoJob == [phase |-> "none", until |-> 0, started_at |-> 0, outcome |-> "none"]

InFlight(p) == job[p].phase # "none"

\* A crash, a shutdown or a store fault.  They are explored while the clock
\* has room for a lock that they leave behind to expire.
Mishap ==
    /\ mishaps < MaxMishaps /\ now + LockTTL <= MaxTime
    /\ mishaps' = mishaps + 1

Init ==
    /\ now = 0
    /\ row = [status |-> "absent", owner |-> NULL, expire_at |-> NULL, run_at |-> NULL,
              run_count |-> 0, request_at |-> NULL]
    /\ pod = [p \in Pods |-> "up"]
    /\ loop = [p \in Pods |-> "idle"]
    /\ job = [p \in Pods |-> NoJob]
    /\ submits = 0 /\ submitted_at = NULL
    /\ mishaps = 0
    /\ last_start = NULL

\* The clock may go on: no job is due to have recorded its outcome.
NothingDue ==
    \A p \in Pods : job[p].phase \in {"dispatched", "executing", "record"} =>
                        now < job[p].until

\* submit_task of a triggered task.  Submissions are only explored while the
\* clock has room for their cooldown.
Submit ==
    /\ submits < MaxSubmits /\ now + Cooldown < MaxTime
    /\ NothingDue
    /\ row' = Submitted(row, now, Cooldown)
    /\ submits' = submits + 1
    /\ submitted_at' = now
    /\ now' = now + 1
    /\ UNCHANGED <<pod, loop, job, mishaps, last_start>>

---------------------------------------------------------------------------
(* The tick loop. *)

\* list_pending_triggered_tasks has the row, and it is not in flight.
Dispatchable(p) == PendingTriggered(row, now) /\ ~InFlight(p)

\* The list and the in_flight check.
ListPending(p) ==
    /\ pod[p] = "up" /\ loop[p] = "idle"
    /\ loop' = IF Dispatchable(p) THEN [loop EXCEPT ![p] = "acquire"] ELSE loop
    /\ UNCHANGED <<now, row, pod, job, requests, mishaps, last_start>>

AcquireAndDispatch(p) ==
    /\ loop[p] = "acquire"
    /\ CanAcquire(row, now)
    /\ row' = Acquired(row, p, now, LockTTL)
    /\ job' = [job EXCEPT ![p] =
                 [NoJob EXCEPT !.phase = "dispatched", !.until = now + JobTime]]
    /\ loop' = [loop EXCEPT ![p] = "idle"]
    /\ UNCHANGED <<now, pod, requests, mishaps, last_start>>

AcquireRefused(p) ==
    /\ loop[p] = "acquire"
    /\ ~CanAcquire(row, now)
    /\ loop' = [loop EXCEPT ![p] = "idle"]
    /\ UNCHANGED <<now, row, pod, job, requests, mishaps, last_start>>

\* The tick ends early, by an exception or a cancellation.  A lock
\* transaction under way in its thread commits all the same, or never starts.
AbandonTick(p) ==
    /\ loop' = [loop EXCEPT ![p] = "idle"]
    /\ \/ row' = row
       \/ /\ loop[p] = "acquire" /\ CanAcquire(row, now)
          /\ row' = Acquired(row, p, now, LockTTL)

\* The lock transaction of the tick raises; _run_loop logs it.
TickFault(p) ==
    /\ Mishap
    /\ loop[p] = "acquire"
    /\ AbandonTick(p)
    /\ UNCHANGED <<now, pod, job, requests, last_start>>

---------------------------------------------------------------------------
(* The background job. *)

\* execute() takes its started_at and calls the handler.
Begin(p) ==
    /\ job[p].phase = "dispatched"
    /\ job' = [job EXCEPT ![p].phase = "executing", ![p].started_at = now]
    /\ now' = now + 1
    /\ UNCHANGED <<row, pod, loop, requests, mishaps, last_start>>

\* execute() returns an ExecutionResult.
Finish(p) ==
    /\ job[p].phase = "executing"
    /\ \E outcome \in {"success", "failed"} :
          job' = [job EXCEPT ![p].phase = "record", ![p].outcome = outcome]
    /\ UNCHANGED <<now, row, pod, loop, requests, mishaps, last_start>>

\* Mutant: the end of the execution is recorded, not its start.
RunTimeAtEnd(j) == now

\* The ts a job passes to record_dynamic_*: result.started_at.
RunTime(j) == j.started_at

\* record_dynamic_* commits, and what the history remembers of it.
CommitRecord(p) ==
    /\ row' = Recorded(row, p, RunTime(job[p]), job[p].outcome)
    /\ last_start' = IF row.owner = p THEN job[p].started_at ELSE last_start

Record(p) ==
    /\ job[p].phase = "record"
    /\ CommitRecord(p)
    /\ job' = [job EXCEPT ![p].phase = "release"]
    /\ UNCHANGED <<now, pod, loop, requests, mishaps>>

Release(p) ==
    /\ job[p].phase = "release"
    /\ row' = Released(row, p)
    /\ job' = [job EXCEPT ![p] = NoJob]
    /\ UNCHANGED <<now, pod, loop, requests, mishaps, last_start>>

\* An exception or a cancellation: the finally clause of the job releases
\* the lock, and nothing follows a release that was itself cut short.
Unwind(j) ==
    IF j.phase = "release" THEN NoJob
    ELSE [j EXCEPT !.phase = "release", !.outcome = "failed"]

\* The store call under way in its thread committed, or never started.
MaybeStored(p) ==
    \/ UNCHANGED <<row, last_start>>
    \/ job[p].phase = "record" /\ CommitRecord(p)
    \/ job[p].phase = "release" /\ row' = Released(row, p) /\ UNCHANGED last_start

\* A store call of the job raises.
JobFault(p) ==
    /\ Mishap
    /\ job[p].phase \in {"record", "release"}
    /\ job' = [job EXCEPT ![p] = Unwind(@)]
    /\ MaybeStored(p)
    /\ UNCHANGED <<now, pod, loop, requests>>

---------------------------------------------------------------------------
(* Pods and the clock. *)

\* TaskScheduler.stop: the tick is cancelled, the job gets its grace.
Stop(p) ==
    /\ Mishap
    /\ pod[p] = "up"
    /\ pod' = [pod EXCEPT ![p] = "stopping"]
    /\ AbandonTick(p)
    /\ UNCHANGED <<now, job, requests, last_start>>

\* runner.shutdown after the grace: a job that executes or records unwinds
\* to its release, one that releases ends there.
GraceExpires(p) ==
    /\ pod[p] = "stopping"
    /\ job[p].phase \in {"executing", "record", "release"}
    /\ pod' = [pod EXCEPT ![p] = "cancelled"]
    /\ job' = [job EXCEPT ![p] = Unwind(@)]
    /\ MaybeStored(p)
    /\ UNCHANGED <<now, loop, requests, mishaps>>

\* The process dies.
Crash(p) ==
    /\ Mishap
    /\ pod[p] # "crashed"
    /\ pod' = [pod EXCEPT ![p] = "crashed"]
    /\ loop' = [loop EXCEPT ![p] = "idle"]
    /\ job' = [job EXCEPT ![p] = NoJob]
    /\ UNCHANGED <<now, row, requests, last_start>>

Restart(p) ==
    /\ pod[p] # "up" /\ ~InFlight(p)
    /\ pod' = [pod EXCEPT ![p] = "up"]
    /\ UNCHANGED <<now, row, loop, job, requests, mishaps, last_start>>

Advance ==
    /\ now < MaxTime
    /\ NothingDue
    /\ now' = now + 1
    /\ UNCHANGED <<row, pod, loop, job, requests, mishaps, last_start>>

---------------------------------------------------------------------------

LoopStep(p) == ListPending(p) \/ AcquireAndDispatch(p) \/ AcquireRefused(p)

JobStep(p) == Begin(p) \/ Finish(p) \/ Record(p) \/ Release(p)

PodStep(p) == Stop(p) \/ GraceExpires(p) \/ Crash(p) \/ Restart(p)

Next ==
    \/ Submit
    \/ \E p \in Pods : LoopStep(p) \/ JobStep(p) \/ PodStep(p)
                     \/ TickFault(p) \/ JobFault(p)
    \/ Advance

Spec == Init /\ [][Next]_vars

\* Event loops run on, handlers time out and time passes.
Fairness ==
    /\ WF_vars(Advance)
    /\ \A p \in Pods : WF_vars(LoopStep(p)) /\ WF_vars(JobStep(p))

FairSpec == Spec /\ Fairness

---------------------------------------------------------------------------
(* Properties. *)

Rows == [status : Statuses, owner : Pods \cup {NULL}, expire_at : Nat \cup {NULL},
         run_at : Nat \cup {NULL}, run_count : Nat, request_at : Nat \cup {NULL}]

Jobs == [phase : {"none", "dispatched", "executing", "record", "release"},
         until : Nat, started_at : Nat, outcome : {"none", "success", "failed"}]

\* The shape of the state; a row has a request from its first insert on.
TypeOK ==
    /\ now \in Nat
    /\ row \in Rows
    /\ pod \in [Pods -> {"up", "stopping", "cancelled", "crashed"}]
    /\ loop \in [Pods -> {"idle", "acquire"}]
    /\ job \in [Pods -> Jobs]
    /\ submits \in Nat /\ submitted_at \in Nat \cup {NULL}
    /\ mishaps \in Nat
    /\ last_start \in Nat \cup {NULL}
    /\ InTable(row) => row.request_at \in Nat

\* A recorded execution called its handler after the time t.
RunSince(t) == last_start # NULL /\ last_start > t

\* "After the last change there is always one more execution"
\* (triggered.py): as long as no recorded run began after the latest
\* submission, the row still asks for a run, however the submission fell
\* between the list, the lock, the start and the record of runs under way.
NoLostRequest ==
    submits > 0 => \/ RunSince(submitted_at)
                   \/ row.run_at = NULL \/ row.run_at < row.request_at

\* run_at only moves forward: a job that lost its lock does not put the
\* start of its older run over that of a newer one.
RunAtMonotone ==
    [][row.run_at # NULL => row'.run_at # NULL /\ row'.run_at >= row.run_at]_vars

\* A job that was cancelled or could not record its outcome gave its lock
\* back and left the row running without an expiry: no list has it again.
Stranded == row.status = "running" /\ row.expire_at = NULL

\* Every submission is eventually followed by a recorded run that began
\* after it, although pods may die, be shut down or meet store faults at any
\* step, unless the row is left stranded for good or no pod comes up again.
EventuallyCovered ==
    \/ \A n \in 1..MaxSubmits :
          submits = n ~> submits > n \/ RunSince(submitted_at)
    \/ <>[]Stranded
    \/ <>[](\A p \in Pods : pod[p] # "up")
=============================================================================
