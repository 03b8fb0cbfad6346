---------------------------- MODULE SQLTaskStore ----------------------------
(***************************************************************************)
(* The task table of the SQL store (scheduler/store/sqlalchemy.py), one    *)
(* row at a time.  Every store method is one database transaction, so each *)
(* is an operator from the row before it to the row after it; the runner   *)
(* modules decide when the transactions happen.                            *)
(*                                                                         *)
(* Columns nothing reads back (locked_at, updated_at, trace_id, message,   *)
(* error_at, error_attempt) are left out.  A row that was never inserted   *)
(* has status "absent", one that was deleted has status "deleted": ids are *)
(* fresh UUIDs, so a deleted id never comes back.                          *)
(***************************************************************************)
EXTENDS Naturals

CONSTANT NULL          \* SQL NULL; a comparison with it is never true

ASSUME NullAssumption == NULL \notin Nat

Statuses == {"absent", "pending", "running", "success", "failed", "deleted"}

\* The row is in the table: SELECT ... WHERE id = :id finds it.
InTable(r) == r.status \notin {"absent", "deleted"}

\* x <= y and x < y in a WHERE clause, where NULL compares as not true.
SqlLeq(x, y) == x # NULL /\ y # NULL /\ x <= y
SqlLess(x, y) == x # NULL /\ y # NULL /\ x < y

---------------------------------------------------------------------------
(* The row lock. *)

\* Mutant: a lock that is never taken over after it expired.
LockedForever(r, now) == r.owner # NULL

\* is_locked and not is_expired, from acquire_dynamic_task_lock.
Locked(r, now) ==
    /\ r.owner # NULL
    /\ ~(r.expire_at = NULL \/ r.expire_at <= now)

\* acquire_dynamic_task_lock returns True.  Neither the status nor the
\* run count of the row is looked at.
CanAcquire(r, now) == InTable(r) /\ ~Locked(r, now)

\* The UPDATE of acquire_dynamic_task_lock by the pod p.
Acquired(r, p, now, ttl) ==
    [r EXCEPT !.owner = p, !.expire_at = now + ttl, !.status = "running"]

\* release_dynamic_task_lock: WHERE id = :task_id AND owner = :owner.
Released(r, p) ==
    IF InTable(r) /\ r.owner = p
    THEN [r EXCEPT !.owner = NULL, !.expire_at = NULL]
    ELSE r

\* Mutant: an outcome recorded by whoever comes, owner or not.
RecordedByAnyone(r, p, started_at, outcome) ==
    IF InTable(r)
    THEN [r EXCEPT !.run_at = started_at, !.run_count = @ + 1, !.status = outcome]
    ELSE r

\* record_dynamic_success and record_dynamic_failure, which differ in the
\* status they write and in columns this model leaves out.
Recorded(r, p, started_at, outcome) ==
    IF InTable(r) /\ r.owner = p
    THEN [r EXCEPT !.run_at = started_at, !.run_count = @ + 1, !.status = outcome]
    ELSE r

---------------------------------------------------------------------------
(* Oneshot queries. *)

\* The WHERE clause of list_pending_oneshot_tasks.
PendingOneshot(r, now) ==
    /\ \/ r.status = "pending"
       \/ r.status = "running" /\ SqlLeq(r.expire_at, now)
    /\ r.max_runs = NULL \/ r.run_count < r.max_runs

\* The WHERE clause of count_running_oneshot_tasks.
RunningOneshot(r, now) ==
    /\ r.status = "running"
    /\ r.expire_at # NULL
    /\ r.expire_at > now

\* The rows cleanup_expired_oneshot_tasks deletes; a retention of 0 means
\* the runner deletes the row itself and the cleanup leaves it alone.
ExpiredOneshot(r, now, success_retention, failure_retention) ==
    /\ r.owner = NULL
    /\ \/ /\ r.status = "success" /\ success_retention > 0
          /\ r.run_at # NULL /\ r.run_at + success_retention <= now
       \/ /\ r.status = "failed" /\ failure_retention > 0
          /\ r.run_at # NULL /\ r.run_at + failure_retention <= now

\* delete_oneshot_task: DELETE ... WHERE id = :id, whoever owns the row.
Deleted(r) ==
    IF InTable(r)
    THEN [r EXCEPT !.status = "deleted", !.owner = NULL, !.expire_at = NULL]
    ELSE r

---------------------------------------------------------------------------
(* Triggered rows: request_at is a column of theirs. *)

\* The WHERE clause of list_pending_triggered_tasks.
PendingTriggered(r, now) ==
    /\ InTable(r)
    /\ r.status # "running" \/ SqlLeq(r.expire_at, now)
    /\ SqlLeq(r.request_at, now)
    /\ r.run_at = NULL \/ SqlLess(r.run_at, r.request_at)

\* request_at of a submission: at once, or after the cooldown of the last run.
RequestAt(r, now, cooldown) ==
    IF InTable(r) /\ cooldown # 0 /\ r.run_at # NULL /\ r.run_at + cooldown > now
    THEN r.run_at + cooldown
    ELSE now

\* Mutant: the first request of a row is left to be scheduled later.
SubmittedUnscheduled(r, now, cooldown) ==
    IF InTable(r)
    THEN [r EXCEPT !.request_at = RequestAt(r, now, cooldown),
                   !.run_count = 0]
    ELSE [r EXCEPT !.status = "pending"]

\* Mutant: a submission during a run leaves the running request alone.
SubmittedWhenIdle(r, now, cooldown) ==
    IF InTable(r)
    THEN [r EXCEPT !.request_at = IF r.owner = NULL THEN RequestAt(r, now, cooldown) ELSE @,
                   !.run_count = 0]
    ELSE [r EXCEPT !.status = "pending", !.request_at = now]

\* submit_triggered_task: UPDATE of the row, or INSERT of the first one.
\* An update leaves status, lock and run_at alone.
Submitted(r, now, cooldown) ==
    IF InTable(r)
    THEN [r EXCEPT !.request_at = RequestAt(r, now, cooldown),
                   !.run_count = 0]
    ELSE [r EXCEPT !.status = "pending", !.request_at = now]
=============================================================================
