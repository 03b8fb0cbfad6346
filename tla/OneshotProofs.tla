--------------------------- MODULE OneshotProofs ---------------------------
(***************************************************************************)
(* Theorems about OneshotRunner, for any number of pods and rows and any   *)
(* timeouts, proved with TLAPS.                                            *)
(***************************************************************************)
EXTENDS OneshotRunner, FiniteSetTheorems, TLAPS

---------------------------------------------------------------------------
(* What the store transactions and the job steps do to types. *)

\* The lock transaction leaves a row of the table.
LEMMA AcquiredType ==
    ASSUME NEW r \in Rows, NEW p \in Pods, NEW n \in Nat, NEW ttl \in Nat
    PROVE  Acquired(r, p, n, ttl) \in Rows
<1>1. n + ttl \in Nat
  OBVIOUS
<1> QED
  BY <1>1 DEF Acquired, Rows, Statuses

\* So do recording an outcome and releasing the lock.
LEMMA RecordTypes ==
    ASSUME NEW r \in Rows, NEW p, NEW n \in Nat, NEW o \in {"success", "failed"}
    PROVE  Recorded(r, p, n, o) \in Rows
<1>1. r.run_count + 1 \in Nat
  BY DEF Rows
<1> QED
  BY <1>1 DEF Recorded, Rows, Statuses

\* So do releasing, deleting and submitting.
LEMMA RowTypes ==
    ASSUME NEW r \in Rows
    PROVE  /\ \A p : Released(r, p) \in Rows
           /\ Deleted(r) \in Rows
           /\ [r EXCEPT !.status = "pending"] \in Rows
<1>1. ASSUME NEW p PROVE Released(r, p) \in Rows
  BY DEF Released, Rows, Statuses
<1>2. Deleted(r) \in Rows
  BY DEF Deleted, Rows, Statuses
<1>3. [r EXCEPT !.status = "pending"] \in Rows
  BY DEF Rows, Statuses
<1> QED
  BY <1>1, <1>2, <1>3

\* What makes TypeOK inductive: an attempt is left before each dispatch and
\* after each backoff, and a job that records has an outcome.
JobsInOrder ==
    \A p \in Pods, t \in Tasks :
        /\ job[p][t].phase = "dispatched" => job[p][t].attempt = 0
        /\ job[p][t].phase = "backoff" => job[p][t].attempt < TaskMaxRuns
        /\ job[p][t].phase = "record" => job[p][t].outcome # "none"

TypeInv == TypeOK /\ JobsInOrder

\* The store call of a job leaves a row of the table.
LEMMA StoreEffectType ==
    ASSUME TypeInv, NEW p \in Pods, NEW t \in Tasks,
           AtStoreCall(job[p][t])
    PROVE  StoreEffect(p, t) \in Rows
<1>1. /\ row[t] \in Rows /\ job[p][t] \in Jobs /\ job[p][t].started_at \in Nat
      /\ job[p][t].outcome \in {"none", "success", "failed"}
  BY DEF TypeInv, TypeOK, Jobs
<1>2. CASE job[p][t].phase = "record"
  <2>1. job[p][t].outcome \in {"success", "failed"}
    BY <1>1, <1>2 DEF TypeInv, JobsInOrder
  <2>2. StoreEffect(p, t) = Recorded(row[t], p, job[p][t].started_at, job[p][t].outcome)
    BY <1>2 DEF StoreEffect
  <2> QED
    BY <1>1, <2>1, <2>2, RecordTypes
<1>3. CASE job[p][t].phase = "release"
  <2>1. StoreEffect(p, t) = Released(row[t], p)
    BY <1>3 DEF StoreEffect
  <2> QED
    BY <1>1, <2>1, RowTypes
<1>4. CASE job[p][t].phase = "delete"
  <2>1. StoreEffect(p, t) = Deleted(row[t])
    BY <1>4 DEF StoreEffect
  <2> QED
    BY <1>1, <2>1, RowTypes
<1> QED
  BY <1>2, <1>3, <1>4 DEF AtStoreCall

\* A dispatched job is a job.
LEMMA NewJobType ==
    ASSUME now \in Nat, NEW g \in Nat
    PROVE  NewJob(g) \in Jobs
<1>1. now + Lag \in Nat
  BY TimesAssumption
<1> QED
  BY <1>1, RunsAssumption DEF NewJob, Jobs

\* So is one in an attempt, when one is left, or in a backoff.
LEMMA AttemptTypes ==
    ASSUME NEW j \in Jobs, now \in Nat
    PROVE  /\ j.attempt < TaskMaxRuns =>
                /\ StartAttempt(j) \in Jobs
                /\ [StartAttempt(j) EXCEPT !.started_at = now] \in Jobs
           /\ [j EXCEPT !.phase = "backoff", !.until = now + Backoff + Lag] \in Jobs
<1> USE TimesAssumption, RunsAssumption
<1>1. now + Timeout + Lag \in Nat /\ now + Backoff + Lag \in Nat
  OBVIOUS
<1>2. ASSUME j.attempt < TaskMaxRuns
      PROVE  /\ StartAttempt(j) \in Jobs
             /\ [StartAttempt(j) EXCEPT !.started_at = now] \in Jobs
  <2>1. j.attempt + 1 \in 0..TaskMaxRuns
    BY <1>2 DEF Jobs
  <2> QED
    BY <1>1, <2>1 DEF StartAttempt, Jobs
<1>3. [j EXCEPT !.phase = "backoff", !.until = now + Backoff + Lag] \in Jobs
  BY <1>1 DEF Jobs
<1> QED
  BY <1>2, <1>3

\* So is one whose execute() returned, and one that recorded its outcome.
LEMMA ReturnTypes ==
    ASSUME NEW j \in Jobs
    PROVE  /\ \A o \in {"success", "failed"} :
                 /\ Return(j, o) \in Jobs
                 /\ Return(j, o).phase = "record" /\ Return(j, o).outcome = o
                 /\ Return(j, o).grant = j.grant
           /\ [j EXCEPT !.phase = "release"] \in Jobs
<1>1. ASSUME NEW o \in {"success", "failed"}
      PROVE  /\ Return(j, o) \in Jobs
             /\ Return(j, o).phase = "record" /\ Return(j, o).outcome = o
             /\ Return(j, o).grant = j.grant
  BY DEF Return, Jobs
<1>2. [j EXCEPT !.phase = "release"] \in Jobs
  BY DEF Jobs
<1> QED
  BY <1>1, <1>2

\* The steps of a job other than its attempts leave a job.
LEMMA JobTypes ==
    ASSUME NEW j \in Jobs
    PROVE  /\ NoJob \in Jobs
           /\ AfterRelease(j) \in Jobs /\ AfterRelease(j).phase \in {"none", "delete"}
           /\ Unwind(j) \in Jobs /\ Unwind(j).phase = "release"
           /\ AtStoreCall(j) =>
                /\ AfterFault(j) \in Jobs
                /\ AfterFault(j).phase \in {"none", "release", "delete"}
<1>1. NoJob \in Jobs /\ NoJob.phase = "none"
  BY RunsAssumption DEF NoJob, Jobs
<1>2. AfterRelease(j) \in Jobs /\ AfterRelease(j).phase \in {"none", "delete"}
  BY <1>1 DEF AfterRelease, Jobs
<1>3. Unwind(j) \in Jobs /\ Unwind(j).phase = "release"
  BY DEF Unwind, Jobs
<1>4. ASSUME AtStoreCall(j)
      PROVE  AfterFault(j) \in Jobs /\ AfterFault(j).phase \in {"none", "release", "delete"}
  <2>1. CASE j.phase = "record"
    BY <1>3, <2>1 DEF AfterFault
  <2>2. CASE j.phase = "release"
    BY <1>2, <2>2 DEF AfterFault
  <2>3. CASE j.phase = "delete"
    BY <1>1, <2>3 DEF AfterFault
  <2> QED
    BY <1>4, <2>1, <2>2, <2>3 DEF AtStoreCall
<1> QED
  BY <1>1, <1>2, <1>3, <1>4

---------------------------------------------------------------------------
(* Type correctness. *)

\* Every step preserves the types and the order of a job's phases.
LEMMA TypeStep == TypeInv /\ [Next]_vars => TypeInv'
<1> SUFFICES ASSUME TypeInv, [Next]_vars PROVE TypeInv'
  OBVIOUS
<1> USE TimesAssumption, RunsAssumption
\* A step of one job.
<1>j. ASSUME NEW p \in Pods, NEW t \in Tasks, NEW j \in Jobs,
             job' = [job EXCEPT ![p][t] = j], j.phase # "dispatched",
             j.phase = "backoff" => j.attempt < TaskMaxRuns,
             j.phase = "record" => j.outcome # "none",
             UNCHANGED <<now, pod, loop, grants>>, row' \in [Tasks -> Rows],
             crashes' \in Nat, stops' \in Nat, faults' \in Nat, finished' \subseteq Tasks
      PROVE  TypeInv'
  <2>1. TypeOK'
    BY <1>j DEF TypeInv, TypeOK
  <2>2. \A q \in Pods, u \in Tasks :
           job'[q][u] = IF q = p /\ u = t THEN j ELSE job[q][u]
    BY <1>j DEF TypeInv, TypeOK
  <2>3. JobsInOrder'
    BY <1>j, <2>2 DEF TypeInv, JobsInOrder
  <2> QED
    BY <2>1, <2>3 DEF TypeInv
<1>1. CASE UNCHANGED vars
  BY <1>1 DEF vars, budgets, TypeInv, TypeOK, JobsInOrder
<1>2. ASSUME NEW t \in Tasks, Submit(t) PROVE TypeInv'
  <2>1. row[t] \in Rows
    BY DEF TypeInv, TypeOK
  <2>2. [row[t] EXCEPT !.status = "pending"] \in Rows
    BY <2>1, RowTypes
  <2> QED
    BY <1>2, <2>2 DEF Submit, budgets, TypeInv, TypeOK, JobsInOrder
<1>3. ASSUME NEW p \in Pods, ListPending(p) PROVE TypeInv'
  BY <1>3 DEF ListPending, budgets, TypeInv, TypeOK, JobsInOrder
<1>4. ASSUME NEW p \in Pods, NEW t \in Tasks, PassOver(p, t) \/ CheckCap(p, t)
      PROVE  TypeInv'
  <2>1. NextRow(p, t) \in [pc : {"idle", "scan", "acquire"}, todo : SUBSET Tasks]
    BY DEF NextRow, TypeInv, TypeOK
  <2>2. [loop[p] EXCEPT !.pc = "acquire"]
           \in [pc : {"idle", "scan", "acquire"}, todo : SUBSET Tasks]
    BY DEF TypeInv, TypeOK
  <2>3. loop' \in [Pods -> [pc : {"idle", "scan", "acquire"}, todo : SUBSET Tasks]]
    BY <1>4, <2>1, <2>2 DEF PassOver, CheckCap, TypeInv, TypeOK
  <2> QED
    BY <1>4, <2>3 DEF PassOver, CheckCap, budgets, TypeInv, TypeOK, JobsInOrder
<1>5. ASSUME NEW p \in Pods, NEW t \in Tasks, AcquireAndDispatch(p, t) PROVE TypeInv'
  <2>1. NextRow(p, t) \in [pc : {"idle", "scan", "acquire"}, todo : SUBSET Tasks]
    BY DEF NextRow, TypeInv, TypeOK
  <2>2. Acquired(row[t], p, now, LockTTL) \in Rows
    BY AcquiredType DEF LockTTL, TypeInv, TypeOK
  <2>3. grants[t] + 1 \in Nat /\ job[p][t] \in Jobs /\ now \in Nat
    BY DEF TypeInv, TypeOK
  <2>4. NewJob(grants[t] + 1) \in Jobs
    BY <2>3, NewJobType
  <2> QED
    BY <1>5, <2>1, <2>2, <2>3, <2>4
       DEF AcquireAndDispatch, TakeLock, budgets, NewJob, TypeInv, TypeOK, JobsInOrder
<1>6. ASSUME NEW p \in Pods, NEW t \in Tasks, AcquireRefused(p, t) PROVE TypeInv'
  <2>1. NextRow(p, t) \in [pc : {"idle", "scan", "acquire"}, todo : SUBSET Tasks]
    BY DEF NextRow, TypeInv, TypeOK
  <2> QED
    BY <1>6, <2>1 DEF AcquireRefused, budgets, TypeInv, TypeOK, JobsInOrder
<1>7. ASSUME NEW p \in Pods, AbandonTick(p)
      PROVE  /\ row' \in [Tasks -> Rows] /\ grants' \in [Tasks -> Nat]
             /\ loop' \in [Pods -> [pc : {"idle", "scan", "acquire"}, todo : SUBSET Tasks]]
  <2>1. ASSUME NEW t \in Tasks PROVE Acquired(row[t], p, now, LockTTL) \in Rows
    BY AcquiredType DEF LockTTL, TypeInv, TypeOK
  <2>2. row' \in [Tasks -> Rows] /\ grants' \in [Tasks -> Nat]
    <3>1. CASE UNCHANGED <<row, grants>>
      BY <3>1 DEF TypeInv, TypeOK
    <3>2. ASSUME NEW t \in Tasks, TakeLock(p, t)
          PROVE  row' \in [Tasks -> Rows] /\ grants' \in [Tasks -> Nat]
      BY <2>1, <3>2 DEF TakeLock, TypeInv, TypeOK
    <3> QED
      BY <1>7, <3>1, <3>2 DEF AbandonTick
  <2> QED
    BY <1>7, <2>2 DEF AbandonTick, IdleLoop, TypeInv, TypeOK
<1>8. ASSUME NEW p \in Pods, TickFault(p) \/ Stop(p) PROVE TypeInv'
  <2>1. AbandonTick(p)
    BY <1>8 DEF TickFault, Stop
  <2>2. /\ row' \in [Tasks -> Rows] /\ grants' \in [Tasks -> Nat]
        /\ loop' \in [Pods -> [pc : {"idle", "scan", "acquire"}, todo : SUBSET Tasks]]
    BY <1>7, <2>1
  <2>3. CASE TickFault(p)
    BY <2>2, <2>3 DEF TickFault, TypeInv, TypeOK, JobsInOrder
  <2>4. CASE Stop(p)
    BY <2>2, <2>4 DEF Stop, TypeInv, TypeOK, JobsInOrder
  <2> QED
    BY <1>8, <2>3, <2>4
<1>9. ASSUME NEW p \in Pods, NEW t \in Tasks,
             Begin(p, t) \/ Retry(p, t) \/ AttemptFails(p, t)
      PROVE  TypeInv'
  <2>1. job[p][t] \in Jobs /\ now \in Nat
    BY DEF TypeInv, TypeOK
  <2>a. ASSUME NEW j \in Jobs, j.phase = "attempt", job' = [job EXCEPT ![p][t] = j],
               UNCHANGED <<now, row, pod, loop, budgets, grants, finished>>
        PROVE  TypeInv'
    BY <1>j, <2>a DEF budgets, TypeInv, TypeOK
  <2>s. /\ StartAttempt(job[p][t]).phase = "attempt"
        /\ [StartAttempt(job[p][t]) EXCEPT !.started_at = now].phase = "attempt"
    BY <2>1 DEF StartAttempt, Jobs
  <2>2. CASE Begin(p, t)
    <3>1. job[p][t].attempt < TaskMaxRuns
      BY <2>2 DEF Begin, TypeInv, JobsInOrder
    <3>2. [StartAttempt(job[p][t]) EXCEPT !.started_at = now] \in Jobs
      BY <2>1, <3>1, AttemptTypes
    <3> QED
      BY <2>2, <2>a, <2>s, <3>2 DEF Begin
  <2>3. CASE Retry(p, t)
    <3>1. StartAttempt(job[p][t]) \in Jobs
      BY <2>1, <2>3, AttemptTypes DEF Retry, TypeInv, JobsInOrder
    <3> QED
      BY <2>3, <2>a, <2>s, <3>1 DEF Retry
  <2>4. CASE AttemptFails(p, t)
    <3>1. [job[p][t] EXCEPT !.phase = "backoff", !.until = now + Backoff + Lag] \in Jobs
      BY <2>1, AttemptTypes
    <3>2. job[p][t].attempt < TaskMaxRuns
      BY <2>1, <2>4 DEF AttemptFails, LastAttempt, Jobs
    <3> DEFINE j == [job[p][t] EXCEPT !.phase = "backoff", !.until = now + Backoff + Lag]
    <3>3. j.phase = "backoff" /\ j.attempt = job[p][t].attempt
      BY <2>1 DEF Jobs
    <3>4. /\ job' = [job EXCEPT ![p][t] = j]
          /\ UNCHANGED <<now, row, pod, loop, budgets, grants, finished>>
      BY <2>4 DEF AttemptFails
    <3>5. j \in Jobs
      BY <3>1
    <3> HIDE DEF j
    <3> QED
      BY <1>j, <3>2, <3>3, <3>4, <3>5 DEF budgets, TypeInv, TypeOK
  <2> QED
    BY <1>9, <2>2, <2>3, <2>4
<1>10. ASSUME NEW p \in Pods, NEW t \in Tasks,
              AttemptSucceeds(p, t) \/ LastAttemptFails(p, t)
       PROVE  TypeInv'
  <2>0. job[p][t] \in Jobs
    BY DEF TypeInv, TypeOK
  <2> DEFINE returned(o) == Return(job[p][t], o)
  <2>1. \A o \in {"success", "failed"} :
           returned(o) \in Jobs /\ returned(o).phase = "record" /\ returned(o).outcome = o
    BY <2>0, ReturnTypes
  <2>2. PICK o \in {"success", "failed"} : job' = [job EXCEPT ![p][t] = returned(o)]
    BY <1>10 DEF AttemptSucceeds, LastAttemptFails
  <2> HIDE DEF returned
  <2>3. finished' = finished \cup {t} /\ UNCHANGED <<now, row, pod, loop, budgets, grants>>
    BY <1>10 DEF AttemptSucceeds, LastAttemptFails
  <2> QED
    BY <1>j, <2>1, <2>2, <2>3 DEF budgets, TypeInv, TypeOK
<1>11. ASSUME NEW p \in Pods, NEW t \in Tasks,
              Record(p, t) \/ Release(p, t) \/ Delete(p, t) \/ JobFault(p, t)
       PROVE  TypeInv'
  <2>1. AtStoreCall(job[p][t])
    BY <1>11 DEF Record, Release, Delete, JobFault, AtStoreCall
  <2>2. StoreEffect(p, t) \in Rows
    BY <2>1, StoreEffectType
  <2>3. job[p][t] \in Jobs /\ [job[p][t] EXCEPT !.phase = "release"] \in Jobs
    <3>1. job[p][t] \in Jobs
      BY DEF TypeInv, TypeOK
    <3> QED
      BY <3>1, ReturnTypes
  <2>4. PICK j \in Jobs : /\ job' = [job EXCEPT ![p][t] = j]
                          /\ j.phase \in {"none", "release", "delete"}
    <3>1. CASE Record(p, t)
      <4>1. job' = [job EXCEPT ![p][t] = [job[p][t] EXCEPT !.phase = "release"]]
        BY <3>1 DEF Record
      <4>2. [job[p][t] EXCEPT !.phase = "release"].phase = "release"
        BY <2>3 DEF Jobs
      <4> QED
        BY <2>3, <4>1, <4>2
    <3>2. CASE Release(p, t)
      BY <2>3, <3>2, JobTypes DEF Release
    <3>3. CASE Delete(p, t)
      BY <2>3, <3>3, JobTypes DEF Delete, NoJob
    <3>4. CASE JobFault(p, t)
      BY <2>1, <2>3, <3>4, JobTypes DEF JobFault
    <3> QED
      BY <1>11, <3>1, <3>2, <3>3, <3>4
  <2>5. row' \in [Tasks -> Rows]
    BY <1>11, <2>2 DEF Record, Release, Delete, JobFault, TypeInv, TypeOK
  <2>6. /\ UNCHANGED <<now, pod, loop, grants, finished, crashes, stops>>
        /\ faults' \in Nat
    BY <1>11 DEF Record, Release, Delete, JobFault, budgets, TypeInv, TypeOK
  <2> QED
    BY <1>j, <2>4, <2>5, <2>6 DEF TypeInv, TypeOK
<1>12. ASSUME NEW p \in Pods, GraceExpires(p) PROVE TypeInv'
  <2>1. row' \in [Tasks -> Rows]
    BY <1>12, StoreEffectType DEF GraceExpires, TypeInv, TypeOK
  <2>2. \A t \in Tasks :
           /\ job'[p][t] \in Jobs
           /\ job'[p][t].phase \in {"none", "release"}
    BY <1>12, JobTypes DEF GraceExpires, NoJob, TypeInv, TypeOK
  <2>3. job' \in [Pods -> [Tasks -> Jobs]]
    BY <1>12, <2>2 DEF GraceExpires, TypeInv, TypeOK
  <2>4. \A q \in Pods : q # p => job'[q] = job[q]
    BY <1>12 DEF GraceExpires, TypeInv, TypeOK
  <2>5. JobsInOrder'
    BY <2>2, <2>4 DEF JobsInOrder, TypeInv
  <2> QED
    BY <1>12, <2>1, <2>3, <2>5 DEF GraceExpires, budgets, TypeInv, TypeOK
<1>13. ASSUME NEW p \in Pods, Crash(p) PROVE TypeInv'
  <2>1. NoJob \in Jobs /\ NoJob.phase = "none"
    BY DEF NoJob, Jobs
  <2> QED
    BY <1>13, <2>1 DEF Crash, IdleLoop, TypeInv, TypeOK, JobsInOrder
<1>14. ASSUME NEW p \in Pods, Restart(p) PROVE TypeInv'
  BY <1>14 DEF Restart, budgets, TypeInv, TypeOK, JobsInOrder
<1>15. CASE Cleanup
  <2>1. \A t \in Tasks : Deleted(row[t]) \in Rows
    BY RowTypes DEF TypeInv, TypeOK
  <2> QED
    BY <1>15, <2>1 DEF Cleanup, budgets, TypeInv, TypeOK, JobsInOrder
<1>16. CASE Advance
  BY <1>16 DEF Advance, budgets, TypeInv, TypeOK, JobsInOrder
<1> QED
  BY <1>1, <1>2, <1>3, <1>4, <1>5, <1>6, <1>8, <1>9, <1>10, <1>11, <1>12,
     <1>13, <1>14, <1>15, <1>16
     DEF Next, LoopStep, JobStep, PodStep

\* Types, and the bound on attempts, hold in every reachable state.
THEOREM TypeCorrect == Spec => []TypeOK
<1>1. Init => TypeInv
  BY TimesAssumption, RunsAssumption
     DEF Init, TypeInv, TypeOK, JobsInOrder, Rows, Jobs, NoJob, IdleLoop, Statuses
<1>2. TypeInv => TypeOK
  BY DEF TypeInv
<1> QED
  BY <1>1, <1>2, TypeStep, PTL DEF Spec

---------------------------------------------------------------------------
(* Mutual exclusion. *)

\* Rounds is multiplication by a natural number.
LEMMA RoundsFacts ==
    /\ Round \in Nat
    /\ \A n \in Nat : Rounds(n) \in Nat /\ Rounds(n + 1) = Rounds(n) + Round
<1>1. Round \in Nat
  BY TimesAssumption DEF Round
<1>2. ASSUME NEW n \in Nat, NEW r \in Nat
      PROVE  n * r \in Nat /\ (n + 1) * r = n * r + r
  OBVIOUS
<1> QED
  BY <1>1, <1>2 DEF Rounds

\* A job that executes ends no earlier than its current phase may end.
LEMMA EndAfterUntil ==
    ASSUME TypeInv, NEW p \in Pods, NEW t \in Tasks, job[p][t].phase \in Executing
    PROVE  /\ LatestEnd(job[p][t]) \in Nat
           /\ job[p][t].until \in Nat
           /\ job[p][t].until <= LatestEnd(job[p][t])
<1> DEFINE j == job[p][t]
<1>1. j.until \in Nat /\ j.attempt \in 0..TaskMaxRuns
  BY DEF TypeInv, TypeOK, Jobs
<1>2. CASE j.phase = "attempt"
  <2>1. TaskMaxRuns - j.attempt \in Nat
    BY <1>1, RunsAssumption
  <2> QED
    BY <1>1, <1>2, <2>1, RoundsFacts DEF LatestEnd
<1>3. CASE j.phase # "attempt"
  <2>1. TaskMaxRuns - 1 - j.attempt \in Nat
    BY <1>1, <1>3, RunsAssumption DEF Executing, TypeInv, JobsInOrder
  <2> QED
    BY <1>1, <1>3, <2>1, RoundsFacts, TimesAssumption DEF LatestEnd
<1> QED
  BY <1>2, <1>3

\* A dispatched job ends before its lock expires.
LEMMA EndOfNewJob ==
    ASSUME NoOverrun, now \in Nat, NEW g \in Nat
    PROVE  /\ LatestEnd(NewJob(g)) < now + LockTTL
           /\ now <= NewJob(g).until
<1>1. TaskMaxRuns - 1 \in Nat /\ TaskMaxRuns - 1 - 0 = TaskMaxRuns - 1
  BY RunsAssumption
<1>2. LatestEnd(NewJob(g)) = now + Lag + (Timeout + Lag + Rounds(TaskMaxRuns - 1))
  BY <1>1 DEF LatestEnd, NewJob
<1>3. Rounds(TaskMaxRuns - 1) \in Nat
  BY <1>1, RoundsFacts
<1>4. LatestEnd(NewJob(g)) < now + LockTTL
  BY <1>2, <1>3, TimesAssumption DEF NoOverrun, LockTTL
<1>5. NewJob(g).until = now + Lag
  BY DEF NewJob
<1> QED
  BY <1>4, <1>5, TimesAssumption

\* The job ends by the time e, and its phase does not end in the past.
EndsBy(j, e) == LatestEnd(j) \in Nat /\ LatestEnd(j) <= e /\ now <= j.until

\* Going on to an attempt, or to a backoff while an attempt is left, does
\* not put off the end of the job.
LEMMA EndNotLater ==
    ASSUME NEW j \in Jobs, now \in Nat, now <= j.until, j.attempt < TaskMaxRuns
    PROVE  /\ j.phase # "attempt" => EndsBy(StartAttempt(j), LatestEnd(j))
           /\ j.phase # "attempt" =>
                EndsBy([StartAttempt(j) EXCEPT !.started_at = now], LatestEnd(j))
           /\ j.phase = "attempt" =>
                EndsBy([j EXCEPT !.phase = "backoff", !.until = now + Backoff + Lag],
                       LatestEnd(j))
<1> DEFINE left == TaskMaxRuns - 1 - j.attempt
<1>1. /\ j.until \in Nat /\ j.attempt \in Nat /\ left \in Nat
      /\ TaskMaxRuns - (j.attempt + 1) = left /\ TaskMaxRuns - j.attempt = left + 1
  BY RunsAssumption DEF Jobs
<1>2. /\ Rounds(left) \in Nat /\ Rounds(left + 1) = Rounds(left) + Round
      /\ Round \in Nat
  BY <1>1, RoundsFacts
<1>3. ASSUME j.phase # "attempt"
      PROVE  /\ EndsBy(StartAttempt(j), LatestEnd(j))
             /\ EndsBy([StartAttempt(j) EXCEPT !.started_at = now], LatestEnd(j))
  <2>1. LatestEnd(j) = j.until + (Timeout + Lag + Rounds(left))
    BY <1>3 DEF LatestEnd
  <2>2. /\ StartAttempt(j).phase = "attempt" /\ StartAttempt(j).attempt = j.attempt + 1
        /\ StartAttempt(j).until = now + Timeout + Lag
    BY DEF StartAttempt, Jobs
  <2>3. LatestEnd(StartAttempt(j)) = now + Timeout + Lag + Rounds(left)
    BY <1>1, <2>2 DEF LatestEnd
  <2>4. /\ LatestEnd([StartAttempt(j) EXCEPT !.started_at = now]) = LatestEnd(StartAttempt(j))
        /\ [StartAttempt(j) EXCEPT !.started_at = now].until = StartAttempt(j).until
    BY DEF LatestEnd, StartAttempt, Jobs
  <2>5. /\ now + Timeout + Lag + Rounds(left) <= j.until + (Timeout + Lag + Rounds(left))
        /\ now + Timeout + Lag + Rounds(left) \in Nat
        /\ now <= now + Timeout + Lag
    BY <1>1, <1>2, TimesAssumption
  <2> QED
    BY <2>1, <2>2, <2>3, <2>4, <2>5 DEF EndsBy
<1>4. ASSUME j.phase = "attempt"
      PROVE  EndsBy([j EXCEPT !.phase = "backoff", !.until = now + Backoff + Lag],
                    LatestEnd(j))
  <2> DEFINE k == [j EXCEPT !.phase = "backoff", !.until = now + Backoff + Lag]
  <2>1. LatestEnd(j) = j.until + Rounds(left + 1)
    BY <1>1, <1>4 DEF LatestEnd
  <2>2. k.phase = "backoff" /\ k.attempt = j.attempt /\ k.until = now + Backoff + Lag
    BY DEF Jobs
  <2>3. LatestEnd(k) = now + Backoff + Lag + (Timeout + Lag + Rounds(left))
    BY <2>2 DEF LatestEnd
  <2>4. /\ now + Backoff + Lag + (Timeout + Lag + Rounds(left)) <= j.until + Rounds(left + 1)
        /\ now + Backoff + Lag + (Timeout + Lag + Rounds(left)) \in Nat
        /\ now <= now + Backoff + Lag
    BY <1>1, <1>2, TimesAssumption DEF Round
  <2> QED
    BY <2>1, <2>2, <2>3, <2>4 DEF EndsBy
<1> QED
  BY <1>3, <1>4

\* A job keeps its hold while its row stays as it is or is deleted.
LEMMA LockKept ==
    ASSUME NEW p \in Pods, NEW t \in Tasks, LockHeldAt(p, t),
           now' = now, job'[p][t] = job[p][t],
           row'[t] = row[t] \/ row'[t].status = "deleted"
    PROVE  LockHeldAt(p, t)'
BY DEF LockHeldAt, InTable, LatestEnd

\* The store call of one pod's job leaves a row that another pod owns as it
\* is, or deletes it.
LEMMA StoreEffectOnOthers ==
    ASSUME TypeInv, NEW p \in Pods, NEW t \in Tasks, AtStoreCall(job[p][t]),
           row[t].owner # p \/ ~InTable(row[t])
    PROVE  StoreEffect(p, t) = row[t] \/ StoreEffect(p, t).status = "deleted"
<1>1. CASE job[p][t].phase = "record"
  <2>1. StoreEffect(p, t) = Recorded(row[t], p, job[p][t].started_at, job[p][t].outcome)
    BY <1>1 DEF StoreEffect
  <2> QED
    BY <2>1 DEF Recorded
<1>2. CASE job[p][t].phase = "release"
  <2>1. StoreEffect(p, t) = Released(row[t], p)
    BY <1>2 DEF StoreEffect
  <2> QED
    BY <2>1 DEF Released
<1>3. CASE job[p][t].phase = "delete"
  <2>1. StoreEffect(p, t) = Deleted(row[t])
    BY <1>3 DEF StoreEffect
  <2>2. row[t] \in Rows
    BY DEF TypeInv, TypeOK
  <2>3. \A r \in Rows : Deleted(r) = r \/ Deleted(r).status = "deleted"
    BY DEF Deleted, Rows
  <2> QED
    BY <2>1, <2>2, <2>3
<1> QED
  BY <1>1, <1>2, <1>3 DEF AtStoreCall

\* A lock that can be taken belongs to no job that executes the row.
LEMMA FreeLock ==
    ASSUME TypeInv, LockHeld, NEW t \in Tasks, CanAcquire(row[t], now)
    PROVE  \A p \in Pods : job[p][t].phase \notin Executing
<1> SUFFICES ASSUME NEW p \in Pods, job[p][t].phase \in Executing PROVE FALSE
  OBVIOUS
<1>1. LockHeldAt(p, t)
  BY DEF LockHeld
<1>2. /\ now <= job[p][t].until /\ row[t].owner = p /\ row[t].expire_at # NULL
      /\ LatestEnd(job[p][t]) < row[t].expire_at
  BY <1>1 DEF LockHeldAt, CanAcquire
<1>3. row[t].expire_at \in Nat /\ now \in Nat
  BY <1>2 DEF TypeInv, TypeOK, Rows
<1>4. now < row[t].expire_at
  BY <1>2, <1>3, EndAfterUntil
<1>5. ~(row[t].expire_at <= now)
  BY <1>3, <1>4
<1> QED
  BY <1>2, <1>5, PodsAssumption DEF CanAcquire, Locked

ExclusionInv == TypeInv /\ LockHeld /\ MutualExclusion

\* No step gives a second pod the execution of a row.
LEMMA ExclusionStep ==
    ASSUME NoOverrun
    PROVE  ExclusionInv /\ [Next]_vars => ExclusionInv'
<1> SUFFICES ASSUME ExclusionInv, [Next]_vars PROVE LockHeld' /\ MutualExclusion'
  BY TypeStep DEF ExclusionInv
<1>t. TypeInv /\ TypeOK /\ now \in Nat
  BY DEF ExclusionInv, TypeInv, TypeOK
\* A step after which nobody executes who did not before keeps exclusion.
<1>m. ASSUME \A q \in Pods, u \in Tasks :
                job'[q][u].phase \in Executing => job[q][u].phase \in Executing
      PROVE  MutualExclusion'
  BY <1>m DEF ExclusionInv, MutualExclusion
<1>1. CASE UNCHANGED <<now, row, job>>
  BY <1>1, <1>m, LockKept DEF ExclusionInv, LockHeld
<1>2. ASSUME NEW t \in Tasks, Submit(t) PROVE LockHeld' /\ MutualExclusion'
  <2>1. ASSUME NEW q \in Pods, NEW u \in Tasks PROVE LockHeldAt(q, u)'
    <3>1. CASE u = t
      BY <1>2, <3>1 DEF Submit, ExclusionInv, LockHeld, LockHeldAt
    <3>2. CASE u # t
      BY <1>2, <1>t, <3>2, LockKept DEF Submit, ExclusionInv, LockHeld, TypeOK
    <3> QED
      BY <3>1, <3>2
  <2> QED
    BY <1>2, <1>m, <2>1 DEF Submit, LockHeld
<1>3. ASSUME NEW p \in Pods, NEW t \in Tasks, TakeLock(p, t), now' = now,
             \A q \in Pods, u \in Tasks :
                <<q, u>> # <<p, t>> => job'[q][u] = job[q][u],
             job'[p][t] = job[p][t] \/ job'[p][t] = NewJob(grants[t] + 1)
      PROVE  LockHeld' /\ MutualExclusion'
  <2>1. \A q \in Pods : job[q][t].phase \notin Executing
    BY <1>3, FreeLock DEF TakeLock, ExclusionInv
  <2>2. ASSUME NEW q \in Pods, NEW u \in Tasks PROVE LockHeldAt(q, u)'
    <3>1. CASE u # t
      <4>1. row'[u] = row[u] /\ job'[q][u] = job[q][u]
        BY <1>3, <1>t, <3>1 DEF TakeLock, TypeOK
      <4> QED
        BY <1>3, <4>1, LockKept DEF ExclusionInv, LockHeld
    <3>2. CASE u = t /\ job'[q][u] = job[q][u]
      BY <2>1, <3>2 DEF LockHeldAt
    <3>3. CASE u = t /\ q = p /\ job'[p][t] = NewJob(grants[t] + 1)
      <4>1. row'[t] = Acquired(row[t], p, now, LockTTL) /\ row[t] \in Rows
        BY <1>3, <1>t DEF TakeLock, TypeOK
      <4>2. row'[t].status = "running" /\ row'[t].owner = p /\ row'[t].expire_at = now + LockTTL
        BY <4>1 DEF Acquired, Rows
      <4>3. now + LockTTL \in Nat
        BY <1>t, TimesAssumption DEF LockTTL
      <4>4. grants[t] + 1 \in Nat
        BY <1>t DEF TypeOK
      <4>5. LatestEnd(job'[p][t]) < now + LockTTL /\ now <= job'[p][t].until
        BY <1>t, <3>3, <4>4, EndOfNewJob
      <4> QED
        BY <1>3, <3>3, <4>2, <4>3, <4>5, NullAssumption DEF LockHeldAt, LatestEnd
    <3> QED
      BY <1>3, <3>1, <3>2, <3>3
  <2>3. MutualExclusion'
    BY <1>3, <2>1 DEF ExclusionInv, MutualExclusion
  <2> QED
    BY <2>2, <2>3 DEF LockHeld
<1>4. ASSUME NEW p \in Pods, NEW t \in Tasks, AcquireAndDispatch(p, t)
      PROVE  LockHeld' /\ MutualExclusion'
  BY <1>3, <1>4, <1>t DEF AcquireAndDispatch, TypeOK
<1>5. ASSUME NEW p \in Pods, AbandonTick(p), UNCHANGED <<now, job>>
      PROVE  LockHeld' /\ MutualExclusion'
  <2>1. CASE UNCHANGED <<row, grants>>
    BY <1>1, <1>5, <2>1
  <2>2. ASSUME NEW t \in Tasks, TakeLock(p, t) PROVE LockHeld' /\ MutualExclusion'
    BY <1>3, <1>5, <2>2
  <2> QED
    BY <1>5, <2>1, <2>2 DEF AbandonTick
<1>6. ASSUME NEW p \in Pods, NEW t \in Tasks,
             Begin(p, t) \/ Retry(p, t) \/ AttemptFails(p, t)
      PROVE  LockHeld' /\ MutualExclusion'
  <2> DEFINE j == job[p][t]
  <2>1. j \in Jobs /\ j.phase \in Executing /\ row' = row /\ now' = now
    BY <1>6, <1>t DEF Begin, Retry, AttemptFails, Executing, TypeOK
  <2>2. j.attempt < TaskMaxRuns
    BY <1>6, <1>t, <2>1, RunsAssumption
       DEF Begin, Retry, AttemptFails, LastAttempt, TypeInv, JobsInOrder, Jobs
  <2>3. LockHeldAt(p, t) /\ now <= j.until
    BY <2>1 DEF ExclusionInv, LockHeld, LockHeldAt
  <2>4. /\ \A q \in Pods, u \in Tasks : <<q, u>> # <<p, t>> => job'[q][u] = job[q][u]
        /\ EndsBy(job'[p][t], LatestEnd(j))
        /\ job'[p][t].phase \in Executing
    <3>1. CASE Begin(p, t)
      <4>1. job'[p][t] = [StartAttempt(j) EXCEPT !.started_at = now]
        BY <1>t, <3>1 DEF Begin, TypeOK
      <4>2. EndsBy(job'[p][t], LatestEnd(j))
        BY <1>t, <2>1, <2>2, <2>3, <3>1, <4>1, EndNotLater DEF Begin
      <4>3. job'[p][t].phase \in Executing
        BY <2>1, <4>1 DEF StartAttempt, Jobs, Executing
      <4> QED
        BY <1>t, <3>1, <4>2, <4>3 DEF Begin, TypeOK
    <3>2. CASE Retry(p, t)
      <4>1. job'[p][t] = StartAttempt(j)
        BY <1>t, <3>2 DEF Retry, TypeOK
      <4>2. EndsBy(job'[p][t], LatestEnd(j))
        BY <1>t, <2>1, <2>2, <2>3, <3>2, <4>1, EndNotLater DEF Retry
      <4>3. job'[p][t].phase \in Executing
        BY <2>1, <4>1 DEF StartAttempt, Jobs, Executing
      <4> QED
        BY <1>t, <3>2, <4>2, <4>3 DEF Retry, TypeOK
    <3>3. CASE AttemptFails(p, t)
      <4>1. job'[p][t] = [j EXCEPT !.phase = "backoff", !.until = now + Backoff + Lag]
        BY <1>t, <3>3 DEF AttemptFails, TypeOK
      <4>2. EndsBy(job'[p][t], LatestEnd(j))
        BY <1>t, <2>1, <2>2, <2>3, <3>3, <4>1, EndNotLater DEF AttemptFails
      <4>3. job'[p][t].phase \in Executing
        BY <2>1, <4>1 DEF Jobs, Executing
      <4> QED
        BY <1>t, <3>3, <4>2, <4>3 DEF AttemptFails, TypeOK
    <3> QED
      BY <1>6, <3>1, <3>2, <3>3
  <2>5. ASSUME NEW q \in Pods, NEW u \in Tasks PROVE LockHeldAt(q, u)'
    <3>1. CASE <<q, u>> # <<p, t>>
      BY <2>1, <2>4, <3>1, LockKept DEF ExclusionInv, LockHeld
    <3>2. CASE q = p /\ u = t
      <4>1. row[t].expire_at \in Nat \cup {NULL} /\ LatestEnd(j) \in Nat
        BY <1>t, <2>1, EndAfterUntil DEF TypeOK, Rows
      <4> QED
        BY <2>1, <2>3, <2>4, <3>2, <4>1 DEF LockHeldAt, EndsBy, LatestEnd
    <3> QED
      BY <3>1, <3>2
  <2> QED
    BY <1>m, <2>1, <2>4, <2>5 DEF LockHeld
<1>7. ASSUME NEW p \in Pods, NEW t \in Tasks,
             AttemptSucceeds(p, t) \/ LastAttemptFails(p, t)
      PROVE  LockHeld' /\ MutualExclusion'
  <2>1. /\ \A q \in Pods, u \in Tasks : <<q, u>> # <<p, t>> => job'[q][u] = job[q][u]
        /\ row' = row /\ now' = now
    BY <1>7, <1>t DEF AttemptSucceeds, LastAttemptFails, TypeOK
  <2>2. job'[p][t].phase = "record"
    <3>1. job[p][t] \in Jobs
      BY <1>t DEF TypeOK
    <3>2. \A o \in {"success", "failed"} : Return(job[p][t], o).phase = "record"
      BY <3>1, ReturnTypes
    <3> QED
      BY <1>7, <1>t, <3>2 DEF AttemptSucceeds, LastAttemptFails, TypeOK
  <2>3. ASSUME NEW q \in Pods, NEW u \in Tasks PROVE LockHeldAt(q, u)'
    <3>1. CASE <<q, u>> # <<p, t>>
      BY <2>1, <3>1, LockKept DEF ExclusionInv, LockHeld
    <3>2. CASE q = p /\ u = t
      BY <2>2, <3>2 DEF LockHeldAt, Executing
    <3> QED
      BY <3>1, <3>2
  <2> QED
    BY <1>m, <2>1, <2>2, <2>3 DEF LockHeld, Executing
<1>8. ASSUME NEW p \in Pods, NEW t \in Tasks,
             Record(p, t) \/ Release(p, t) \/ Delete(p, t) \/ JobFault(p, t)
      PROVE  LockHeld' /\ MutualExclusion'
  <2>1. /\ AtStoreCall(job[p][t]) /\ now' = now
        /\ row' = row \/ row' = [row EXCEPT ![t] = StoreEffect(p, t)]
    BY <1>8 DEF Record, Release, Delete, JobFault, AtStoreCall
  <2>2. job[p][t] \in Jobs
    BY <1>t DEF TypeOK
  <2>3. \A q \in Pods, u \in Tasks : <<q, u>> # <<p, t>> => job'[q][u] = job[q][u]
    BY <1>8, <1>t DEF Record, Release, Delete, JobFault, TypeOK
  <2>4. job'[p][t].phase \notin Executing
    <3>1. CASE Record(p, t)
      BY <1>t, <3>1 DEF Record, TypeOK, Jobs, Executing
    <3>2. CASE Release(p, t)
      BY <1>t, <2>2, <3>2, JobTypes DEF Release, TypeOK, Executing
    <3>3. CASE Delete(p, t)
      BY <1>t, <3>3 DEF Delete, NoJob, TypeOK, Executing
    <3>4. CASE JobFault(p, t)
      BY <1>t, <2>1, <2>2, <3>4, JobTypes DEF JobFault, TypeOK, Executing
    <3> QED
      BY <1>8, <3>1, <3>2, <3>3, <3>4
  <2>5. ASSUME NEW q \in Pods, NEW u \in Tasks PROVE LockHeldAt(q, u)'
    <3>1. CASE q = p /\ u = t
      BY <2>4, <3>1 DEF LockHeldAt
    <3>2. CASE u # t
      BY <1>t, <2>1, <2>3, <3>2, LockKept DEF TypeOK, ExclusionInv, LockHeld
    <3>3. CASE q # p /\ u = t /\ job[q][t].phase \notin Executing
      BY <2>3, <3>3 DEF LockHeldAt
    <3>4. CASE q # p /\ u = t /\ job[q][t].phase \in Executing
      <4>1. row[t].owner # p \/ ~InTable(row[t])
        BY <3>4 DEF ExclusionInv, LockHeld, LockHeldAt
      <4>2. row'[t] = row[t] \/ row'[t].status = "deleted"
        BY <1>t, <2>1, <4>1, StoreEffectOnOthers DEF TypeOK
      <4> QED
        BY <2>1, <2>3, <3>4, <4>2, LockKept DEF ExclusionInv, LockHeld
    <3> QED
      BY <3>1, <3>2, <3>3, <3>4
  <2> QED
    BY <1>m, <2>3, <2>4, <2>5 DEF LockHeld
<1>9. ASSUME NEW p \in Pods, GraceExpires(p) PROVE LockHeld' /\ MutualExclusion'
  <2>1. /\ now' = now
        /\ \A t \in Tasks :
              \/ row'[t] = row[t]
              \/ AtStoreCall(job[p][t]) /\ row'[t] = StoreEffect(p, t)
    BY <1>9 DEF GraceExpires
  <2>2. \A q \in Pods : q # p => job'[q] = job[q]
    BY <1>9, <1>t DEF GraceExpires, TypeOK
  <2>3. \A t \in Tasks : job'[p][t].phase \notin Executing
    BY <1>9, <1>t, JobTypes DEF GraceExpires, NoJob, TypeOK, Executing
  <2>4. ASSUME NEW q \in Pods, NEW u \in Tasks PROVE LockHeldAt(q, u)'
    <3>1. CASE q = p
      BY <2>3, <3>1 DEF LockHeldAt
    <3>2. CASE q # p /\ job[q][u].phase \notin Executing
      BY <2>2, <3>2 DEF LockHeldAt
    <3>3. CASE q # p /\ job[q][u].phase \in Executing
      <4>1. row[u].owner # p \/ ~InTable(row[u])
        BY <3>3 DEF ExclusionInv, LockHeld, LockHeldAt
      <4>2. row'[u] = row[u] \/ row'[u].status = "deleted"
        BY <1>t, <2>1, <4>1, StoreEffectOnOthers
      <4> QED
        BY <2>1, <2>2, <3>3, <4>2, LockKept DEF ExclusionInv, LockHeld
    <3> QED
      BY <3>1, <3>2, <3>3
  <2> QED
    BY <1>m, <2>2, <2>3, <2>4 DEF LockHeld
<1>10. ASSUME NEW p \in Pods, Crash(p) PROVE LockHeld' /\ MutualExclusion'
  <2>1. \A q \in Pods : q # p => job'[q] = job[q]
    BY <1>10, <1>t DEF Crash, TypeOK
  <2>2. \A t \in Tasks : job'[p][t].phase \notin Executing
    BY <1>10, <1>t DEF Crash, NoJob, TypeOK, Executing
  <2>3. ASSUME NEW q \in Pods, NEW u \in Tasks PROVE LockHeldAt(q, u)'
    <3>1. CASE q = p
      BY <2>2, <3>1 DEF LockHeldAt
    <3>2. CASE q # p
      BY <1>10, <2>1, <3>2, LockKept DEF Crash, ExclusionInv, LockHeld
    <3> QED
      BY <3>1, <3>2
  <2> QED
    BY <1>m, <2>1, <2>2, <2>3 DEF LockHeld
<1>11. CASE Cleanup
  <2>1. \A t \in Tasks : Deleted(row[t]) = row[t] \/ Deleted(row[t]).status = "deleted"
    <3>1. \A r \in Rows : Deleted(r) = r \/ Deleted(r).status = "deleted"
      BY DEF Deleted, Rows
    <3> QED
      BY <1>t, <3>1 DEF TypeOK
  <2>2. \A t \in Tasks : row'[t] = row[t] \/ row'[t].status = "deleted"
    BY <1>11, <2>1 DEF Cleanup
  <2> QED
    BY <1>11, <1>m, <2>2, LockKept DEF Cleanup, ExclusionInv, LockHeld
<1>12. CASE Advance
  <2>1. ASSUME NEW q \in Pods, NEW u \in Tasks PROVE LockHeldAt(q, u)'
    <3>1. job[q][u].phase \in Executing => now + 1 <= job[q][u].until
      BY <1>12, <1>t DEF Advance, TypeOK, Jobs
    <3> QED
      BY <1>12, <3>1 DEF Advance, ExclusionInv, LockHeld, LockHeldAt, LatestEnd
  <2> QED
    BY <1>12, <1>m, <2>1 DEF Advance, LockHeld
<1> QED
  BY <1>1, <1>2, <1>4, <1>5, <1>6, <1>7, <1>8, <1>9, <1>10, <1>11, <1>12
     DEF Next, LoopStep, JobStep, PodStep, vars, ListPending, TickFault, PassOver,
         CheckCap, AcquireRefused, Stop, Restart

LEMMA ExclusionInit == Init => ExclusionInv
<1>1. Init => TypeInv
  BY TimesAssumption, RunsAssumption
     DEF Init, TypeInv, TypeOK, JobsInOrder, Rows, Jobs, NoJob, IdleLoop, Statuses
<1>2. Init => LockHeld /\ MutualExclusion
  BY DEF Init, LockHeld, LockHeldAt, MutualExclusion, NoJob, Executing
<1> QED
  BY <1>1, <1>2 DEF ExclusionInv

\* "The lock ensures that only one pod executes a row at any time", proved
\* for every number of pods and rows, under every crash, store fault and
\* shutdown, provided all attempts of an execute() fit into the lock's TTL.
THEOREM OnePodExecutes ==
    ASSUME NoOverrun
    PROVE  Spec => []MutualExclusion
<1>1. Init => ExclusionInv
  BY ExclusionInit
<1>2. ExclusionInv /\ [Next]_vars => ExclusionInv'
  BY ExclusionStep
<1>3. ExclusionInv => MutualExclusion
  BY DEF ExclusionInv
<1> QED
  BY <1>1, <1>2, <1>3, PTL DEF Spec

---------------------------------------------------------------------------
(* Fencing: with or without overruns. *)

FencingInv == TypeInv /\ OneJobPerRow /\ LatestGrantOwns

\* The store call of a job changes the owner of its row only to NULL, and
\* writes nothing into a row that another pod owns.
LEMMA StoreEffectOwner ==
    ASSUME TypeInv, NEW p \in Pods, NEW t \in Tasks, AtStoreCall(job[p][t])
    PROVE  /\ StoreEffect(p, t).owner \in {row[t].owner, NULL}
           /\ \/ StoreEffect(p, t).run_count # row[t].run_count
              \/ row[t].owner # NULL /\ StoreEffect(p, t).owner = NULL
                 /\ InTable(StoreEffect(p, t))
              => row[t].owner = p /\ job[p][t].phase \in {"record", "release"}
<1>1. row[t] \in Rows
  BY DEF TypeInv, TypeOK
<1>2. CASE job[p][t].phase = "record"
  <2>1. StoreEffect(p, t) = Recorded(row[t], p, job[p][t].started_at, job[p][t].outcome)
    BY <1>2 DEF StoreEffect
  <2> QED
    BY <1>1, <1>2, <2>1 DEF Recorded, Rows
<1>3. CASE job[p][t].phase = "release"
  <2>1. StoreEffect(p, t) = Released(row[t], p)
    BY <1>3 DEF StoreEffect
  <2> QED
    BY <1>1, <1>3, <2>1 DEF Released, Rows
<1>4. CASE job[p][t].phase = "delete"
  <2>1. StoreEffect(p, t) = Deleted(row[t])
    BY <1>4 DEF StoreEffect
  <2>2. \A r \in Rows : /\ Deleted(r).owner \in {r.owner, NULL}
                        /\ Deleted(r).run_count = r.run_count
                        /\ Deleted(r) = r \/ ~InTable(Deleted(r))
    BY DEF Deleted, Rows, InTable
  <2> QED
    BY <1>1, <2>1, <2>2
<1> QED
  BY <1>2, <1>3, <1>4 DEF AtStoreCall

\* No step leaves a row naming the pod of a job that lost the row's lock.
LEMMA FencingStep == FencingInv /\ [Next]_vars => FencingInv'
<1> SUFFICES ASSUME FencingInv, [Next]_vars PROVE OneJobPerRow' /\ LatestGrantOwns'
  BY TypeStep DEF FencingInv
<1>t. TypeInv /\ TypeOK
  BY DEF FencingInv, TypeInv
\* Whoever is in flight was so before, unless the tick loop has moved on.
<1>o. ASSUME \A q \in Pods : loop'[q] = loop[q] \/ loop'[q].pc # "acquire",
             \A q \in Pods, u \in Tasks : InFlight(q, u)' => InFlight(q, u)
      PROVE  OneJobPerRow'
  BY <1>o DEF FencingInv, OneJobPerRow, AtRow, InFlight
\* A step that grants nothing keeps the grants of the jobs it leaves.
<1>g. ASSUME grants' = grants,
             \A q \in Pods, u \in Tasks :
                InFlight(q, u)' => InFlight(q, u) /\ job'[q][u].grant = job[q][u].grant,
             \A u \in Tasks : row'[u].owner \in {row[u].owner, NULL}
      PROVE  LatestGrantOwns'
  BY <1>g, PodsAssumption DEF FencingInv, LatestGrantOwns, InFlight
<1>1. CASE UNCHANGED <<row, job, grants, loop>>
  BY <1>1, <1>o, <1>g DEF InFlight
<1>2. ASSUME NEW t \in Tasks, Submit(t) PROVE OneJobPerRow' /\ LatestGrantOwns'
  <2>1. \A u \in Tasks : row'[u].owner = row[u].owner
    <3>1. \A r \in Rows : [r EXCEPT !.status = "pending"].owner = r.owner
      BY DEF Rows
    <3> QED
      BY <1>2, <1>t, <3>1 DEF Submit, TypeOK
  <2> QED
    BY <1>2, <1>o, <1>g, <2>1 DEF Submit, InFlight
<1>3. ASSUME NEW p \in Pods, ListPending(p) PROVE OneJobPerRow' /\ LatestGrantOwns'
  <2>1. \A q \in Pods : loop'[q] = loop[q] \/ loop'[q].pc # "acquire"
    BY <1>3, <1>t DEF ListPending, TypeOK
  <2> QED
    BY <1>3, <1>o, <1>g, <2>1 DEF ListPending, InFlight
<1>4. ASSUME NEW p \in Pods, NEW t \in Tasks, PassOver(p, t) \/ AcquireRefused(p, t)
      PROVE  OneJobPerRow' /\ LatestGrantOwns'
  <2>1. \A q \in Pods : loop'[q] = loop[q] \/ loop'[q].pc # "acquire"
    BY <1>4, <1>t DEF PassOver, AcquireRefused, NextRow, TypeOK
  <2> QED
    BY <1>4, <1>o, <1>g, <2>1 DEF PassOver, AcquireRefused, InFlight
<1>5. ASSUME NEW p \in Pods, NEW t \in Tasks, CheckCap(p, t)
      PROVE  OneJobPerRow' /\ LatestGrantOwns'
  <2>1. CASE CapReached
    <3>1. \A q \in Pods : loop'[q] = loop[q] \/ loop'[q].pc # "acquire"
      BY <1>5, <1>t, <2>1 DEF CheckCap, NextRow, TypeOK
    <3> QED
      BY <1>5, <1>o, <1>g, <3>1 DEF CheckCap, InFlight
  <2>2. CASE ~CapReached
    <3>1. /\ loop' = [loop EXCEPT ![p] = [loop[p] EXCEPT !.pc = "acquire"]]
          /\ job' = job /\ ~InFlight(p, t)
      BY <1>5, <2>2 DEF CheckCap, PassesOver
    <3>2. loop'[p].todo = loop[p].todo /\ \A q \in Pods : q # p => loop'[q] = loop[q]
      BY <1>t, <3>1 DEF TypeOK
    <3>3. \A u \in Tasks : AtRow(p, u)' => u = t
      BY <1>5, <3>2, TasksAssumption DEF CheckCap, AtRow
    <3>4. OneJobPerRow'
      BY <3>1, <3>2, <3>3 DEF FencingInv, OneJobPerRow, AtRow, InFlight
    <3> QED
      BY <1>5, <1>g, <3>4 DEF CheckCap, InFlight
  <2> QED
    BY <2>1, <2>2
<1>6. ASSUME NEW p \in Pods, NEW t \in Tasks, AcquireAndDispatch(p, t)
      PROVE  OneJobPerRow' /\ LatestGrantOwns'
  <2>1. /\ loop'[p].pc # "acquire"
        /\ \A q \in Pods : q # p => loop'[q] = loop[q] /\ job'[q] = job[q]
        /\ \A u \in Tasks : u # t => job'[p][u] = job[p][u] /\ row'[u] = row[u]
        /\ job'[p][t] = NewJob(grants[t] + 1)
        /\ row'[t] = Acquired(row[t], p, now, LockTTL)
        /\ grants' = [grants EXCEPT ![t] = @ + 1]
    BY <1>6, <1>t DEF AcquireAndDispatch, TakeLock, NextRow, TypeOK
  <2>2. OneJobPerRow'
    BY <2>1 DEF FencingInv, OneJobPerRow, AtRow, InFlight
  <2>3. row'[t].owner = p /\ job'[p][t].grant = grants'[t]
    BY <1>t, <2>1 DEF Acquired, NewJob, TypeOK, Rows
  <2>4. \A u \in Tasks : u # t => grants'[u] = grants[u]
    BY <1>t, <2>1 DEF TypeOK
  <2>5. LatestGrantOwns'
    BY <2>1, <2>3, <2>4 DEF FencingInv, LatestGrantOwns, InFlight
  <2> QED
    BY <2>2, <2>5
<1>7. ASSUME NEW p \in Pods, AbandonTick(p), UNCHANGED job
      PROVE  OneJobPerRow' /\ LatestGrantOwns'
  <2>1. \A q \in Pods : loop'[q] = loop[q] \/ loop'[q].pc # "acquire"
    BY <1>7, <1>t DEF AbandonTick, IdleLoop, TypeOK
  <2>2. OneJobPerRow'
    BY <1>7, <1>o, <2>1 DEF InFlight
  <2>3. CASE UNCHANGED <<row, grants>>
    BY <1>7, <1>g, <2>2, <2>3 DEF InFlight
  <2>4. ASSUME NEW t \in Tasks, loop[p].pc = "acquire", AtRow(p, t), TakeLock(p, t)
        PROVE  LatestGrantOwns'
    <3>1. ~InFlight(p, t)
      BY <2>4 DEF FencingInv, OneJobPerRow
    <3>2. row'[t].owner = p /\ \A u \in Tasks : u # t => row'[u] = row[u]
      BY <1>t, <2>4 DEF TakeLock, Acquired, TypeOK, Rows
    <3>3. \A u \in Tasks : u # t => grants'[u] = grants[u]
      BY <1>t, <2>4 DEF TakeLock, TypeOK
    <3> QED
      BY <1>7, <3>1, <3>2, <3>3 DEF FencingInv, LatestGrantOwns, InFlight
  <2> QED
    BY <1>7, <2>2, <2>3, <2>4 DEF AbandonTick
<1>8. ASSUME NEW p \in Pods, NEW t \in Tasks, NEW j,
             job' = [job EXCEPT ![p][t] = j], j.phase # "none" => j.grant = job[p][t].grant,
             InFlight(p, t), UNCHANGED <<loop, grants>>,
             \A u \in Tasks : row'[u].owner \in {row[u].owner, NULL}
      PROVE  OneJobPerRow' /\ LatestGrantOwns'
  <2>1. \A q \in Pods, u \in Tasks :
           InFlight(q, u)' => InFlight(q, u) /\ job'[q][u].grant = job[q][u].grant
    BY <1>8, <1>t DEF InFlight, TypeOK
  <2> QED
    BY <1>8, <1>o, <1>g, <2>1
<1>9. ASSUME NEW p \in Pods, NEW t \in Tasks,
             \/ Begin(p, t) \/ Retry(p, t) \/ AttemptFails(p, t)
             \/ AttemptSucceeds(p, t) \/ LastAttemptFails(p, t)
      PROVE  OneJobPerRow' /\ LatestGrantOwns'
  <2>1. job[p][t] \in Jobs /\ InFlight(p, t) /\ UNCHANGED <<loop, grants, row>>
    BY <1>9, <1>t
       DEF Begin, Retry, AttemptFails, AttemptSucceeds, LastAttemptFails, InFlight, TypeOK
  <2>2. \A i \in Jobs :
           /\ StartAttempt(i).grant = i.grant
           /\ [StartAttempt(i) EXCEPT !.started_at = now].grant = i.grant
           /\ [i EXCEPT !.phase = "backoff", !.until = now + Backoff + Lag].grant = i.grant
           /\ \A o : Return(i, o).grant = i.grant
    BY DEF StartAttempt, Return, Jobs
  <2>3. PICK j : job' = [job EXCEPT ![p][t] = j] /\ j.grant = job[p][t].grant
    <3> DEFINE retried == StartAttempt(job[p][t])
               begun == [retried EXCEPT !.started_at = now]
               returned(o) == Return(job[p][t], o)
    <3>a. /\ retried.grant = job[p][t].grant /\ begun.grant = job[p][t].grant
          /\ \A o : returned(o).grant = job[p][t].grant
      BY <2>1, <2>2
    <3>1. CASE Begin(p, t)
      <4>1. job' = [job EXCEPT ![p][t] = begun]
        BY <3>1 DEF Begin
      <4> HIDE DEF begun
      <4> QED
        BY <3>a, <4>1
    <3>2. CASE Retry(p, t)
      <4>1. job' = [job EXCEPT ![p][t] = retried]
        BY <3>2 DEF Retry
      <4> HIDE DEF retried
      <4> QED
        BY <3>a, <4>1
    <3>3. CASE AttemptFails(p, t)
      BY <2>1, <2>2, <3>3 DEF AttemptFails
    <3>4. CASE AttemptSucceeds(p, t) \/ LastAttemptFails(p, t)
      <4>1. \E o : job' = [job EXCEPT ![p][t] = returned(o)]
        BY <3>4 DEF AttemptSucceeds, LastAttemptFails
      <4> HIDE DEF returned
      <4> QED
        BY <3>a, <4>1
    <3> QED
      BY <1>9, <3>1, <3>2, <3>3, <3>4
  <2> QED
    BY <1>8, <2>1, <2>3
<1>10. ASSUME NEW p \in Pods, NEW t \in Tasks,
              Record(p, t) \/ Release(p, t) \/ Delete(p, t) \/ JobFault(p, t)
       PROVE  OneJobPerRow' /\ LatestGrantOwns'
  <2>1. /\ AtStoreCall(job[p][t]) /\ InFlight(p, t) /\ job[p][t] \in Jobs
        /\ UNCHANGED <<loop, grants>>
        /\ row' = row \/ row' = [row EXCEPT ![t] = StoreEffect(p, t)]
    BY <1>10, <1>t DEF Record, Release, Delete, JobFault, AtStoreCall, InFlight, TypeOK
  <2>2. \A u \in Tasks : row'[u].owner \in {row[u].owner, NULL}
    BY <1>t, <2>1, StoreEffectOwner DEF TypeOK
  <2>3. \A i \in Jobs :
           /\ [i EXCEPT !.phase = "release"].grant = i.grant
           /\ AfterRelease(i).phase # "none" => AfterRelease(i).grant = i.grant
           /\ Unwind(i).grant = i.grant
    BY DEF AfterRelease, Unwind, NoJob, Jobs
  <2>4. AfterFault(job[p][t]).phase # "none" => AfterFault(job[p][t]).grant = job[p][t].grant
    <3>1. CASE job[p][t].phase = "record"
      BY <2>1, <2>3, <3>1 DEF AfterFault
    <3>2. CASE job[p][t].phase = "release"
      BY <2>1, <2>3, <3>2 DEF AfterFault
    <3>3. CASE job[p][t].phase = "delete"
      <4>1. AfterFault(job[p][t]) = NoJob
        BY <3>3 DEF AfterFault
      <4> QED
        BY <4>1 DEF NoJob
    <3> QED
      BY <2>1, <3>1, <3>2, <3>3 DEF AtStoreCall
  <2>5. PICK j : /\ job' = [job EXCEPT ![p][t] = j]
                 /\ j.phase # "none" => j.grant = job[p][t].grant
    <3>1. CASE Record(p, t)
      <4>1. job' = [job EXCEPT ![p][t] = [job[p][t] EXCEPT !.phase = "release"]]
        BY <3>1 DEF Record
      <4> QED
        BY <2>1, <2>3, <4>1
    <3>2. CASE Release(p, t)
      BY <2>1, <2>3, <3>2 DEF Release
    <3>3. CASE Delete(p, t)
      <4>1. NoJob.phase = "none"
        BY DEF NoJob
      <4> QED
        BY <3>3, <4>1 DEF Delete
    <3>4. CASE JobFault(p, t)
      BY <2>4, <3>4 DEF JobFault
    <3> QED
      BY <1>10, <3>1, <3>2, <3>3, <3>4
  <2> QED
    BY <1>8, <2>1, <2>2, <2>5
<1>11. ASSUME NEW p \in Pods, GraceExpires(p) PROVE OneJobPerRow' /\ LatestGrantOwns'
  <2>1. \A u \in Tasks : row'[u].owner \in {row[u].owner, NULL}
    BY <1>11, <1>t, StoreEffectOwner DEF GraceExpires
  <2>2. \A i \in Jobs : Unwind(i).grant = i.grant
    BY DEF Unwind, Jobs
  <2>3. /\ \A q \in Pods : q # p => job'[q] = job[q]
        /\ \A u \in Tasks :
              job'[p][u] = IF job[p][u].phase \in Executing \cup {"record"}
                           THEN Unwind(job[p][u]) ELSE NoJob
    BY <1>11, <1>t DEF GraceExpires, TypeOK
  <2>4. \A q \in Pods, u \in Tasks :
           InFlight(q, u)' => InFlight(q, u) /\ job'[q][u].grant = job[q][u].grant
    <3> SUFFICES ASSUME NEW q \in Pods, NEW u \in Tasks, InFlight(q, u)'
                 PROVE  InFlight(q, u) /\ job'[q][u].grant = job[q][u].grant
      OBVIOUS
    <3>1. CASE q # p
      BY <2>3, <3>1 DEF InFlight
    <3>2. CASE q = p
      <4>1. job[p][u].phase \in Executing \cup {"record"} /\ job'[p][u] = Unwind(job[p][u])
        BY <2>3, <3>2 DEF InFlight, NoJob
      <4>2. job[p][u] \in Jobs
        BY <1>t DEF TypeOK
      <4> QED
        BY <2>2, <3>2, <4>1, <4>2 DEF InFlight, Executing
    <3> QED
      BY <3>1, <3>2
  <2> QED
    BY <1>11, <1>o, <1>g, <2>1, <2>4 DEF GraceExpires
<1>12. ASSUME NEW p \in Pods, Crash(p) PROVE OneJobPerRow' /\ LatestGrantOwns'
  <2>0. /\ \A q \in Pods : q # p => job'[q] = job[q]
        /\ \A u \in Tasks : job'[p][u].phase = "none"
    BY <1>12, <1>t DEF Crash, NoJob, TypeOK
  <2>1. \A q \in Pods, u \in Tasks :
           InFlight(q, u)' => InFlight(q, u) /\ job'[q][u].grant = job[q][u].grant
    BY <2>0 DEF InFlight
  <2>2. \A q \in Pods : loop'[q] = loop[q] \/ loop'[q].pc # "acquire"
    BY <1>12, <1>t DEF Crash, IdleLoop, TypeOK
  <2> QED
    BY <1>12, <1>o, <1>g, <2>1, <2>2 DEF Crash
<1>13. CASE Cleanup
  <2>1. \A r \in Rows : Deleted(r).owner \in {r.owner, NULL}
    BY DEF Deleted, Rows
  <2>2. \A u \in Tasks : row'[u].owner \in {row[u].owner, NULL}
    BY <1>13, <1>t, <2>1 DEF Cleanup, TypeOK
  <2> QED
    BY <1>13, <1>o, <1>g, <2>2 DEF Cleanup, InFlight
<1> QED
  BY <1>1, <1>2, <1>3, <1>4, <1>5, <1>6, <1>7, <1>9, <1>10, <1>11, <1>12, <1>13
     DEF Next, LoopStep, JobStep, PodStep, vars, TickFault, Stop, Restart, Advance

LEMMA FencingInit == Init => FencingInv
<1>1. Init => TypeInv
  BY TimesAssumption, RunsAssumption
     DEF Init, TypeInv, TypeOK, JobsInOrder, Rows, Jobs, NoJob, IdleLoop, Statuses
<1>2. Init => OneJobPerRow /\ LatestGrantOwns
  BY DEF Init, OneJobPerRow, LatestGrantOwns, InFlight, NoJob, IdleLoop
<1> QED
  BY <1>1, <1>2 DEF FencingInv

\* The in_flight check of the tick, several awaits before the lock, is never
\* stale: no pod is about to lock a row that it has in flight, however jobs,
\* ticks and restarts of the pod interleave.
THEOREM NoSecondJob == Spec => []OneJobPerRow
<1>1. FencingInv => OneJobPerRow
  BY DEF FencingInv
<1> QED
  BY <1>1, FencingInit, FencingStep, PTL DEF Spec

\* A row that names a pod while the pod has a job on it names the pod's newest
\* job, so that comparing the owner column with the pod_id, as every fenced
\* UPDATE does, is as good as comparing grants.
THEOREM OwnerIsNewest == Spec => []LatestGrantOwns
<1>1. FencingInv => LatestGrantOwns
  BY DEF FencingInv
<1> QED
  BY <1>1, FencingInit, FencingStep, PTL DEF Spec

\* The owner column fences late jobs: for any number of pods, rows, crashes,
\* faults and overruns, an outcome is recorded and a lock is given back only
\* by the job the lock was last granted to.
THEOREM LateJobsAreFenced == Spec => FencedWrites
<1> DEFINE Write(t) ==
        \/ row'[t].run_count # row[t].run_count
        \/ row[t].owner # NULL /\ row'[t].owner = NULL /\ InTable(row'[t])
    Holder(t) ==
        \E p \in Pods : /\ job[p][t].phase \in {"record", "release"}
                        /\ job[p][t].grant = grants[t]
<1>1. FencingInv /\ [Next]_vars => [\A t \in Tasks : Write(t) => Holder(t)]_vars
  <2> SUFFICES ASSUME FencingInv, Next, NEW t \in Tasks, Write(t) PROVE Holder(t)
    OBVIOUS
  <2>t. TypeInv /\ TypeOK /\ row[t] \in Rows
    BY DEF FencingInv, TypeInv, TypeOK
  <2>1. row'[t] # row[t]
    BY <2>t, PodsAssumption DEF Rows
  <2>2. ASSUME NEW p \in Pods, AtStoreCall(job[p][t]), row'[t] = StoreEffect(p, t)
        PROVE  Holder(t)
    <3>1. row[t].owner = p /\ job[p][t].phase \in {"record", "release"}
      BY <2>2, <2>t, StoreEffectOwner
    <3> QED
      BY <3>1 DEF FencingInv, LatestGrantOwns, InFlight
  <2>3. ASSUME NEW u \in Tasks, Submit(u) PROVE Holder(t)
    <3>1. \A r \in Rows : LET s == [r EXCEPT !.status = "pending"]
                          IN  s.run_count = r.run_count /\ s.owner = r.owner
      BY DEF Rows
    <3> QED
      BY <2>3, <2>t, <3>1 DEF Submit, TypeOK
  <2>4. ASSUME NEW p \in Pods, NEW u \in Tasks, TakeLock(p, u) PROVE Holder(t)
    <3>1. \A r \in Rows : LET s == Acquired(r, p, now, LockTTL)
                          IN  s.run_count = r.run_count /\ s.owner = p
      BY DEF Acquired, Rows
    <3> QED
      BY <2>4, <2>t, <3>1, PodsAssumption DEF TakeLock, TypeOK
  <2>5. ASSUME NEW p \in Pods, NEW u \in Tasks,
               Record(p, u) \/ Release(p, u) \/ Delete(p, u) \/ JobFault(p, u)
        PROVE  Holder(t)
    <3>1. /\ AtStoreCall(job[p][u])
          /\ row' = row \/ row' = [row EXCEPT ![u] = StoreEffect(p, u)]
      BY <2>5 DEF Record, Release, Delete, JobFault, AtStoreCall
    <3> QED
      BY <2>1, <2>2, <2>t, <3>1 DEF TypeOK
  <2>6. ASSUME NEW p \in Pods, GraceExpires(p) PROVE Holder(t)
    BY <2>1, <2>2, <2>6 DEF GraceExpires
  <2>7. CASE Cleanup
    <3>1. \A r \in Rows : /\ Deleted(r).run_count = r.run_count
                          /\ Deleted(r) = r \/ ~InTable(Deleted(r))
      BY DEF Deleted, Rows, InTable
    <3> QED
      BY <2>1, <2>7, <2>t, <3>1 DEF Cleanup
  \* The other steps leave the rows alone or take a lock.
  <2>8. ASSUME NEW p \in Pods, AbandonTick(p) PROVE Holder(t)
    BY <2>1, <2>4, <2>8 DEF AbandonTick
  <2>9. ASSUME NEW p \in Pods, LoopStep(p) PROVE Holder(t)
    BY <2>1, <2>4, <2>8, <2>9
       DEF LoopStep, ListPending, PassOver, CheckCap, AcquireAndDispatch, AcquireRefused, TickFault
  <2>10. ASSUME NEW p \in Pods, PodStep(p) PROVE Holder(t)
    BY <2>1, <2>6, <2>8, <2>10 DEF PodStep, Stop, Crash, Restart
  <2>11. ASSUME NEW p \in Pods, NEW u \in Tasks, JobStep(p, u) PROVE Holder(t)
    BY <2>1, <2>5, <2>11
       DEF JobStep, Begin, AttemptSucceeds, AttemptFails, Retry, LastAttemptFails
  <2>12. ~Advance
    BY <2>1 DEF Advance
  <2> QED
    BY <2>3, <2>5, <2>7, <2>9, <2>10, <2>11, <2>12 DEF Next
<1> QED
  BY FencingInit, <1>1, FencingStep, PTL DEF Spec, FencedWrites

---------------------------------------------------------------------------
(* At-least-once execution. *)

\* The row has left the queue for good.
LeftQueue(r) == r.status \in {"success", "failed", "deleted"}

\* The job may still write an outcome into its row, or delete it, and is one
\* whose execute() has returned; a job that was cut off only releases.
MayTakeOut(j) ==
    \/ j.phase \in {"record", "delete"}
    \/ j.phase = "release" /\ j.outcome = "success"

\* What makes AtLeastOnce inductive: not only the rows that have left, but the
\* jobs that may yet take a row out, are of rows that finished.
RanInv ==
    /\ TypeInv
    /\ \A t \in Tasks : LeftQueue(row[t]) => t \in finished
    /\ \A p \in Pods, t \in Tasks : MayTakeOut(job[p][t]) => t \in finished

\* A store call takes a row out of the queue only for a job that may do so.
LEMMA StoreEffectLeaves ==
    ASSUME TypeInv, NEW p \in Pods, NEW t \in Tasks, AtStoreCall(job[p][t]),
           LeftQueue(StoreEffect(p, t))
    PROVE  LeftQueue(row[t]) \/ MayTakeOut(job[p][t])
<1>1. row[t] \in Rows
  BY DEF TypeInv, TypeOK
<1>2. CASE job[p][t].phase = "release"
  <2>1. StoreEffect(p, t) = Released(row[t], p)
    BY <1>2 DEF StoreEffect
  <2> QED
    BY <1>1, <2>1 DEF Released, Rows, LeftQueue
<1> QED
  BY <1>2 DEF AtStoreCall, MayTakeOut

\* Where failed rows are kept, neither the end of a phase nor a fault in it
\* makes a job able to take its row out that was not.
LEMMA TakeOutKept ==
    ASSUME FailureRetention # 0, NEW j \in Jobs
    PROVE  /\ ~MayTakeOut(NoJob) /\ ~MayTakeOut(Unwind(j))
           /\ j.phase = "record" => MayTakeOut(j)
           /\ j.phase = "release" /\ MayTakeOut(AfterRelease(j)) => MayTakeOut(j)
           /\ AtStoreCall(j) /\ MayTakeOut(AfterFault(j)) => MayTakeOut(j)
<1>1. ~MayTakeOut(NoJob) /\ ~MayTakeOut(Unwind(j))
  BY DEF MayTakeOut, NoJob, Unwind, Jobs
<1>2. j.phase = "record" => MayTakeOut(j)
  BY DEF MayTakeOut
<1>3. j.phase = "release" /\ MayTakeOut(AfterRelease(j)) => MayTakeOut(j)
  BY <1>1 DEF MayTakeOut, AfterRelease, ShouldDelete
<1>4. ASSUME AtStoreCall(j), MayTakeOut(AfterFault(j)) PROVE MayTakeOut(j)
  <2>1. CASE j.phase = "release"
    BY <1>3, <1>4, <2>1 DEF AfterFault
  <2> QED
    BY <1>4, <2>1 DEF AtStoreCall, MayTakeOut
<1> QED
  BY <1>1, <1>2, <1>3, <1>4

\* Every step keeps rows and jobs to what has finished.
LEMMA RanStep ==
    ASSUME FailureRetention # 0, RanInv, [Next]_vars
    PROVE  RanInv'
<1>t. TypeInv /\ TypeOK /\ TypeInv'
  BY TypeStep DEF RanInv, TypeInv
<1>j. \A p \in Pods, t \in Tasks : job[p][t] \in Jobs
  BY <1>t DEF TypeOK
\* A step that changes neither what has left nor what may leave.
<1>k. ASSUME finished \subseteq finished',
             \A t \in Tasks : LeftQueue(row'[t]) => LeftQueue(row[t]) \/ t \in finished',
             \A p \in Pods, t \in Tasks :
                MayTakeOut(job'[p][t]) => MayTakeOut(job[p][t]) \/ t \in finished'
      PROVE  RanInv'
  BY <1>k, <1>t DEF RanInv, LeftQueue, MayTakeOut
<1>1. CASE UNCHANGED <<row, job, finished>>
  BY <1>1, <1>k
<1>2. ASSUME NEW t \in Tasks, Submit(t) PROVE RanInv'
  <2>1. \A r \in Rows : ~LeftQueue([r EXCEPT !.status = "pending"])
    BY DEF LeftQueue, Rows
  <2>2. \A u \in Tasks : LeftQueue(row'[u]) => LeftQueue(row[u])
    BY <1>2, <1>t, <2>1 DEF Submit, TypeOK
  <2> QED
    BY <1>2, <1>k, <2>2 DEF Submit
<1>3. ASSUME NEW p \in Pods, NEW t \in Tasks, TakeLock(p, t), finished' = finished,
             job' = job \/ job' = [job EXCEPT ![p][t] = NewJob(grants[t] + 1)]
      PROVE  RanInv'
  <2>1. \A r \in Rows : ~LeftQueue(Acquired(r, p, now, LockTTL))
    BY DEF LeftQueue, Rows, Acquired
  <2>2. \A u \in Tasks : LeftQueue(row'[u]) => LeftQueue(row[u])
    BY <1>3, <1>t, <2>1 DEF TakeLock, TypeOK
  <2>3. ~MayTakeOut(NewJob(grants[t] + 1))
    BY DEF MayTakeOut, NewJob
  <2>4. \A q \in Pods, u \in Tasks : MayTakeOut(job'[q][u]) => MayTakeOut(job[q][u])
    BY <1>3, <1>t, <2>3 DEF TypeOK
  <2> QED
    BY <1>3, <1>k, <2>2, <2>4
<1>4. ASSUME NEW p \in Pods, NEW t \in Tasks, NEW j,
             job' = [job EXCEPT ![p][t] = j],
             MayTakeOut(j) => MayTakeOut(job[p][t]) \/ t \in finished',
             finished \subseteq finished',
             \A u \in Tasks : LeftQueue(row'[u]) => LeftQueue(row[u]) \/ u \in finished'
      PROVE  RanInv'
  <2>1. \A q \in Pods, u \in Tasks :
           MayTakeOut(job'[q][u]) => MayTakeOut(job[q][u]) \/ u \in finished'
    BY <1>4, <1>t DEF TypeOK
  <2> QED
    BY <1>4, <1>k, <2>1
<1>5. ASSUME NEW p \in Pods, NEW t \in Tasks,
             Begin(p, t) \/ Retry(p, t) \/ AttemptFails(p, t)
      PROVE  RanInv'
  <2>1. \A i \in Jobs :
           /\ ~MayTakeOut(StartAttempt(i))
           /\ ~MayTakeOut([StartAttempt(i) EXCEPT !.started_at = now])
           /\ ~MayTakeOut([i EXCEPT !.phase = "backoff", !.until = now + Backoff + Lag])
    BY DEF MayTakeOut, StartAttempt, Jobs
  <2>2. PICK j : job' = [job EXCEPT ![p][t] = j] /\ ~MayTakeOut(j)
    <3>1. CASE Begin(p, t)
      BY <1>j, <2>1, <3>1 DEF Begin
    <3>2. CASE Retry(p, t)
      BY <1>j, <2>1, <3>2 DEF Retry
    <3>3. CASE AttemptFails(p, t)
      BY <1>j, <2>1, <3>3 DEF AttemptFails
    <3> QED
      BY <1>5, <3>1, <3>2, <3>3
  <2> QED
    BY <1>4, <1>5, <2>2 DEF Begin, Retry, AttemptFails
<1>6. ASSUME NEW p \in Pods, NEW t \in Tasks,
             AttemptSucceeds(p, t) \/ LastAttemptFails(p, t)
      PROVE  RanInv'
  <2>1. t \in finished' /\ finished \subseteq finished' /\ row' = row
    BY <1>6 DEF AttemptSucceeds, LastAttemptFails
  <2>2. PICK j : job' = [job EXCEPT ![p][t] = j]
    BY <1>6 DEF AttemptSucceeds, LastAttemptFails
  <2> QED
    BY <1>4, <2>1, <2>2
<1>7. ASSUME NEW p \in Pods, NEW t \in Tasks,
             Record(p, t) \/ Release(p, t) \/ Delete(p, t) \/ JobFault(p, t)
      PROVE  RanInv'
  <2>1. /\ AtStoreCall(job[p][t]) /\ finished' = finished
        /\ row' = row \/ row' = [row EXCEPT ![t] = StoreEffect(p, t)]
    BY <1>7 DEF Record, Release, Delete, JobFault, AtStoreCall
  <2>2. \A u \in Tasks : LeftQueue(row'[u]) => LeftQueue(row[u]) \/ u \in finished'
    BY <1>t, <2>1, StoreEffectLeaves DEF RanInv, TypeOK
  <2>3. PICK j : job' = [job EXCEPT ![p][t] = j] /\ (MayTakeOut(j) => MayTakeOut(job[p][t]))
    <3>1. CASE Record(p, t)
      <4>1. job' = [job EXCEPT ![p][t] = [job[p][t] EXCEPT !.phase = "release"]]
        BY <3>1 DEF Record
      <4> QED
        BY <1>j, <3>1, <4>1, TakeOutKept DEF Record
    <3>2. CASE Release(p, t)
      BY <1>j, <3>2, TakeOutKept DEF Release
    <3>3. CASE Delete(p, t)
      BY <1>j, <3>3, TakeOutKept DEF Delete
    <3>4. CASE JobFault(p, t)
      BY <1>j, <2>1, <3>4, TakeOutKept DEF JobFault
    <3> QED
      BY <1>7, <3>1, <3>2, <3>3, <3>4
  <2> QED
    BY <1>4, <2>1, <2>2, <2>3
<1>8. ASSUME NEW p \in Pods, GraceExpires(p) PROVE RanInv'
  <2>1. \A u \in Tasks : LeftQueue(row'[u]) => LeftQueue(row[u]) \/ u \in finished'
    BY <1>8, <1>t, StoreEffectLeaves DEF GraceExpires, RanInv
  <2>2. \A u \in Tasks : ~MayTakeOut(job'[p][u])
    BY <1>8, <1>t, <1>j, TakeOutKept DEF GraceExpires, TypeOK
  <2>3. \A q \in Pods : q # p => job'[q] = job[q]
    BY <1>8, <1>t DEF GraceExpires, TypeOK
  <2> QED
    BY <1>8, <1>k, <2>1, <2>2, <2>3 DEF GraceExpires
<1>9. ASSUME NEW p \in Pods, Crash(p) PROVE RanInv'
  <2>1. /\ \A q \in Pods : q # p => job'[q] = job[q]
        /\ \A u \in Tasks : ~MayTakeOut(job'[p][u])
    BY <1>9, <1>t, <1>j, TakeOutKept DEF Crash, TypeOK
  <2> QED
    BY <1>9, <1>k, <2>1 DEF Crash
<1>10. CASE Cleanup
  <2>1. \A u \in Tasks : row'[u] = row[u] \/ LeftQueue(row[u])
    BY <1>10 DEF Cleanup, ExpiredOneshot, LeftQueue
  <2> QED
    BY <1>10, <1>k, <2>1 DEF Cleanup
<1> QED
  BY <1>1, <1>2, <1>3, <1>5, <1>6, <1>7, <1>8, <1>9, <1>10
     DEF Next, LoopStep, JobStep, PodStep, vars, ListPending, PassOver, CheckCap,
         AcquireAndDispatch, AcquireRefused, TickFault, Stop, AbandonTick, Restart, Advance

LEMMA RanInit == Init => RanInv
<1>1. Init => TypeInv
  BY FencingInit DEF FencingInv
<1>2. Init => /\ \A t \in Tasks : ~LeftQueue(row[t])
              /\ \A p \in Pods, t \in Tasks : ~MayTakeOut(job[p][t])
  BY DEF Init, LeftQueue, MayTakeOut, NoJob
<1> QED
  BY <1>1, <1>2 DEF RanInv

\* At-least-once execution for any number of pods and rows: where failed rows
\* are kept, no crash, shutdown, fault or expired lock lets a row be recorded
\* or deleted that no execute() has returned for.
THEOREM RowsLeaveAfterRunning == Spec => []AtLeastOnce
<1>1. CASE FailureRetention = 0
  <2>1. AtLeastOnce
    BY <1>1 DEF AtLeastOnce
  <2> QED
    BY <2>1, PTL
<1>2. CASE FailureRetention # 0
  <2>1. Init => RanInv
    BY RanInit
  <2>2. RanInv /\ [Next]_vars => RanInv'
    BY <1>2, RanStep
  <2>3. RanInv => AtLeastOnce
    BY DEF RanInv, LeftQueue, AtLeastOnce
  <2> QED
    BY <2>1, <2>2, <2>3, PTL DEF Spec
<1> QED
  BY <1>1, <1>2

---------------------------------------------------------------------------
(* The concurrency cap. *)

\* The pods between their cap check and their lock.
PastCheck == {p \in Pods : loop[p].pc = "acquire"}

CapInv == TypeInv /\ SoftCap

\* What is counted is finite.
LEMMA CapCounts ==
    ASSUME NEW R \in SUBSET Tasks, NEW A \in SUBSET Pods
    PROVE  /\ IsFiniteSet(R) /\ Cardinality(R) \in Nat
           /\ IsFiniteSet(A) /\ Cardinality(A) \in Nat
           /\ Cardinality(Pods) \in Nat /\ Cardinality(A) <= Cardinality(Pods)
<1>1. IsFiniteSet(R) /\ IsFiniteSet(A) /\ Cardinality(A) <= Cardinality(Pods)
  BY FiniteAssumption, FS_Subset
<1> QED
  BY <1>1, FiniteAssumption, FS_CardinalityType

\* The store call of a job starts no row.
LEMMA StoreEffectStartsNothing ==
    ASSUME TypeInv, NEW p \in Pods, NEW t \in Tasks, AtStoreCall(job[p][t]),
           RunningOneshot(StoreEffect(p, t), now)
    PROVE  RunningOneshot(row[t], now)
<1>1. row[t] \in Rows /\ job[p][t].outcome \in {"none", "success", "failed"}
  BY DEF TypeInv, TypeOK, Jobs
<1>2. CASE job[p][t].phase = "record"
  <2>1. StoreEffect(p, t) = Recorded(row[t], p, job[p][t].started_at, job[p][t].outcome)
    BY <1>2 DEF StoreEffect
  <2> QED
    BY <1>1, <2>1 DEF Recorded, RunningOneshot, Rows
<1>3. CASE job[p][t].phase = "release"
  <2>1. StoreEffect(p, t) = Released(row[t], p)
    BY <1>3 DEF StoreEffect
  <2> QED
    BY <1>1, <2>1 DEF Released, RunningOneshot, Rows
<1>4. CASE job[p][t].phase = "delete"
  <2>1. StoreEffect(p, t) = Deleted(row[t])
    BY <1>4 DEF StoreEffect
  <2> QED
    BY <1>1, <2>1 DEF Deleted, RunningOneshot, Rows
<1> QED
  BY <1>2, <1>3, <1>4 DEF AtStoreCall

\* No step makes more rows run, with those that are about to, than the cap and
\* one row for each pod but one.
LEMMA CapStep ==
    ASSUME Cap # NULL, CapInv, [Next]_vars
    PROVE  CapInv'
<1>t. TypeInv /\ TypeOK /\ TypeInv' /\ Cap \in Nat \ {0}
  BY TypeStep, RunsAssumption DEF CapInv, TypeInv
<1>s. /\ RunningRows \in SUBSET Tasks /\ RunningRows' \in SUBSET Tasks
      /\ PastCheck \in SUBSET Pods /\ PastCheck' \in SUBSET Pods
  BY DEF RunningRows, PastCheck
<1>n. /\ Cardinality(RunningRows) \in Nat /\ Cardinality(RunningRows') \in Nat
      /\ Cardinality(PastCheck) \in Nat /\ Cardinality(PastCheck') \in Nat
      /\ IsFiniteSet(RunningRows) /\ IsFiniteSet(PastCheck)
      /\ Cardinality(Pods) \in Nat /\ Cardinality(PastCheck') <= Cardinality(Pods)
  BY <1>s, CapCounts
<1>c. Cardinality(RunningRows) + Cardinality(PastCheck) <= Cap + Cardinality(Pods) - 1
  BY DEF CapInv, SoftCap, PastCheck
<1>d. ASSUME Cardinality(RunningRows') + Cardinality(PastCheck')
                <= Cap + Cardinality(Pods) - 1
      PROVE  CapInv'
  BY <1>d, <1>t DEF CapInv, SoftCap, PastCheck
\* A step that starts no row and passes no check.
<1>k. ASSUME RunningRows' \subseteq RunningRows, PastCheck' \subseteq PastCheck
      PROVE  CapInv'
  <2>1. /\ Cardinality(RunningRows') <= Cardinality(RunningRows)
        /\ Cardinality(PastCheck') <= Cardinality(PastCheck)
    BY <1>k, <1>n, FS_Subset
  <2> QED
    BY <1>t, <1>n, <1>c, <1>d, <2>1
\* A row that starts is paid for by the pod that was past its check.
<1>a. ASSUME NEW p \in PastCheck, NEW t \in Tasks,
             RunningRows' \subseteq RunningRows \cup {t}, PastCheck' \subseteq PastCheck \ {p}
      PROVE  CapInv'
  <2>1. /\ IsFiniteSet(RunningRows \cup {t})
        /\ Cardinality(RunningRows \cup {t}) <= Cardinality(RunningRows) + 1
        /\ Cardinality(RunningRows \cup {t}) \in Nat
    <3>1. /\ IsFiniteSet(RunningRows \cup {t})
          /\ \/ Cardinality(RunningRows \cup {t}) = Cardinality(RunningRows)
             \/ Cardinality(RunningRows \cup {t}) = Cardinality(RunningRows) + 1
      BY <1>n, FS_AddElement
    <3> QED
      BY <1>n, <3>1
  <2>2. /\ IsFiniteSet(PastCheck \ {p})
        /\ Cardinality(PastCheck \ {p}) = Cardinality(PastCheck) - 1
        /\ Cardinality(PastCheck \ {p}) \in Nat
    BY <1>n, FS_RemoveElement, FS_CardinalityType
  <2>3. /\ Cardinality(RunningRows') <= Cardinality(RunningRows \cup {t})
        /\ Cardinality(PastCheck') <= Cardinality(PastCheck \ {p})
    BY <1>a, <2>1, <2>2, FS_Subset
  <2> QED
    BY <1>t, <1>n, <1>c, <1>d, <2>1, <2>2, <2>3
\* Steps of the rows alone, in which no row starts.
<1>r. ASSUME loop' = loop,
             \A t \in Tasks : RunningOneshot(row'[t], now') => RunningOneshot(row[t], now)
      PROVE  CapInv'
  BY <1>r, <1>k DEF RunningRows, PastCheck
\* Steps of one tick loop.
<1>l. ASSUME NEW p \in Pods, NEW l, loop' = [loop EXCEPT ![p] = l], l.pc # "acquire"
      PROVE  PastCheck' \subseteq PastCheck \ {p}
  BY <1>l, <1>t DEF PastCheck, TypeOK
<1>1. CASE UNCHANGED <<now, row, loop>>
  BY <1>1, <1>r
<1>2. ASSUME NEW t \in Tasks, Submit(t) PROVE CapInv'
  <2>1. \A r \in Rows : ~RunningOneshot([r EXCEPT !.status = "pending"], now)
    BY DEF RunningOneshot, Rows
  <2>2. \A u \in Tasks : RunningOneshot(row'[u], now) => RunningOneshot(row[u], now)
    BY <1>2, <1>t, <2>1 DEF Submit, TypeOK
  <2> QED
    BY <1>2, <1>r, <2>2 DEF Submit
<1>3. ASSUME NEW p \in Pods, NEW l, loop' = [loop EXCEPT ![p] = l], l.pc # "acquire",
             UNCHANGED <<row, now>>
      PROVE  CapInv'
  <2>1. PastCheck' \subseteq PastCheck
    BY <1>3, <1>l
  <2>2. RunningRows' = RunningRows
    BY <1>3 DEF RunningRows
  <2> QED
    BY <1>k, <2>1, <2>2
<1>4. ASSUME NEW p \in Pods, NEW t \in Tasks, CheckCap(p, t) PROVE CapInv'
  <2>1. CASE CapReached
    BY <1>3, <1>4, <2>1 DEF CheckCap, NextRow
  <2>2. CASE ~CapReached
    <3>1. RunningRows' = RunningRows
      BY <1>4 DEF CheckCap, RunningRows
    <3>2. Cardinality(RunningRows) <= Cap - 1
      BY <1>n, <1>t, <2>2 DEF CapReached
    <3> QED
      BY <1>t, <1>n, <1>d, <3>1, <3>2
  <2> QED
    BY <2>1, <2>2
<1>5. ASSUME NEW p \in Pods, NEW t \in Tasks, NEW l, TakeLock(p, t), loop[p].pc = "acquire",
             loop' = [loop EXCEPT ![p] = l], l.pc # "acquire", now' = now
      PROVE  CapInv'
  <2>1. \A u \in Tasks : u # t => row'[u] = row[u]
    BY <1>5, <1>t DEF TakeLock, TypeOK
  <2>2. RunningRows' \subseteq RunningRows \cup {t}
    BY <1>5, <2>1 DEF RunningRows
  <2>3. PastCheck' \subseteq PastCheck \ {p} /\ p \in PastCheck
    BY <1>5, <1>l DEF PastCheck
  <2> QED
    BY <1>a, <2>2, <2>3
<1>6. ASSUME NEW p \in Pods, AbandonTick(p), now' = now PROVE CapInv'
  <2>1. loop' = [loop EXCEPT ![p] = IdleLoop] /\ IdleLoop.pc # "acquire"
    BY <1>6 DEF AbandonTick, IdleLoop
  <2>2. CASE UNCHANGED <<row, grants>>
    BY <1>3, <1>6, <2>1, <2>2
  <2>3. ASSUME NEW t \in Tasks, loop[p].pc = "acquire", TakeLock(p, t) PROVE CapInv'
    BY <1>5, <1>6, <2>1, <2>3
  <2> QED
    BY <1>6, <2>2, <2>3 DEF AbandonTick
<1>7. ASSUME NEW p \in Pods, NEW t \in Tasks,
             Record(p, t) \/ Release(p, t) \/ Delete(p, t) \/ JobFault(p, t)
      PROVE  CapInv'
  <2>1. /\ AtStoreCall(job[p][t]) /\ loop' = loop /\ now' = now
        /\ row' = row \/ row' = [row EXCEPT ![t] = StoreEffect(p, t)]
    BY <1>7 DEF Record, Release, Delete, JobFault, AtStoreCall
  <2>2. \A u \in Tasks : RunningOneshot(row'[u], now) => RunningOneshot(row[u], now)
    BY <1>t, <2>1, StoreEffectStartsNothing DEF TypeOK
  <2> QED
    BY <1>r, <2>1, <2>2
<1>8. ASSUME NEW p \in Pods, GraceExpires(p) PROVE CapInv'
  <2>1. \A u \in Tasks : RunningOneshot(row'[u], now) => RunningOneshot(row[u], now)
    BY <1>8, <1>t, StoreEffectStartsNothing DEF GraceExpires
  <2> QED
    BY <1>8, <1>r, <2>1 DEF GraceExpires
<1>9. CASE Cleanup
  <2>1. \A r \in Rows : RunningOneshot(Deleted(r), now) => RunningOneshot(r, now)
    BY DEF Deleted, RunningOneshot, Rows
  <2>2. \A u \in Tasks : RunningOneshot(row'[u], now) => RunningOneshot(row[u], now)
    BY <1>9, <1>t, <2>1 DEF Cleanup, TypeOK
  <2> QED
    BY <1>9, <1>r, <2>2 DEF Cleanup
<1>10. CASE Advance
  <2>1. \A u \in Tasks : RunningOneshot(row[u], now + 1) => RunningOneshot(row[u], now)
    BY <1>t DEF RunningOneshot, TypeOK, Rows
  <2> QED
    BY <1>10, <1>r, <2>1 DEF Advance
<1>11. ASSUME NEW p \in Pods, NEW t \in Tasks,
              PassOver(p, t) \/ AcquireRefused(p, t) \/ AcquireAndDispatch(p, t)
       PROVE  CapInv'
  <2>1. loop' = [loop EXCEPT ![p] = NextRow(p, t)] /\ NextRow(p, t).pc # "acquire" /\ now' = now
    BY <1>11 DEF PassOver, AcquireRefused, AcquireAndDispatch, NextRow
  <2>2. CASE AcquireAndDispatch(p, t)
    BY <1>5, <2>1, <2>2 DEF AcquireAndDispatch
  <2>3. CASE PassOver(p, t) \/ AcquireRefused(p, t)
    BY <1>3, <2>1, <2>3 DEF PassOver, AcquireRefused
  <2> QED
    BY <1>11, <2>2, <2>3
<1>12. ASSUME NEW p \in Pods, ListPending(p) \/ Crash(p) PROVE CapInv'
  <2>1. CASE ListPending(p)
    <3> DEFINE pending == {t \in Tasks : PendingOneshot(row[t], now)}
               l == [pc |-> IF pending = {} THEN "idle" ELSE "scan", todo |-> pending]
    <3>1. loop' = [loop EXCEPT ![p] = l] /\ UNCHANGED <<row, now>>
      BY <2>1 DEF ListPending
    <3>2. l.pc # "acquire"
      OBVIOUS
    <3> HIDE DEF l
    <3> QED
      BY <1>3, <3>1, <3>2
  <2>2. CASE Crash(p)
    <3>1. loop' = [loop EXCEPT ![p] = IdleLoop] /\ UNCHANGED <<row, now>>
      BY <2>2 DEF Crash
    <3>2. IdleLoop.pc # "acquire"
      BY DEF IdleLoop
    <3> QED
      BY <1>3, <3>1, <3>2
  <2> QED
    BY <1>12, <2>1, <2>2
<1>13. ASSUME NEW p \in Pods, LoopStep(p) PROVE CapInv'
  BY <1>4, <1>6, <1>11, <1>12, <1>13 DEF LoopStep, TickFault
<1>14. ASSUME NEW p \in Pods, PodStep(p) PROVE CapInv'
  BY <1>1, <1>6, <1>8, <1>12, <1>14 DEF PodStep, Stop, Restart
<1>15. ASSUME NEW p \in Pods, NEW t \in Tasks, JobStep(p, t) PROVE CapInv'
  BY <1>1, <1>7, <1>15
     DEF JobStep, Begin, AttemptSucceeds, AttemptFails, Retry, LastAttemptFails
<1>16. CASE UNCHANGED vars
  BY <1>1, <1>16 DEF vars
<1> QED
  BY <1>2, <1>7, <1>9, <1>10, <1>13, <1>14, <1>15, <1>16 DEF Next

\* The cap is exceeded by no more than one row for each pod but one, however
\* many pods there are and however stale the counts they compared with it.
THEOREM CapIsSoft == Spec => []SoftCap
<1>1. CASE Cap = NULL
  <2>1. SoftCap
    BY <1>1 DEF SoftCap
  <2> QED
    BY <2>1, PTL
<1>2. CASE Cap # NULL
  <2>1. Init => CapInv
    <3> SUFFICES ASSUME Init PROVE SoftCap /\ TypeInv
      BY DEF CapInv
    <3>1. TypeInv
      BY FencingInit DEF FencingInv
    <3>2. RunningRows = {} /\ PastCheck = {}
      BY DEF Init, RunningRows, RunningOneshot, PastCheck, IdleLoop
    <3>3. Cardinality(RunningRows) = 0 /\ Cardinality(PastCheck) = 0
      BY <3>2, FS_EmptySet
    <3>4. Cardinality(Pods) \in Nat /\ Cap \in Nat \ {0}
      BY <1>2, FiniteAssumption, FS_CardinalityType, RunsAssumption
    <3> QED
      BY <3>1, <3>3, <3>4 DEF SoftCap, PastCheck
  <2>2. CapInv /\ [Next]_vars => CapInv'
    BY <1>2, CapStep
  <2>3. CapInv => SoftCap
    BY DEF CapInv
  <2> QED
    BY <2>1, <2>2, <2>3, PTL DEF Spec
<1> QED
  BY <1>1, <1>2

---------------------------------------------------------------------------
(* The contract of TaskQueue. *)

\* A row that waits or runs is queued.
InQueue(r) == r.status \in {"pending", "running"}

\* A step that moves nobody in or out of execute() and no row in or out of
\* the queue is none that the contract sees.
LEMMA SameWorking ==
    ASSUME \A q \in Pods, u \in Tasks :
              job'[q][u].phase \in Executing <=> job[q][u].phase \in Executing
    PROVE  Working' = Working
BY DEF Working

LEMMA SameQueue ==
    ASSUME \A u \in Tasks : InQueue(row'[u]) <=> InQueue(row[u])
    PROVE  Queued' = Queued
BY DEF Queued, InQueue

\* The contract of a step that takes rows out: each of them has finished.
LEMMA RowsLeave ==
    ASSUME RanInv', \A u \in Tasks : row[u] \in Rows /\ row'[u] \in Rows,
           \A u \in Tasks : /\ InQueue(row'[u]) => InQueue(row[u])
                            /\ row'[u].status = "absent" => row[u].status = "absent"
    PROVE  \E S \in SUBSET Tasks : S \subseteq finished' /\ Queued' = Queued \ S
<1> DEFINE S == Queued \ Queued'
<1>1. Queued' = Queued \ S
  BY DEF Queued, InQueue
<1>2. ASSUME NEW u \in S PROVE u \in finished'
  <2>1. u \in Tasks /\ InQueue(row[u]) /\ ~InQueue(row'[u])
    BY DEF Queued, InQueue
  <2>2. LeftQueue(row'[u])
    BY <2>1 DEF InQueue, LeftQueue, Rows, Statuses
  <2> QED
    BY <2>1, <2>2 DEF RanInv, LeftQueue
<1>3. S \in SUBSET Tasks
  BY DEF Queued
<1> QED
  BY <1>1, <1>2, <1>3

\* A store call of a job puts no row into the queue.
LEMMA StoreEffectQueue ==
    ASSUME TypeInv, NEW p \in Pods, NEW t \in Tasks, AtStoreCall(job[p][t])
    PROVE  /\ InQueue(StoreEffect(p, t)) => InQueue(row[t])
           /\ StoreEffect(p, t).status = "absent" => row[t].status = "absent"
<1>1. row[t] \in Rows
  BY DEF TypeInv, TypeOK
<1>2. CASE job[p][t].phase = "record"
  <2>1. job[p][t].outcome \in {"success", "failed"}
    BY <1>2 DEF TypeInv, TypeOK, JobsInOrder, Jobs
  <2>2. StoreEffect(p, t) = Recorded(row[t], p, job[p][t].started_at, job[p][t].outcome)
    BY <1>2 DEF StoreEffect
  <2> QED
    BY <1>1, <2>1, <2>2 DEF Recorded, Rows, InQueue
<1>3. CASE job[p][t].phase = "release"
  <2>1. StoreEffect(p, t) = Released(row[t], p)
    BY <1>3 DEF StoreEffect
  <2> QED
    BY <1>1, <2>1 DEF Released, Rows, InQueue
<1>4. CASE job[p][t].phase = "delete"
  <2>1. StoreEffect(p, t) = Deleted(row[t])
    BY <1>4 DEF StoreEffect
  <2> QED
    BY <1>1, <2>1 DEF Deleted, Rows, InQueue
<1> QED
  BY <1>2, <1>3, <1>4 DEF AtStoreCall

\* Every step of the runner is one of the contract, or none that it sees.
LEMMA ContractStep ==
    ASSUME FailureRetention # 0, ExclusionInv, RanInv, RanInv', [Next]_vars
    PROVE  [Contract!QueueNext]_(Contract!queue)
<1> USE DEF Contract!queue, Contract!QueueNext
<1>t. /\ TypeInv /\ TypeOK
      /\ \A u \in Tasks : row[u] \in Rows /\ row'[u] \in Rows
      /\ \A q \in Pods, u \in Tasks : job[q][u] \in Jobs
  BY DEF RanInv, TypeInv, TypeOK
<1>1. CASE UNCHANGED <<row, job, finished>>
  BY <1>1 DEF Queued, Working
<1>2. ASSUME NEW t \in Tasks, Submit(t) PROVE Contract!Enqueue(t)
  <2>1. \A r \in Rows : InQueue([r EXCEPT !.status = "pending"])
    BY DEF InQueue, Rows
  <2>2. Queued' = Queued \cup {t}
    BY <1>2, <1>t, <2>1 DEF Submit, Queued, InQueue, TypeOK
  <2> QED
    BY <1>2, <2>2 DEF Submit, Contract!Enqueue, Working
<1>3. ASSUME NEW p \in Pods, NEW t \in Tasks, TakeLock(p, t) PROVE Queued' = Queued \cup {t}
  <2>1. \A r \in Rows : InQueue(Acquired(r, p, now, LockTTL))
    BY DEF InQueue, Rows, Acquired
  <2> QED
    BY <1>3, <1>t, <2>1 DEF TakeLock, Queued, InQueue, TypeOK
<1>4. ASSUME NEW p \in Pods, NEW t \in Tasks, AcquireAndDispatch(p, t) PROVE Contract!Start(p, t)
  <2>1. \A q \in Pods : job[q][t].phase \notin Executing
    BY <1>4, <1>t, FreeLock DEF AcquireAndDispatch, TakeLock, ExclusionInv
  <2>2. NewJob(grants[t] + 1).phase \in Executing
    BY DEF NewJob, Executing
  <2>3. Working' = Working \cup {<<p, t>>}
    BY <1>4, <1>t, <2>2 DEF AcquireAndDispatch, Working, TypeOK
  <2> QED
    BY <1>3, <1>4, <2>1, <2>3 DEF AcquireAndDispatch, Contract!Start, Working
<1>5. ASSUME NEW p \in Pods, AbandonTick(p), UNCHANGED <<job, finished>>
      PROVE  [Contract!QueueNext]_(Contract!queue)
  <2>1. ASSUME NEW t \in Tasks, TakeLock(p, t) PROVE Contract!Enqueue(t)
    BY <1>3, <1>5, <2>1 DEF Contract!Enqueue, Working
  <2> QED
    BY <1>1, <1>5, <2>1 DEF AbandonTick
<1>6. ASSUME NEW p \in Pods, NEW t \in Tasks,
             Begin(p, t) \/ Retry(p, t) \/ AttemptFails(p, t)
      PROVE  UNCHANGED Contract!queue
  <2>1. \A i \in Jobs :
           /\ StartAttempt(i).phase \in Executing
           /\ [StartAttempt(i) EXCEPT !.started_at = now].phase \in Executing
           /\ [i EXCEPT !.phase = "backoff", !.until = now + Backoff + Lag].phase \in Executing
    BY DEF StartAttempt, Jobs, Executing
  <2>2. job[p][t].phase \in Executing /\ job'[p][t].phase \in Executing
    <3>1. CASE Begin(p, t)
      BY <1>t, <2>1, <3>1 DEF Begin, Executing, TypeOK
    <3>2. CASE Retry(p, t)
      BY <1>t, <2>1, <3>2 DEF Retry, Executing, TypeOK
    <3>3. CASE AttemptFails(p, t)
      BY <1>t, <2>1, <3>3 DEF AttemptFails, Executing, TypeOK
    <3> QED
      BY <1>6, <3>1, <3>2, <3>3
  <2>3. \A q \in Pods, u \in Tasks : <<q, u>> # <<p, t>> => job'[q][u] = job[q][u]
    BY <1>6, <1>t DEF Begin, Retry, AttemptFails, TypeOK
  <2> QED
    BY <1>6, <2>2, <2>3, SameWorking DEF Begin, Retry, AttemptFails, Queued
<1>7. ASSUME NEW p \in Pods, NEW t \in Tasks,
             AttemptSucceeds(p, t) \/ LastAttemptFails(p, t)
      PROVE  Contract!Return(p, t)
  <2>1. \A i \in Jobs, o \in {"success", "failed"} : Return(i, o).phase \notin Executing
    BY ReturnTypes DEF Executing
  <2>2. job[p][t].phase \in Executing /\ job'[p][t].phase \notin Executing
    BY <1>7, <1>t, <2>1 DEF AttemptSucceeds, LastAttemptFails, Executing, TypeOK
  <2>3. \A q \in Pods, u \in Tasks : <<q, u>> # <<p, t>> => job'[q][u] = job[q][u]
    BY <1>7, <1>t DEF AttemptSucceeds, LastAttemptFails, TypeOK
  <2>4. <<p, t>> \in Working /\ Working' = Working \ {<<p, t>>}
    BY <2>2, <2>3 DEF Working
  <2> QED
    BY <1>7, <2>4 DEF AttemptSucceeds, LastAttemptFails, Contract!Return, Queued
<1>8. ASSUME NEW p \in Pods, NEW t \in Tasks,
             Record(p, t) \/ Release(p, t) \/ Delete(p, t) \/ JobFault(p, t)
      PROVE  \E S \in SUBSET Tasks : Contract!Leave(S)
  <2>1. /\ AtStoreCall(job[p][t]) /\ finished' = finished
        /\ row' = row \/ row' = [row EXCEPT ![t] = StoreEffect(p, t)]
    BY <1>8 DEF Record, Release, Delete, JobFault, AtStoreCall
  <2>2. \A u \in Tasks : /\ InQueue(row'[u]) => InQueue(row[u])
                         /\ row'[u].status = "absent" => row[u].status = "absent"
    BY <1>t, <2>1, StoreEffectQueue DEF TypeOK
  <2>3. job'[p][t].phase \notin Executing
    <3>1. CASE Record(p, t)
      BY <1>t, <3>1 DEF Record, TypeOK, Jobs, Executing
    <3>2. CASE Release(p, t)
      BY <1>t, <3>2, JobTypes DEF Release, TypeOK, Executing
    <3>3. CASE Delete(p, t)
      BY <1>t, <3>3 DEF Delete, NoJob, TypeOK, Executing
    <3>4. CASE JobFault(p, t)
      <4>1. job'[p][t] = AfterFault(job[p][t]) /\ job[p][t] \in Jobs
        BY <1>t, <3>4 DEF JobFault, TypeOK
      <4> QED
        BY <2>1, <4>1, JobTypes DEF Executing
    <3> QED
      BY <1>8, <3>1, <3>2, <3>3, <3>4
  <2>4. \A q \in Pods, u \in Tasks : <<q, u>> # <<p, t>> => job'[q][u] = job[q][u]
    BY <1>8, <1>t DEF Record, Release, Delete, JobFault, TypeOK
  <2>5. Working' = Working
    BY <2>1, <2>3, <2>4, SameWorking DEF AtStoreCall, Executing
  <2> QED
    BY <1>t, <2>1, <2>2, <2>5, RowsLeave DEF Contract!Leave
<1>9. ASSUME NEW p \in Pods, NEW S \in SUBSET Tasks, S \subseteq finished, Queued' = Queued \ S,
             finished' = finished, \A q \in Pods : q # p => job'[q] = job[q],
             \A u \in Tasks : job'[p][u].phase \notin Executing
      PROVE  Contract!PodEnds(p)
  <2>1. Working' = {w \in Working : w[1] # p}
    BY <1>9 DEF Working
  <2>2. finished' = finished \cup {}
    BY <1>9
  <2> QED
    BY <1>9, <2>1, <2>2 DEF Contract!PodEnds
<1>10. ASSUME NEW p \in Pods, GraceExpires(p) PROVE Contract!PodEnds(p)
  <2>1. \A u \in Tasks : /\ InQueue(row'[u]) => InQueue(row[u])
                         /\ row'[u].status = "absent" => row[u].status = "absent"
    BY <1>10, <1>t, StoreEffectQueue DEF GraceExpires
  <2>2. PICK S \in SUBSET Tasks : S \subseteq finished' /\ Queued' = Queued \ S
    BY <1>t, <2>1, RowsLeave
  <2>3. /\ \A q \in Pods : q # p => job'[q] = job[q]
        /\ \A u \in Tasks : job'[p][u].phase \notin Executing
    BY <1>10, <1>t, JobTypes DEF GraceExpires, NoJob, TypeOK, Executing
  <2> QED
    BY <1>9, <1>10, <2>2, <2>3 DEF GraceExpires
<1>11. ASSUME NEW p \in Pods, Crash(p) PROVE Contract!PodEnds(p)
  <2>1. /\ \A q \in Pods : q # p => job'[q] = job[q]
        /\ \A u \in Tasks : job'[p][u].phase \notin Executing
    BY <1>11, <1>t DEF Crash, NoJob, TypeOK, Executing
  <2> DEFINE S == {}
  <2>2. /\ Queued' = Queued \ S /\ finished' = finished
        /\ S \in SUBSET Tasks /\ S \subseteq finished
    BY <1>11 DEF Crash, Queued
  <2> HIDE DEF S
  <2> QED
    BY <1>9, <2>1, <2>2
<1>12. CASE Cleanup
  <2>1. \A r \in Rows : Deleted(r) = r \/ Deleted(r).status = "deleted"
    BY DEF Deleted, Rows
  <2>2. \A u \in Tasks : row'[u] = row[u] \/ row'[u].status = "deleted"
    BY <1>12, <1>t, <2>1 DEF Cleanup
  <2>3. PICK S \in SUBSET Tasks : S \subseteq finished' /\ Queued' = Queued \ S
    BY <1>t, <2>2, RowsLeave DEF InQueue
  <2>4. Contract!Leave(S)
    BY <1>12, <2>3 DEF Cleanup, Contract!Leave, Working
  <2> QED
    BY <2>4
<1> QED
  BY <1>1, <1>2, <1>4, <1>5, <1>6, <1>7, <1>8, <1>10, <1>11, <1>12
     DEF Next, LoopStep, JobStep, PodStep, vars, ListPending, PassOver, CheckCap,
         AcquireRefused, TickFault, Stop, Restart, Advance

\* The runner over the SQL store implements the promise of TaskQueue for any
\* number of pods and rows, where the attempts of an execute() fit into the
\* lock's TTL and failed rows are kept for a while: no crash, shutdown, fault
\* or expired lock makes two pods execute a row or takes one out unexecuted.
THEOREM SQLKeepsContract ==
    ASSUME NoOverrun, FailureRetention # 0
    PROVE  Spec => KeepsContract
<1>1. Init => ExclusionInv /\ RanInv
  BY ExclusionInit, RanInit
<1>2. Init => Contract!QueueInit
  BY DEF Init, Contract!QueueInit, Queued, Working, NoJob, Executing
<1>3. ExclusionInv /\ RanInv /\ [Next]_vars => ExclusionInv' /\ RanInv'
  BY ExclusionStep, RanStep
<1>4. ExclusionInv /\ RanInv /\ RanInv' /\ [Next]_vars => [Contract!QueueNext]_(Contract!queue)
  BY ContractStep
<1> QED
  BY <1>1, <1>2, <1>3, <1>4, PTL DEF Spec, KeepsContract, Contract!QueueSpec
---------------------------------------------------------------------------
(* What becomes of a row that is left running without an expiry. *)

\* The job of the row is gone and gave the lock back without an outcome, and no
\* tick has the row in an old list.
Abandoned(t) ==
    /\ row[t].status = "running" /\ row[t].owner = NULL /\ row[t].expire_at = NULL
    /\ \A p \in Pods : ~InFlight(p, t) /\ t \notin loop[p].todo

\* No tick lists an abandoned row, and no cleanup removes it.
LEMMA AbandonedStep ==
    ASSUME NEW t \in Tasks, TypeInv, Abandoned(t), [Next]_vars
    PROVE  Abandoned(t)'
<1>t. /\ TypeOK /\ row \in [Tasks -> Rows] /\ job \in [Pods -> [Tasks -> Jobs]]
      /\ loop \in [Pods -> [pc : {"idle", "scan", "acquire"}, todo : SUBSET Tasks]]
  BY DEF TypeInv, TypeOK
\* Steps that leave the row and its jobs alone and list it nowhere.
<1>k. ASSUME row'[t] = row[t],
             \A p \in Pods : job'[p][t].phase = job[p][t].phase \/ job'[p][t].phase = "none",
             \A p \in Pods : t \in loop'[p].todo => t \in loop[p].todo
      PROVE  Abandoned(t)'
  BY <1>k DEF Abandoned, InFlight
<1>1. CASE UNCHANGED <<row, loop, job>>
  BY <1>1, <1>k
<1>2. ASSUME NEW u \in Tasks, Submit(u) PROVE Abandoned(t)'
  <2>1. u # t
    BY <1>2 DEF Submit, Abandoned
  <2> QED
    BY <1>2, <1>k, <1>t, <2>1 DEF Submit
<1>3. ASSUME NEW p \in Pods, ListPending(p) PROVE Abandoned(t)'
  <2>1. ~PendingOneshot(row[t], now)
    BY DEF PendingOneshot, Abandoned, SqlLeq
  <2>2. t \notin loop'[p].todo /\ \A q \in Pods : q # p => loop'[q] = loop[q]
    BY <1>3, <1>t, <2>1 DEF ListPending
  <2> QED
    BY <1>3, <1>k, <2>2 DEF ListPending
<1>n. ASSUME NEW p \in Pods, NEW u \in Tasks, AtRow(p, u)
      PROVE  u # t /\ NextRow(p, u).todo \subseteq loop[p].todo
  BY <1>n DEF AtRow, NextRow, Abandoned
<1>l. ASSUME NEW p \in Pods, NEW l, loop' = [loop EXCEPT ![p] = l], l.todo \subseteq loop[p].todo
      PROVE  \A q \in Pods : t \in loop'[q].todo => t \in loop[q].todo
  BY <1>l, <1>t
<1>4. ASSUME NEW p \in Pods, NEW u \in Tasks, PassOver(p, u) \/ AcquireRefused(p, u)
      PROVE  Abandoned(t)'
  <2>1. AtRow(p, u) /\ loop' = [loop EXCEPT ![p] = NextRow(p, u)] /\ UNCHANGED <<row, job>>
    BY <1>4 DEF PassOver, AcquireRefused
  <2>2. \A q \in Pods : t \in loop'[q].todo => t \in loop[q].todo
    BY <1>n, <1>l, <2>1
  <2> QED
    BY <1>k, <2>1, <2>2
<1>5. ASSUME NEW p \in Pods, NEW u \in Tasks, CheckCap(p, u) PROVE Abandoned(t)'
  <2>1. AtRow(p, u) /\ UNCHANGED <<row, job>>
    BY <1>5 DEF CheckCap
  <2>2. CASE loop' = [loop EXCEPT ![p] = NextRow(p, u)]
    <3>1. \A q \in Pods : t \in loop'[q].todo => t \in loop[q].todo
      BY <1>n, <1>l, <2>1, <2>2
    <3> QED
      BY <1>k, <2>1, <3>1
  <2>3. CASE loop' = [loop EXCEPT ![p] = [loop[p] EXCEPT !.pc = "acquire"]]
    <3>1. \A q \in Pods : t \in loop'[q].todo => t \in loop[q].todo
      BY <1>t, <2>3
    <3> QED
      BY <1>k, <2>1, <3>1
  <2> QED
    BY <1>5, <2>2, <2>3 DEF CheckCap
<1>6. ASSUME NEW p \in Pods, NEW u \in Tasks, AcquireAndDispatch(p, u) PROVE Abandoned(t)'
  <2>1. AtRow(p, u) /\ loop' = [loop EXCEPT ![p] = NextRow(p, u)]
    BY <1>6 DEF AcquireAndDispatch
  <2>2. u # t /\ \A q \in Pods : t \in loop'[q].todo => t \in loop[q].todo
    BY <1>n, <1>l, <2>1
  <2>3. row'[t] = row[t] /\ \A q \in Pods : job'[q][t] = job[q][t]
    BY <1>6, <1>t, <2>2 DEF AcquireAndDispatch, TakeLock
  <2> QED
    BY <1>k, <2>2, <2>3
<1>7. ASSUME NEW p \in Pods, AbandonTick(p), UNCHANGED job PROVE Abandoned(t)'
  <2>1. \A q \in Pods : t \in loop'[q].todo => t \in loop[q].todo
    <3>1. loop' = [loop EXCEPT ![p] = IdleLoop] /\ IdleLoop.todo \subseteq loop[p].todo
      BY <1>7 DEF AbandonTick, IdleLoop
    <3> QED
      BY <1>l, <3>1
  <2>2. row'[t] = row[t]
    BY <1>7, <1>n, <1>t DEF AbandonTick, TakeLock
  <2> QED
    BY <1>7, <1>k, <2>1, <2>2
\* The steps of jobs are those of other rows.
<1>8. ASSUME NEW p \in Pods, NEW u \in Tasks, JobStep(p, u) \/ JobFault(p, u)
      PROVE  Abandoned(t)'
  <2>1. u # t
    BY <1>8 DEF JobStep, Begin, AttemptSucceeds, AttemptFails, Retry, LastAttemptFails,
                Record, Release, Delete, JobFault, AtStoreCall, Abandoned, InFlight
  <2>2. /\ loop' = loop
        /\ row' = row \/ row' = [row EXCEPT ![u] = StoreEffect(p, u)]
        /\ \E x : job' = [job EXCEPT ![p][u] = x]
    BY <1>8 DEF JobStep, Begin, AttemptSucceeds, AttemptFails, Retry, LastAttemptFails,
                Record, Release, Delete, JobFault
  <2>3. row'[t] = row[t] /\ \A q \in Pods : job'[q][t] = job[q][t]
    BY <1>t, <2>1, <2>2
  <2> QED
    BY <1>k, <2>2, <2>3
<1>9. ASSUME NEW p \in Pods, GraceExpires(p) PROVE Abandoned(t)'
  <2>1. job[p][t].phase = "none"
    BY DEF Abandoned, InFlight
  <2>2. row'[t] = row[t]
    BY <1>9, <2>1 DEF GraceExpires, AtStoreCall
  <2>3. \A q \in Pods : job'[q][t].phase = job[q][t].phase \/ job'[q][t].phase = "none"
    BY <1>9, <1>t, <2>1 DEF GraceExpires, Executing, NoJob
  <2> QED
    BY <1>9, <1>k, <2>2, <2>3 DEF GraceExpires
<1>10. ASSUME NEW p \in Pods, Crash(p) PROVE Abandoned(t)'
  <2>1. \A q \in Pods : job'[q][t].phase = job[q][t].phase \/ job'[q][t].phase = "none"
    BY <1>10, <1>t DEF Crash, NoJob
  <2>2. \A q \in Pods : t \in loop'[q].todo => t \in loop[q].todo
    BY <1>10, <1>t DEF Crash, IdleLoop
  <2> QED
    BY <1>10, <1>k, <2>1, <2>2 DEF Crash
<1>11. CASE Cleanup
  <2>1. row'[t] = row[t]
    BY <1>11 DEF Cleanup, ExpiredOneshot, Abandoned
  <2> QED
    BY <1>11, <1>k, <2>1 DEF Cleanup
<1> QED
  BY <1>1, <1>2, <1>3, <1>4, <1>5, <1>6, <1>7, <1>8, <1>9, <1>10, <1>11
     DEF Next, LoopStep, PodStep, vars, TickFault, Stop, Restart, Advance

\* A oneshot row that a cancelled job, or one that could not record its outcome,
\* left running without an expiry stays so for good: no tick of any pod lists
\* it again and the cleanup never removes it, although docs/scheduler.md says
\* that it becomes eligible after its TTL (the finding about
\* list_pending_oneshot_tasks, for any number of pods and rows).
THEOREM AbandonedForGood ==
    ASSUME NEW t \in Tasks
    PROVE  Spec => [](Abandoned(t) => []Abandoned(t))
<1>1. TypeInv /\ Abandoned(t) /\ [Next]_vars => Abandoned(t)'
  BY AbandonedStep
<1>2. Spec => []TypeInv
  <2>1. Init => TypeInv
    BY FencingInit DEF FencingInv
  <2> QED
    BY <2>1, TypeStep, PTL DEF Spec
<1> QED
  BY <1>1, <1>2, PTL DEF Spec
=============================================================================
