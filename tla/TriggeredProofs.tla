-------------------------- MODULE TriggeredProofs --------------------------
(***************************************************************************)
(* Theorems about TriggeredRunner, for any number of pods and submissions  *)
(* and any lock TTL, cooldown and length of jobs, and about TaskRegistry,  *)
(* which says which tasks are triggered, proved with TLAPS.                *)
(***************************************************************************)
EXTENDS TriggeredRunner, TaskRegistry, WellFoundedInduction, TLAPS

---------------------------------------------------------------------------
(* Type correctness. *)

\* What makes TypeOK inductive: a job that records has an outcome.
TypeInv ==
    /\ TypeOK
    /\ \A p \in Pods : job[p].phase = "record" => job[p].outcome # "none"

\* What a transaction of the row leaves: a row, in the table if it was, with
\* the request and the last run that it had.
Kept(r, s) ==
    /\ s \in Rows /\ s.request_at = r.request_at /\ s.run_at = r.run_at
    /\ InTable(s) <=> InTable(r)

\* The lock transaction and the release, on a row of the table.
LEMMA LockTypes ==
    ASSUME NEW r \in Rows, NEW p \in Pods, NEW n \in Nat
    PROVE  /\ InTable(r) => Kept(r, Acquired(r, p, n, LockTTL))
           /\ Acquired(r, p, n, LockTTL).owner = p
           /\ Kept(r, Released(r, p)) /\ Released(r, p).owner \in {r.owner, NULL}
<1>1. n + LockTTL \in Nat
  BY TriggerAssumption
<1>2. Acquired(r, p, n, LockTTL).owner = p
  BY DEF Acquired, Rows
<1>3. InTable(r) => Kept(r, Acquired(r, p, n, LockTTL))
  BY <1>1 DEF Acquired, Rows, Statuses, Kept, InTable
<1>4. Kept(r, Released(r, p)) /\ Released(r, p).owner \in {r.owner, NULL}
  BY DEF Released, Rows, Kept, InTable
<1> QED
  BY <1>2, <1>3, <1>4

\* record_dynamic_*: it moves run_at if the pod owns the row, or does nothing.
LEMMA RecordTypes ==
    ASSUME NEW r \in Rows, NEW p \in Pods, NEW n \in Nat, NEW o \in {"success", "failed"}
    PROVE  LET s == Recorded(r, p, n, o)
           IN  /\ s \in Rows /\ s.request_at = r.request_at /\ s.owner = r.owner
               /\ InTable(s) <=> InTable(r)
               /\ s.run_at = IF InTable(r) /\ r.owner = p THEN n ELSE r.run_at
<1>1. r.run_count + 1 \in Nat
  BY DEF Rows
<1> QED
  BY <1>1 DEF Recorded, Rows, Statuses, InTable

\* submit_triggered_task: the request it leaves is not before the submission.
LEMMA SubmitTypes ==
    ASSUME NEW r \in Rows, NEW n \in Nat
    PROVE  LET s == Submitted(r, n, Cooldown)
           IN  /\ s \in Rows /\ InTable(s) /\ s.owner = r.owner /\ s.run_at = r.run_at
               /\ s.request_at \in Nat /\ s.request_at >= n
<1> DEFINE at == RequestAt(r, n, Cooldown)
<1>1. at \in Nat /\ at >= n
  <2>1. CASE InTable(r) /\ Cooldown # 0 /\ r.run_at # NULL /\ r.run_at + Cooldown > n
    <3>1. r.run_at \in Nat /\ at = r.run_at + Cooldown
      BY <2>1 DEF Rows, RequestAt
    <3> QED
      BY <2>1, <3>1, TriggerAssumption
  <2>2. CASE ~(InTable(r) /\ Cooldown # 0 /\ r.run_at # NULL /\ r.run_at + Cooldown > n)
    <3>1. at = n
      BY <2>2 DEF RequestAt
    <3> QED
      BY <3>1
  <2> QED
    BY <2>1, <2>2
<1>2. CASE InTable(r)
  <2>1. Submitted(r, n, Cooldown) = [r EXCEPT !.request_at = at, !.run_count = 0]
    BY <1>2 DEF Submitted
  <2> HIDE DEF at
  <2>2. LET s == [r EXCEPT !.request_at = at, !.run_count = 0]
        IN  /\ s \in Rows /\ s.status = r.status /\ s.owner = r.owner /\ s.run_at = r.run_at
            /\ s.request_at = at
    BY <1>1 DEF Rows
  <2> QED
    BY <1>1, <1>2, <2>1, <2>2 DEF InTable
<1>3. CASE ~InTable(r)
  <2>1. Submitted(r, n, Cooldown) = [r EXCEPT !.status = "pending", !.request_at = n]
    BY <1>3 DEF Submitted
  <2>2. LET s == [r EXCEPT !.status = "pending", !.request_at = n]
        IN  /\ s \in Rows /\ s.status = "pending" /\ s.owner = r.owner /\ s.run_at = r.run_at
            /\ s.request_at = n
    BY DEF Rows, Statuses
  <2>3. n >= n
    OBVIOUS
  <2> QED
    BY <2>1, <2>2, <2>3 DEF InTable
<1> QED
  BY <1>2, <1>3

\* The steps of a job leave a job.
LEMMA JobTypes ==
    ASSUME NEW j \in Jobs
    PROVE  /\ NoJob \in Jobs /\ NoJob.phase = "none"
           /\ \A n \in Nat :
                LET b == [j EXCEPT !.phase = "executing", !.started_at = n]
                IN  /\ b \in Jobs /\ b.phase = "executing" /\ b.started_at = n
           /\ \A o \in {"success", "failed"} :
                LET f == [j EXCEPT !.phase = "record", !.outcome = o]
                IN  /\ f \in Jobs /\ f.phase = "record" /\ f.outcome = o
                    /\ f.started_at = j.started_at
           /\ LET r == [j EXCEPT !.phase = "release"]
              IN  r \in Jobs /\ r.phase = "release"
           /\ Unwind(j) \in Jobs /\ Unwind(j).phase \in {"none", "release"}
<1>1. NoJob \in Jobs /\ NoJob.phase = "none"
  BY DEF NoJob, Jobs
<1>2. Unwind(j) \in Jobs /\ Unwind(j).phase \in {"none", "release"}
  BY <1>1 DEF Unwind, Jobs
<1> QED
  BY <1>1, <1>2 DEF Jobs

\* What a step may do to the row: the lock changes hands, the release gives it
\* back, or the job of the owner records.
LEMMA RowSteps ==
    ASSUME TypeInv, NEW p \in Pods
    PROVE  /\ AbandonTick(p) => /\ row' \in Rows /\ Kept(row, row')
                                /\ row' = row \/ (loop[p] = "acquire" /\ row'.owner = p)
           /\ MaybeStored(p) =>
                /\ row' \in Rows /\ row'.request_at = row.request_at
                /\ row'.owner \in {row.owner, NULL}
                /\ InTable(row') <=> InTable(row)
                /\ \/ row'.run_at = row.run_at /\ last_start' = last_start
                   \/ /\ job[p].phase = "record"
                      /\ row'.run_at = IF InTable(row) /\ row.owner = p
                                       THEN job[p].started_at ELSE row.run_at
                      /\ last_start' = IF row.owner = p THEN job[p].started_at ELSE last_start
<1>t. row \in Rows /\ now \in Nat /\ job[p] \in Jobs /\ job[p].started_at \in Nat
  BY DEF TypeInv, TypeOK, Jobs
<1>1. ASSUME AbandonTick(p)
      PROVE  /\ row' \in Rows /\ Kept(row, row')
             /\ row' = row \/ (loop[p] = "acquire" /\ row'.owner = p)
  BY <1>1, <1>t, LockTypes DEF AbandonTick, CanAcquire, Kept
<1>2. ASSUME MaybeStored(p)
      PROVE  /\ row' \in Rows /\ row'.request_at = row.request_at
             /\ row'.owner \in {row.owner, NULL}
             /\ InTable(row') <=> InTable(row)
             /\ \/ row'.run_at = row.run_at /\ last_start' = last_start
                \/ /\ job[p].phase = "record"
                   /\ row'.run_at = IF InTable(row) /\ row.owner = p
                                    THEN job[p].started_at ELSE row.run_at
                   /\ last_start' = IF row.owner = p THEN job[p].started_at ELSE last_start
  <2>1. CASE UNCHANGED <<row, last_start>>
    BY <1>t, <2>1
  <2>2. CASE job[p].phase = "record" /\ CommitRecord(p)
    <3> DEFINE at == job[p].started_at
               how == job[p].outcome
    <3>1. at \in Nat /\ how \in {"success", "failed"}
      BY <1>t, <2>2 DEF TypeInv, Jobs
    <3>2. row' = Recorded(row, p, at, how)
      BY <2>2 DEF CommitRecord, RunTime
    <3>3. last_start' = IF row.owner = p THEN at ELSE last_start
      BY <2>2 DEF CommitRecord
    <3>4. /\ row' \in Rows /\ row'.request_at = row.request_at /\ row'.owner = row.owner
          /\ InTable(row') <=> InTable(row)
          /\ row'.run_at = IF InTable(row) /\ row.owner = p THEN at ELSE row.run_at
      <4> HIDE DEF at, how
      <4>1. row \in Rows
        BY <1>t
      <4> QED
        BY <3>1, <3>2, <4>1, RecordTypes
    <3> QED
      BY <2>2, <3>3, <3>4
  <2>3. CASE row' = Released(row, p) /\ UNCHANGED last_start
    BY <1>t, <2>3, LockTypes DEF Kept
  <2> QED
    BY <1>2, <2>1, <2>2, <2>3 DEF MaybeStored
<1> QED
  BY <1>1, <1>2

\* Every step preserves the types.
LEMMA TypeStep == TypeInv /\ [Next]_vars => TypeInv'
<1> SUFFICES ASSUME TypeInv, [Next]_vars PROVE TypeInv'
  OBVIOUS
<1> USE TriggerAssumption
<1>t. /\ now \in Nat /\ row \in Rows /\ (InTable(row) => row.request_at \in Nat)
      /\ \A p \in Pods : job[p] \in Jobs /\ job[p].started_at \in Nat
  BY DEF TypeInv, TypeOK, Jobs
\* A step that leaves the jobs, or moves one of them.
<1>k. ASSUME row' \in Rows, InTable(row') => row'.request_at \in Nat, now' \in Nat,
             pod' \in [Pods -> {"up", "stopping", "cancelled", "crashed"}],
             loop' \in [Pods -> {"idle", "acquire"}],
             submits' \in Nat, submitted_at' \in Nat \cup {NULL}, mishaps' \in Nat,
             last_start' \in Nat \cup {NULL},
             \/ job' = job
             \/ \E p \in Pods, j \in Jobs : /\ job' = [job EXCEPT ![p] = j]
                                            /\ j.phase = "record" => j.outcome # "none"
      PROVE  TypeInv'
  BY <1>k DEF TypeInv, TypeOK
<1>m. Mishap => mishaps' \in Nat
  BY DEF Mishap, TypeInv, TypeOK
<1>1. CASE UNCHANGED vars
  BY <1>1 DEF vars, TypeInv, TypeOK
<1>2. CASE Submit
  <2>1. row' \in Rows /\ row'.request_at \in Nat
    BY <1>2, <1>t, SubmitTypes DEF Submit
  <2> QED
    BY <1>2, <1>k, <2>1 DEF Submit, TypeInv, TypeOK
<1>3. ASSUME NEW p \in Pods, ListPending(p) \/ AcquireRefused(p) \/ Restart(p) PROVE TypeInv'
  <2>1. /\ pod' \in [Pods -> {"up", "stopping", "cancelled", "crashed"}]
        /\ loop' \in [Pods -> {"idle", "acquire"}]
    BY <1>3 DEF ListPending, AcquireRefused, Restart, TypeInv, TypeOK
  <2> QED
    BY <1>3, <1>k, <2>1 DEF ListPending, AcquireRefused, Restart, requests, TypeInv, TypeOK
<1>4. ASSUME NEW p \in Pods, AcquireAndDispatch(p) PROVE TypeInv'
  <2>1. row' \in Rows /\ (InTable(row') => row'.request_at \in Nat)
    <3>1. InTable(row) /\ row' = Acquired(row, p, now, LockTTL)
      BY <1>4 DEF AcquireAndDispatch, CanAcquire
    <3>2. Kept(row, row')
      BY <1>t, <3>1, LockTypes
    <3> QED
      BY <1>t, <3>1, <3>2 DEF Kept
  <2>2. now + JobTime \in Nat
    BY <1>t
  <2>3. PICK j \in Jobs : job' = [job EXCEPT ![p] = j] /\ j.phase = "dispatched"
    <3> DEFINE d == [NoJob EXCEPT !.phase = "dispatched", !.until = now + JobTime]
    <3>1. d \in Jobs /\ d.phase = "dispatched"
      BY <2>2 DEF NoJob, Jobs
    <3>2. job' = [job EXCEPT ![p] = d]
      BY <1>4 DEF AcquireAndDispatch
    <3> QED
      BY <3>1, <3>2
  <2> QED
    BY <1>4, <1>k, <2>1, <2>3 DEF AcquireAndDispatch, requests, TypeInv, TypeOK
<1>5. ASSUME NEW p \in Pods, TickFault(p) \/ Stop(p) PROVE TypeInv'
  <2>1. row' \in Rows /\ (InTable(row') => row'.request_at \in Nat)
    BY <1>5, <1>t, RowSteps DEF TickFault, Stop, Kept
  <2>2. /\ pod' \in [Pods -> {"up", "stopping", "cancelled", "crashed"}]
        /\ loop' \in [Pods -> {"idle", "acquire"}]
    BY <1>5 DEF TickFault, Stop, AbandonTick, TypeInv, TypeOK
  <2> QED
    BY <1>5, <1>k, <1>m, <2>1, <2>2 DEF TickFault, Stop, requests, TypeInv, TypeOK
<1>6. ASSUME NEW p \in Pods, Begin(p) \/ Finish(p) PROVE TypeInv'
  <2>1. PICK j \in Jobs : /\ job' = [job EXCEPT ![p] = j]
                          /\ j.phase = "record" => j.outcome # "none"
    <3>1. CASE Begin(p)
      <4>1. job' = [job EXCEPT ![p] = [job[p] EXCEPT !.phase = "executing", !.started_at = now]]
        BY <3>1 DEF Begin
      <4> QED
        BY <1>t, <4>1, JobTypes
    <3>2. ASSUME NEW o \in {"success", "failed"},
                 job' = [job EXCEPT ![p].phase = "record", ![p].outcome = o]
          PROVE  \E j \in Jobs : /\ job' = [job EXCEPT ![p] = j]
                                 /\ j.phase = "record" => j.outcome # "none"
      <4>1. job' = [job EXCEPT ![p] = [job[p] EXCEPT !.phase = "record", !.outcome = o]]
        BY <3>2
      <4> QED
        BY <1>t, <4>1, JobTypes
    <3> QED
      BY <1>6, <3>1, <3>2 DEF Finish
  <2>2. now' \in Nat
    BY <1>6, <1>t DEF Begin, Finish
  <2> QED
    BY <1>6, <1>k, <1>t, <2>1, <2>2 DEF Begin, Finish, requests, TypeInv, TypeOK
<1>7. ASSUME NEW p \in Pods, MaybeStored(p)
      PROVE  /\ row' \in Rows /\ (InTable(row') => row'.request_at \in Nat)
             /\ last_start' \in Nat \cup {NULL}
  <2>1. last_start \in Nat \cup {NULL}
    BY DEF TypeInv, TypeOK
  <2> QED
    BY <1>7, <1>t, <2>1, RowSteps
<1>8. ASSUME NEW p \in Pods, Record(p) \/ Release(p) PROVE TypeInv'
  <2>1. MaybeStored(p)
    BY <1>8 DEF Record, Release, MaybeStored
  <2>2. PICK j \in Jobs : job' = [job EXCEPT ![p] = j] /\ j.phase \in {"release", "none"}
    <3>1. CASE Record(p)
      <4> DEFINE r == [job[p] EXCEPT !.phase = "release"]
      <4>1. r \in Jobs /\ r.phase = "release"
        BY <1>t, JobTypes
      <4>2. job' = [job EXCEPT ![p] = r]
        BY <3>1 DEF Record
      <4> QED
        BY <4>1, <4>2
    <3>2. CASE Release(p)
      BY <1>t, <3>2, JobTypes DEF Release
    <3> QED
      BY <1>8, <3>1, <3>2
  <2> QED
    BY <1>8, <1>k, <1>7, <2>1, <2>2 DEF Record, Release, requests, TypeInv, TypeOK
<1>9. ASSUME NEW p \in Pods, JobFault(p) \/ GraceExpires(p) PROVE TypeInv'
  <2>1. MaybeStored(p) /\ job' = [job EXCEPT ![p] = Unwind(job[p])]
    BY <1>9 DEF JobFault, GraceExpires
  <2>2. Unwind(job[p]) \in Jobs /\ Unwind(job[p]).phase # "record"
    BY <1>t, JobTypes
  <2>3. pod' \in [Pods -> {"up", "stopping", "cancelled", "crashed"}] /\ mishaps' \in Nat
    BY <1>9, <1>m DEF JobFault, GraceExpires, TypeInv, TypeOK
  <2> QED
    BY <1>9, <1>k, <1>7, <2>1, <2>2, <2>3 DEF JobFault, GraceExpires, requests, TypeInv, TypeOK
<1>10. ASSUME NEW p \in Pods, Crash(p) PROVE TypeInv'
  <2>1. NoJob \in Jobs /\ NoJob.phase = "none"
    BY <1>t, JobTypes
  <2>2. /\ pod' \in [Pods -> {"up", "stopping", "cancelled", "crashed"}]
        /\ loop' \in [Pods -> {"idle", "acquire"}]
    BY <1>10 DEF Crash, TypeInv, TypeOK
  <2> QED
    BY <1>10, <1>k, <1>m, <1>t, <2>1, <2>2 DEF Crash, requests, TypeInv, TypeOK
<1>11. CASE Advance
  BY <1>11, <1>k, <1>t DEF Advance, requests, TypeInv, TypeOK
<1> QED
  BY <1>1, <1>2, <1>3, <1>4, <1>5, <1>6, <1>8, <1>9, <1>10, <1>11
     DEF Next, LoopStep, JobStep, PodStep

LEMMA TypeInit == Init => TypeInv
BY TriggerAssumption DEF Init, TypeInv, TypeOK, Rows, Statuses, Jobs, NoJob, InTable

\* Types hold in every reachable state, and a row of the table has a request.
THEOREM TypeCorrect == Spec => []TypeOK
<1>1. TypeInv => TypeOK
  BY DEF TypeInv
<1> QED
  BY <1>1, TypeInit, TypeStep, PTL DEF Spec

---------------------------------------------------------------------------
(* Requests and runs. *)

\* The job has taken its started_at and may yet write it.
Started(q) == job[q].phase \in {"executing", "record"}

\* The latest request is in the row, and is not before its submission.
RequestInRow ==
    /\ submitted_at # NULL => submitted_at < now
    /\ submits > 0 => submitted_at # NULL /\ InTable(row) /\ row.request_at >= submitted_at
    /\ row.owner # NULL => InTable(row)

\* Starts and the latest submission are different times, all of them past.
TimesApart ==
    /\ row.run_at = last_start
    /\ row.run_at # NULL => row.run_at < now /\ row.run_at # submitted_at
    /\ \A q \in Pods : Started(q) =>
          job[q].started_at < now /\ job[q].started_at # submitted_at

\* A pod at the lock has no job of its own, so the job of the row's owner is
\* the newest, and started no earlier than the last run that was recorded.
OwnerNewest ==
    \A q \in Pods :
        /\ loop[q] = "acquire" => ~InFlight(q)
        /\ Started(q) /\ row.owner = q /\ row.run_at # NULL => row.run_at <= job[q].started_at

\* What makes NoLostRequest inductive.
TriggerInv == TypeInv /\ RequestInRow /\ TimesApart /\ OwnerNewest

\* A step that submits nothing keeps the invariant if it writes to run_at only
\* the start of the owner's job, whose run is over then.
LEMMA TriggerFrame ==
    ASSUME TriggerInv, TypeInv', UNCHANGED requests, now' \in {now, now + 1},
           row'.request_at = row.request_at, InTable(row') <=> InTable(row),
           row'.owner # NULL => InTable(row'),
           \/ row'.run_at = row.run_at /\ last_start' = last_start
           \/ \E p \in Pods : /\ row.owner = p /\ job[p].phase = "record" /\ ~Started(p)'
                              /\ row'.run_at = job[p].started_at /\ last_start' = row'.run_at
                              /\ row'.owner \in {p, NULL},
           \A q \in Pods : row'.owner = q /\ Started(q)' => row.owner = q,
           \A q \in Pods : Started(q)' =>
              \/ Started(q) /\ job'[q].started_at = job[q].started_at
              \/ job'[q].started_at = now /\ now' = now + 1,
           \A q \in Pods : loop'[q] = "acquire" => ~InFlight(q)'
    PROVE  TriggerInv'
<1>t. /\ now \in Nat /\ now' \in Nat /\ row \in Rows
      /\ \A q \in Pods : job[q].started_at \in Nat /\ job'[q].started_at \in Nat
      /\ submitted_at \in Nat \cup {NULL} /\ submits \in Nat /\ row.run_at \in Nat \cup {NULL}
      /\ UNCHANGED <<submits, submitted_at>>
  BY DEF TriggerInv, TypeInv, TypeOK, Jobs, Rows, requests
<1>1. RequestInRow'
  BY <1>t, NullAssumption DEF TriggerInv, RequestInRow
<1>2. \A q \in Pods : Started(q)' =>
         job'[q].started_at < now' /\ job'[q].started_at # submitted_at
  BY <1>t, NullAssumption DEF TriggerInv, TimesApart, RequestInRow
<1>3. row'.run_at = last_start' /\
      (row'.run_at # NULL => row'.run_at < now' /\ row'.run_at # submitted_at)
  <2>1. CASE row'.run_at = row.run_at /\ last_start' = last_start
    BY <1>t, <2>1, NullAssumption DEF TriggerInv, TimesApart
  <2>2. ASSUME NEW p \in Pods, job[p].phase = "record", row'.run_at = job[p].started_at,
               last_start' = row'.run_at
        PROVE  row'.run_at = last_start' /\ row'.run_at < now' /\ row'.run_at # submitted_at
    BY <1>t, <2>2, NullAssumption DEF TriggerInv, TimesApart, Started
  <2> QED
    BY <2>1, <2>2
<1>4. ASSUME NEW q \in Pods, Started(q)', row'.owner = q, row'.run_at # NULL
      PROVE  row'.run_at <= job'[q].started_at
  <2>1. row.owner = q /\ q # NULL
    BY <1>4, PodsAssumption
  <2>2. row'.run_at = row.run_at
    BY <1>4, <2>1
  <2>3. CASE Started(q) /\ job'[q].started_at = job[q].started_at
    BY <1>4, <2>1, <2>2, <2>3 DEF TriggerInv, OwnerNewest
  <2>4. CASE job'[q].started_at = now
    BY <1>4, <1>t, <2>2, <2>4 DEF TriggerInv, TimesApart
  <2> QED
    BY <1>4, <2>3, <2>4
<1> QED
  BY <1>t, <1>1, <1>2, <1>3, <1>4 DEF TriggerInv, TimesApart, OwnerNewest

\* Every step keeps it.
LEMMA TriggerStep == TriggerInv /\ [Next]_vars => TriggerInv'
<1> SUFFICES ASSUME TriggerInv, [Next]_vars PROVE TriggerInv'
  OBVIOUS
<1>T. TypeInv /\ TypeInv'
  BY TypeStep DEF TriggerInv
<1>t. /\ now \in Nat /\ row \in Rows /\ loop \in [Pods -> {"idle", "acquire"}]
      /\ job \in [Pods -> Jobs] /\ submitted_at \in Nat \cup {NULL} /\ submits \in Nat
      /\ row.run_at \in Nat \cup {NULL} /\ row.owner \in Pods \cup {NULL}
      /\ \A q \in Pods : job[q] \in Jobs /\ job[q].started_at \in Nat
      /\ (row.owner # NULL => InTable(row))
      /\ \A q \in Pods : loop[q] = "acquire" => ~InFlight(q)
  BY <1>T DEF TypeInv, TypeOK, Jobs, Rows, TriggerInv, RequestInRow, OwnerNewest
<1>1. CASE UNCHANGED vars
  BY <1>1, <1>T, <1>t, TriggerFrame DEF vars, requests, Started, InFlight
<1>2. CASE Submit
  <2>1. /\ InTable(row') /\ row'.owner = row.owner /\ row'.run_at = row.run_at
        /\ row'.request_at \in Nat /\ row'.request_at >= now
    BY <1>2, <1>t, SubmitTypes DEF Submit
  <2>2. /\ submitted_at' = now /\ now' = now + 1 /\ submits' = submits + 1
        /\ UNCHANGED <<loop, job, last_start>>
    BY <1>2 DEF Submit
  <2>3. RequestInRow'
    BY <1>t, <2>1, <2>2, NullAssumption DEF RequestInRow
  <2>4. TimesApart'
    <3>1. row.run_at # NULL => row.run_at < now /\ row.run_at \in Nat
      BY <1>t DEF TriggerInv, TimesApart
    <3>2. \A q \in Pods : Started(q) => job[q].started_at < now
      BY DEF TriggerInv, TimesApart
    <3>3. row.run_at = last_start
      BY DEF TriggerInv, TimesApart
    <3> QED
      BY <1>t, <2>1, <2>2, <3>1, <3>2, <3>3 DEF TimesApart, Started
  <2>5. OwnerNewest'
    BY <2>1, <2>2 DEF TriggerInv, OwnerNewest, Started, InFlight
  <2> QED
    BY <1>T, <2>3, <2>4, <2>5 DEF TriggerInv
<1>3. ASSUME NEW p \in Pods, ListPending(p) \/ AcquireRefused(p) \/ Restart(p)
      PROVE  TriggerInv'
  <2>1. UNCHANGED <<now, row, job, submits, submitted_at, last_start>>
    BY <1>3 DEF ListPending, AcquireRefused, Restart, requests
  <2>2. \A q \in Pods : loop'[q] = "acquire" => ~InFlight(q)
    BY <1>3, <1>t DEF ListPending, AcquireRefused, Restart, Dispatchable
  <2> QED
    BY <1>T, <1>t, <2>1, <2>2, TriggerFrame DEF requests, Started, InFlight
<1>4. ASSUME NEW p \in Pods, AcquireAndDispatch(p) PROVE TriggerInv'
  <2> DEFINE d == [NoJob EXCEPT !.phase = "dispatched", !.until = now + JobTime]
  <2>1. /\ UNCHANGED <<now, submits, submitted_at, last_start>>
        /\ job' = [job EXCEPT ![p] = d]
        /\ loop' = [loop EXCEPT ![p] = "idle"]
        /\ row' = Acquired(row, p, now, LockTTL) /\ InTable(row)
    BY <1>4 DEF AcquireAndDispatch, requests, CanAcquire
  <2>2. Kept(row, row') /\ row'.owner = p
    BY <1>t, <2>1, LockTypes
  <2>3. d.phase = "dispatched"
    BY DEF NoJob
  <2> HIDE DEF d
  <2>4. /\ job'[p] = d /\ \A q \in Pods : q # p => job'[q] = job[q]
        /\ loop'[p] = "idle" /\ \A q \in Pods : q # p => loop'[q] = loop[q]
    BY <1>t, <2>1
  <2>5. \A q \in Pods : Started(q)' => q # p /\ Started(q) /\ job'[q] = job[q]
    BY <2>3, <2>4 DEF Started
  <2>6. \A q \in Pods : loop'[q] = "acquire" => ~InFlight(q)'
    BY <1>t, <2>4 DEF InFlight
  <2> QED
    BY <1>T, <2>1, <2>2, <2>5, <2>6, TriggerFrame DEF requests, Kept
<1>5. ASSUME NEW p \in Pods, TickFault(p) \/ Stop(p) PROVE TriggerInv'
  <2>1. AbandonTick(p) /\ UNCHANGED <<now, job, submits, submitted_at, last_start>>
    BY <1>5 DEF TickFault, Stop, requests
  <2>2. Kept(row, row') /\ (row' = row \/ (loop[p] = "acquire" /\ row'.owner = p))
    BY <1>T, <2>1, RowSteps
  <2>3. \A q \in Pods : loop'[q] = "acquire" => loop[q] = "acquire"
    BY <1>t, <2>1 DEF AbandonTick
  <2>4. CASE row' = row
    BY <1>T, <1>t, <2>1, <2>3, <2>4, TriggerFrame DEF requests, Started, InFlight
  <2>5. CASE loop[p] = "acquire" /\ row'.owner = p /\ InTable(row)
    <3>1. ~Started(p)
      BY <1>t, <2>5 DEF InFlight, Started
    <3> QED
      BY <1>T, <1>t, <2>1, <2>2, <2>3, <2>5, <3>1, TriggerFrame
         DEF requests, Started, InFlight, Kept
  <2>6. row' # row => InTable(row)
    BY <2>1 DEF AbandonTick, CanAcquire
  <2> QED
    BY <2>2, <2>4, <2>5, <2>6
<1>6. ASSUME NEW p \in Pods, Begin(p) \/ Finish(p) PROVE TriggerInv'
  <2>1. PICK j : /\ job' = [job EXCEPT ![p] = j] /\ j.phase # "none"
                 /\ \/ Started(p) /\ j.started_at = job[p].started_at
                    \/ j.started_at = now /\ now' = now + 1
    <3>1. CASE Begin(p)
      <4> DEFINE b == [job[p] EXCEPT !.phase = "executing", !.started_at = now]
      <4>1. job' = [job EXCEPT ![p] = b] /\ now' = now + 1
        BY <3>1 DEF Begin
      <4>2. b.started_at = now /\ b.phase = "executing"
        BY <1>t DEF Jobs
      <4> QED
        BY <4>1, <4>2
    <3>2. ASSUME NEW o \in {"success", "failed"}, job[p].phase = "executing",
                 job' = [job EXCEPT ![p].phase = "record", ![p].outcome = o]
          PROVE  \E j : /\ job' = [job EXCEPT ![p] = j] /\ j.phase # "none"
                        /\ Started(p) /\ j.started_at = job[p].started_at
      <4> DEFINE f == [job[p] EXCEPT !.phase = "record", !.outcome = o]
      <4>1. job' = [job EXCEPT ![p] = f]
        BY <3>2
      <4>2. f.started_at = job[p].started_at /\ f.phase = "record"
        BY <1>t DEF Jobs
      <4> QED
        BY <3>2, <4>1, <4>2 DEF Started
    <3> QED
      BY <1>6, <3>1, <3>2 DEF Finish
  <2>2. /\ UNCHANGED <<row, loop, submits, submitted_at, last_start>> /\ now' \in {now, now + 1}
        /\ InFlight(p)
    BY <1>6 DEF Begin, Finish, requests, InFlight
  <2>3. job'[p] = j /\ \A q \in Pods : q # p => job'[q] = job[q]
    BY <1>t, <2>1
  <2>4. \A q \in Pods : Started(q)' =>
              \/ Started(q) /\ job'[q].started_at = job[q].started_at
              \/ job'[q].started_at = now /\ now' = now + 1
    BY <2>1, <2>3 DEF Started
  <2>5. \A q \in Pods : loop'[q] = "acquire" => ~InFlight(q)'
    BY <1>t, <2>2, <2>3 DEF InFlight
  <2> QED
    BY <1>T, <1>t, <2>2, <2>4, <2>5, TriggerFrame DEF requests
<1>7. ASSUME NEW p \in Pods, NEW j, MaybeStored(p), InFlight(p),
             job' = [job EXCEPT ![p] = j], j.phase \in {"none", "release"},
             UNCHANGED <<now, loop, submits, submitted_at>>
      PROVE  TriggerInv'
  <2>1. /\ row'.request_at = row.request_at /\ row'.owner \in {row.owner, NULL}
        /\ InTable(row') <=> InTable(row)
        /\ \/ row'.run_at = row.run_at /\ last_start' = last_start
           \/ /\ job[p].phase = "record"
              /\ row'.run_at = IF InTable(row) /\ row.owner = p
                               THEN job[p].started_at ELSE row.run_at
              /\ last_start' = IF row.owner = p THEN job[p].started_at ELSE last_start
    BY <1>T, <1>7, RowSteps
  <2>2. job'[p] = j /\ \A q \in Pods : q # p => job'[q] = job[q]
    BY <1>t, <1>7
  <2>3. ~Started(p)' /\ \A q \in Pods : Started(q)' => Started(q) /\ job'[q] = job[q]
    BY <1>7, <2>2 DEF Started
  <2>4. \A q \in Pods : loop'[q] = "acquire" => ~InFlight(q)'
    BY <1>7, <1>t, <2>2 DEF InFlight
  <2>5. row.owner = p => InTable(row)
    BY <1>t, PodsAssumption
  <2>6. \/ row'.run_at = row.run_at /\ last_start' = last_start
        \/ /\ row.owner = p /\ job[p].phase = "record" /\ ~Started(p)'
           /\ row'.run_at = job[p].started_at /\ last_start' = row'.run_at
           /\ row'.owner \in {p, NULL}
    BY <2>1, <2>3, <2>5
  <2>7. \A q \in Pods : row'.owner = q /\ Started(q)' => row.owner = q
    BY <2>1, PodsAssumption
  <2>8. row'.owner # NULL => InTable(row')
    BY <1>t, <2>1
  <2> QED
    BY <1>T, <1>7, <2>1, <2>3, <2>4, <2>6, <2>7, <2>8, TriggerFrame DEF requests
<1>8. ASSUME NEW p \in Pods, Record(p) \/ Release(p) \/ JobFault(p) \/ GraceExpires(p)
      PROVE  TriggerInv'
  <2>1. MaybeStored(p) /\ InFlight(p) /\ UNCHANGED <<now, loop, submits, submitted_at>>
    BY <1>8 DEF Record, Release, JobFault, GraceExpires, MaybeStored, InFlight, requests
  <2>2. PICK j : job' = [job EXCEPT ![p] = j] /\ j.phase \in {"none", "release"}
    <3>1. CASE Record(p)
      <4> DEFINE r == [job[p] EXCEPT !.phase = "release"]
      <4>1. job' = [job EXCEPT ![p] = r]
        BY <3>1 DEF Record
      <4>2. r.phase = "release"
        BY <1>t DEF Jobs
      <4> QED
        BY <4>1, <4>2
    <3>2. CASE Release(p)
      <4>1. NoJob.phase = "none"
        BY DEF NoJob
      <4> QED
        BY <3>2, <4>1 DEF Release
    <3>3. CASE JobFault(p) \/ GraceExpires(p)
      <4>1. job' = [job EXCEPT ![p] = Unwind(job[p])]
        BY <3>3 DEF JobFault, GraceExpires
      <4>2. Unwind(job[p]).phase \in {"none", "release"}
        BY <1>t, JobTypes
      <4> QED
        BY <4>1, <4>2
    <3> QED
      BY <1>8, <3>1, <3>2, <3>3
  <2> QED
    BY <1>7, <2>1, <2>2
<1>9. ASSUME NEW p \in Pods, Crash(p) PROVE TriggerInv'
  <2>1. UNCHANGED <<now, row, submits, submitted_at, last_start>>
    BY <1>9 DEF Crash, requests
  <2>2. /\ job'[p] = NoJob /\ \A q \in Pods : q # p => job'[q] = job[q]
        /\ loop'[p] = "idle" /\ \A q \in Pods : q # p => loop'[q] = loop[q]
    BY <1>9, <1>t DEF Crash
  <2>3. \A q \in Pods : Started(q)' => Started(q) /\ job'[q] = job[q]
    BY <2>2 DEF Started, NoJob
  <2>4. \A q \in Pods : loop'[q] = "acquire" => ~InFlight(q)'
    BY <1>t, <2>2 DEF InFlight
  <2> QED
    BY <1>T, <1>t, <2>1, <2>3, <2>4, TriggerFrame DEF requests
<1>10. CASE Advance
  <2>1. UNCHANGED <<row, loop, job, submits, submitted_at, last_start>> /\ now' = now + 1
    BY <1>10 DEF Advance, requests
  <2> QED
    BY <1>T, <1>t, <2>1, TriggerFrame DEF requests, Started, InFlight
<1> QED
  BY <1>1, <1>2, <1>3, <1>4, <1>5, <1>6, <1>8, <1>9, <1>10
     DEF Next, LoopStep, JobStep, PodStep

LEMMA TriggerInit == Init => TriggerInv
<1>1. Init => RequestInRow /\ TimesApart /\ OwnerNewest
  BY DEF Init, RequestInRow, TimesApart, OwnerNewest, Started, NoJob
<1> QED
  BY <1>1, TypeInit DEF TriggerInv

\* "After the last change there is always one more execution": a submission is
\* never lost between the list, the lock, the start and the record of runs
\* under way, for any number of pods and submissions, also where jobs outlive
\* their locks.
THEOREM RequestNeverLost == Spec => []NoLostRequest
<1>1. TriggerInv => NoLostRequest
  <2> SUFFICES ASSUME TriggerInv, submits > 0, row.run_at # NULL, ~RunSince(submitted_at)
               PROVE  row.run_at < row.request_at
    BY DEF NoLostRequest
  <2>1. /\ row.run_at \in Nat /\ submitted_at \in Nat /\ row.request_at \in Nat
        /\ row.request_at >= submitted_at
    BY NullAssumption DEF TriggerInv, TypeInv, TypeOK, Rows, RequestInRow
  <2>2. row.run_at = last_start /\ row.run_at # submitted_at
    BY DEF TriggerInv, TimesApart
  <2>3. ~(row.run_at > submitted_at)
    BY <2>2 DEF RunSince
  <2> QED
    BY <2>1, <2>2, <2>3
<1> QED
  BY <1>1, TriggerInit, TriggerStep, PTL DEF Spec

\* run_at never moves back, although jobs that lost their lock go on to record:
\* the UPDATE is fenced by the owner, and the owner's job is the newest.
THEOREM RunAtNeverBack == Spec => RunAtMonotone
<1>1. TriggerInv /\ [Next]_vars =>
        [row.run_at # NULL => row'.run_at # NULL /\ row'.run_at >= row.run_at]_vars
  <2> SUFFICES ASSUME TriggerInv, Next, row.run_at # NULL
               PROVE  row'.run_at # NULL /\ row'.run_at >= row.run_at
    OBVIOUS
  <2>t. /\ TypeInv /\ now \in Nat /\ row \in Rows /\ row.run_at \in Nat /\ NULL \notin Nat
        /\ \A q \in Pods : job[q].started_at \in Nat
    BY NullAssumption DEF TriggerInv, TypeInv, TypeOK, Rows, Jobs
  <2>1. ASSUME row'.run_at = row.run_at
        PROVE  row'.run_at # NULL /\ row'.run_at >= row.run_at
    BY <2>t, <2>1
  <2>2. CASE Submit
    BY <2>t, <2>1, <2>2, SubmitTypes DEF Submit
  <2>3. ASSUME NEW p \in Pods, AbandonTick(p) \/ AcquireAndDispatch(p)
        PROVE  row'.run_at = row.run_at
    BY <2>t, <2>3, RowSteps, LockTypes DEF AcquireAndDispatch, CanAcquire, Kept
  <2>4. ASSUME NEW p \in Pods, MaybeStored(p)
        PROVE  row'.run_at # NULL /\ row'.run_at >= row.run_at
    <3>1. CASE job[p].phase = "record" /\ row.owner = p /\ row'.run_at = job[p].started_at
      <4>1. row.run_at <= job[p].started_at
        BY <3>1 DEF TriggerInv, OwnerNewest, Started
      <4> QED
        BY <2>t, <3>1, <4>1
    <3>2. CASE row'.run_at = row.run_at
      BY <2>1, <3>2
    <3> QED
      BY <2>t, <2>4, <3>1, <3>2, RowSteps
  <2>5. ASSUME NEW p \in Pods, Record(p) \/ Release(p) PROVE MaybeStored(p)
    BY <2>5 DEF Record, Release, MaybeStored
  <2> QED
    BY <2>1, <2>2, <2>3, <2>4, <2>5
       DEF Next, LoopStep, JobStep, PodStep, ListPending, AcquireRefused, TickFault, Stop,
           Begin, Finish, JobFault, GraceExpires, Crash, Restart, Advance
<1> QED
  BY <1>1, TriggerInit, TriggerStep, PTL DEF Spec, RunAtMonotone
---------------------------------------------------------------------------
(* What becomes of a stranded row. *)

\* The row is stranded and no tick is about to lock it from an old list; the
\* last run that was recorded began at n.
Abandoned(n) ==
    /\ Stranded /\ row.owner = NULL
    /\ \A p \in Pods : loop[p] = "idle"
    /\ last_start = n

\* No step of a pod and no submission brings an abandoned row back.
LEMMA AbandonedStep ==
    ASSUME NEW n, TypeInv, Abandoned(n), [Next]_vars
    PROVE  Abandoned(n)'
<1>t. /\ loop \in [Pods -> {"idle", "acquire"}] /\ row \in Rows /\ InTable(row)
      /\ \A p \in Pods : row.owner # p
  BY PodsAssumption DEF TypeInv, TypeOK, Abandoned, Stranded, InTable
<1>k. ASSUME row'.status = row.status, row'.owner = row.owner, row'.expire_at = row.expire_at,
             last_start' = last_start, \A p \in Pods : loop'[p] \in {loop[p], "idle"}
      PROVE  Abandoned(n)'
  BY <1>k DEF Abandoned, Stranded
<1>1. CASE UNCHANGED <<row, loop, last_start>>
  BY <1>1, <1>k
<1>2. CASE Submit
  <2>1. row' = [row EXCEPT !.request_at = RequestAt(row, now, Cooldown), !.run_count = 0]
    BY <1>2, <1>t DEF Submit, Submitted
  <2>2. row'.status = row.status /\ row'.owner = row.owner /\ row'.expire_at = row.expire_at
    BY <1>t, <2>1 DEF Rows
  <2> QED
    BY <1>2, <1>k, <2>2 DEF Submit
<1>3. ASSUME NEW p \in Pods, ListPending(p) PROVE Abandoned(n)'
  <2>1. ~PendingTriggered(row, now)
    BY DEF PendingTriggered, Abandoned, Stranded, SqlLeq
  <2> QED
    BY <1>1, <1>3, <2>1 DEF ListPending, Dispatchable
<1>4. ASSUME NEW p \in Pods PROVE ~AcquireAndDispatch(p) /\ ~AcquireRefused(p) /\ ~TickFault(p)
  BY DEF AcquireAndDispatch, AcquireRefused, TickFault, Abandoned
<1>5. ASSUME NEW p \in Pods, Stop(p) PROVE Abandoned(n)'
  <2>1. row' = row /\ last_start' = last_start /\ loop' = [loop EXCEPT ![p] = "idle"]
    BY <1>5 DEF Stop, AbandonTick, Abandoned
  <2> QED
    BY <1>t, <1>k, <2>1
<1>6. ASSUME NEW p \in Pods, Crash(p) PROVE Abandoned(n)'
  BY <1>6, <1>t, <1>k DEF Crash
\* The store calls of late jobs find an owner that is not theirs.
<1>7. ASSUME NEW p \in Pods, MaybeStored(p) PROVE UNCHANGED <<row, last_start>>
  BY <1>7, <1>t DEF MaybeStored, CommitRecord, Recorded, Released
<1>8. ASSUME NEW p \in Pods, Record(p) \/ Release(p) \/ JobFault(p) \/ GraceExpires(p)
      PROVE  Abandoned(n)'
  <2>1. MaybeStored(p) /\ loop' = loop
    BY <1>8 DEF Record, Release, JobFault, GraceExpires, MaybeStored
  <2> QED
    BY <1>1, <1>7, <2>1
<1> QED
  BY <1>1, <1>2, <1>3, <1>4, <1>5, <1>6, <1>8
     DEF Next, LoopStep, JobStep, PodStep, vars, Begin, Finish, Restart, Advance

\* A row that was left running without an expiry is lost for good: however
\* often the task is submitted again and the pods are restarted, no run of it
\* is recorded any more (the finding about list_pending_triggered_tasks, for
\* any number of pods and submissions).
THEOREM StrandedForGood ==
    ASSUME NEW n
    PROVE  Spec => [](Abandoned(n) => []Abandoned(n))
<1>1. TypeInv /\ Abandoned(n) /\ [Next]_vars => Abandoned(n)'
  BY AbandonedStep
<1>2. Spec => []TypeInv
  BY TypeInit, TypeStep, PTL DEF Spec
<1> QED
  BY <1>1, <1>2, PTL DEF Spec

---------------------------------------------------------------------------
(* Whose rows these are: the registry.  is_triggered sends a submission to *)
(* this runner if a TriggerDef names the task, so each task must have one  *)
(* submission mode, whatever the order of the decorators.                  *)

\* What makes OneSubmissionMode inductive: each list names a task once, and no
\* task is in both.
ModesApart ==
    /\ schedule_defs \in Seq(Names) /\ trigger_defs \in Seq(Names) /\ oneshot_defs \in Seq(Names)
    /\ IsInjective(trigger_defs) /\ IsInjective(oneshot_defs)
    /\ Range(trigger_defs) \cap Range(oneshot_defs) = {}

RegistryInv == WellFormed /\ ModesApart

\* A sequence that grows by one element.
LEMMA AppendRange ==
    ASSUME NEW T, NEW s \in Seq(T), NEW x \in T
    PROVE  /\ Append(s, x) \in Seq(T)
           /\ Range(Append(s, x)) = Range(s) \cup {x}
           /\ IsInjective(s) /\ x \notin Range(s) => IsInjective(Append(s, x))
<1>1. /\ DOMAIN s = 1..Len(s) /\ Len(s) \in Nat
      /\ Append(s, x) \in Seq(T) /\ DOMAIN Append(s, x) = 1..(Len(s) + 1)
      /\ \A i \in 1..Len(s) : Append(s, x)[i] = s[i]
      /\ Append(s, x)[Len(s) + 1] = x
  OBVIOUS
<1>2. 1..(Len(s) + 1) = 1..Len(s) \cup {Len(s) + 1}
  BY <1>1
<1>3. Range(Append(s, x)) = Range(s) \cup {x}
  BY <1>1, <1>2 DEF Range
<1>4. ASSUME IsInjective(s), x \notin Range(s) PROVE IsInjective(Append(s, x))
  <2> SUFFICES ASSUME NEW a \in 1..(Len(s) + 1), NEW b \in 1..(Len(s) + 1),
                      Append(s, x)[a] = Append(s, x)[b]
               PROVE  a = b
    BY <1>1 DEF IsInjective
  <2>1. \A i \in 1..Len(s) : Append(s, x)[i] # x
    BY <1>1, <1>4 DEF Range
  <2>2. CASE a = Len(s) + 1 \/ b = Len(s) + 1
    BY <1>1, <1>2, <2>1, <2>2
  <2>3. CASE a \in 1..Len(s) /\ b \in 1..Len(s)
    BY <1>1, <1>4, <2>3 DEF IsInjective
  <2> QED
    BY <1>2, <2>2, <2>3
<1> QED
  BY <1>1, <1>3, <1>4

\* Two sequences without a common or a repeated element, one after the other.
LEMMA ConcatInjective ==
    ASSUME NEW T, NEW s \in Seq(T), NEW t \in Seq(T), IsInjective(s), IsInjective(t),
           Range(s) \cap Range(t) = {}
    PROVE  IsInjective(s \o t)
<1>1. /\ Len(s) \in Nat /\ Len(t) \in Nat /\ DOMAIN (s \o t) = 1..(Len(s) + Len(t))
      /\ DOMAIN s = 1..Len(s) /\ DOMAIN t = 1..Len(t)
      /\ \A i \in 1..Len(s) : (s \o t)[i] = s[i]
      /\ \A i \in 1..(Len(s) + Len(t)) : i > Len(s) => /\ i - Len(s) \in 1..Len(t)
                                                       /\ (s \o t)[i] = t[i - Len(s)]
  OBVIOUS
<1> SUFFICES ASSUME NEW a \in 1..(Len(s) + Len(t)), NEW b \in 1..(Len(s) + Len(t)),
                    (s \o t)[a] = (s \o t)[b]
             PROVE  a = b
  BY <1>1 DEF IsInjective
<1>2. \A i \in 1..Len(s), j \in 1..Len(t) : s[i] # t[j]
  BY <1>1 DEF Range
<1>3. CASE a \in 1..Len(s) /\ b \in 1..Len(s)
  BY <1>1, <1>3 DEF IsInjective
<1>4. CASE a > Len(s) /\ b > Len(s)
  <2>1. a - Len(s) = b - Len(s)
    BY <1>1, <1>4 DEF IsInjective
  <2> QED
    BY <1>1, <2>1
<1>5. CASE (a \in 1..Len(s) /\ b > Len(s)) \/ (b \in 1..Len(s) /\ a > Len(s))
  BY <1>1, <1>2, <1>5
<1> QED
  BY <1>1, <1>3, <1>4, <1>5

\* A set of positions has a first one.
LEMMA FirstExists ==
    ASSUME NEW S \in SUBSET Nat, S # {}
    PROVE  \E i \in S : \A j \in S : i <= j
<1> DEFINE R == OpToRel(<, Nat)
<1>1. IsWellFoundedOn(R, Nat)
  BY NatLessThanWellFounded
<1>2. \A x, y \in Nat : y < x => <<y, x>> \in R
  BY DEF OpToRel
<1> HIDE DEF R
<1>3. PICK i \in S : \A j \in S : ~(<<j, i>> \in R)
  BY <1>1, WFMin
<1>4. ASSUME NEW j \in S PROVE i <= j
  <2>1. i \in Nat /\ j \in Nat /\ ~(j < i)
    BY <1>2, <1>3
  <2> QED
    BY <2>1
<1> QED
  BY <1>4

\* What _TASK_DEFS holds.
TaskDefs == [name : Names, func : Funcs]

\* The task a decorator finds for its function is a registered one.
LEMMA TaskOfRegistered ==
    ASSUME WellFormed, NEW f \in Funcs, DefsOf(f) # {}
    PROVE  TaskOf(f) \in Registered /\ TaskOf(f) \in Names
<1>1. /\ DOMAIN task_defs = 1..Len(task_defs) /\ Len(task_defs) \in Nat
      /\ \A i \in DOMAIN task_defs : task_defs[i] \in TaskDefs
  <2>1. task_defs \in Seq(TaskDefs)
    BY DEF WellFormed, TaskDefs
  <2> QED
    BY <2>1
<1>2. DefsOf(f) \in SUBSET Nat /\ DefsOf(f) \subseteq DOMAIN task_defs
  BY <1>1 DEF DefsOf
<1>3. \E i \in DefsOf(f) : \A j \in DefsOf(f) : i <= j
  BY <1>2, FirstExists
<1> DEFINE first == CHOOSE i \in DefsOf(f) : \A j \in DefsOf(f) : i <= j
<1>4. first \in DefsOf(f)
  BY <1>3
<1>5. TaskOf(f) = task_defs[first].name
  BY DEF TaskOf
<1> HIDE DEF first
<1> QED
  BY <1>1, <1>2, <1>4, <1>5 DEF Registered, Range, TaskDefs

\* Every decorator keeps the registry well formed and the modes apart.
LEMMA RegistryStep == RegistryInv /\ [RegistryNext]_registry => RegistryInv'
<1> SUFFICES ASSUME RegistryInv, [RegistryNext]_registry PROVE RegistryInv'
  OBVIOUS
<1> USE DEF RegistryInv
<1>d. /\ task_defs \in Seq(TaskDefs)
      /\ schedule_defs \in Seq(Names) /\ trigger_defs \in Seq(Names) /\ oneshot_defs \in Seq(Names)
  BY DEF WellFormed, ModesApart, TaskDefs
<1>1. CASE UNCHANGED registry
  BY <1>1 DEF registry, WellFormed, ModesApart, Registered
<1>2. ASSUME NEW n \in Names, NEW f \in Funcs, Task(n, f) PROVE RegistryInv'
  <2> DEFINE x == [name |-> n, func |-> f]
  <2>1. x \in TaskDefs /\ x.name = n
    BY DEF TaskDefs
  <2>2. task_defs' = Append(task_defs, x) /\ UNCHANGED <<schedule_defs, trigger_defs, oneshot_defs>>
    BY <1>2 DEF Task
  <2> HIDE DEF x
  <2>3. /\ task_defs' \in Seq(TaskDefs)
        /\ Range(task_defs') = Range(task_defs) \cup {x}
    BY <1>d, <2>1, <2>2, AppendRange
  <2>4. Registered \subseteq Registered'
    BY <2>3 DEF Registered
  <2>5. ASSUME NEW i \in DOMAIN task_defs', NEW j \in DOMAIN task_defs',
               task_defs'[i].name = task_defs'[j].name
        PROVE  i = j
    <3>1. /\ DOMAIN task_defs = 1..Len(task_defs) /\ Len(task_defs) \in Nat
          /\ DOMAIN task_defs' = 1..(Len(task_defs) + 1)
          /\ \A k \in 1..Len(task_defs) : task_defs'[k] = task_defs[k]
          /\ task_defs'[Len(task_defs) + 1] = x
      BY <1>d, <2>1, <2>2
    <3>2. \A k \in 1..Len(task_defs) : task_defs[k].name # n
      BY <1>2, <3>1 DEF Task, NewName, Registered, Range
    <3>3. \A k, l \in DOMAIN task_defs : task_defs[k].name = task_defs[l].name => k = l
      BY DEF WellFormed
    <3>4. CASE i \in 1..Len(task_defs) /\ j \in 1..Len(task_defs)
      BY <2>5, <3>1, <3>3, <3>4
    <3>5. CASE i = Len(task_defs) + 1 \/ j = Len(task_defs) + 1
      BY <2>1, <2>5, <3>1, <3>2, <3>5
    <3> QED
      BY <3>1, <3>4, <3>5
  <2>6. WellFormed'
    BY <2>2, <2>3, <2>4, <2>5 DEF WellFormed, TaskDefs
  <2> QED
    BY <2>2, <2>6 DEF ModesApart
<1>3. ASSUME NEW f \in Funcs, Schedule(f) PROVE RegistryInv'
  <2>1. TaskOf(f) \in Registered /\ TaskOf(f) \in Names
    BY <1>3, TaskOfRegistered DEF Schedule
  <2>2. /\ schedule_defs' = Append(schedule_defs, TaskOf(f))
        /\ UNCHANGED <<task_defs, trigger_defs, oneshot_defs>>
    BY <1>3 DEF Schedule
  <2>3. schedule_defs' \in Seq(Names) /\ Range(schedule_defs') = Range(schedule_defs) \cup {TaskOf(f)}
    BY <1>d, <2>1, <2>2, AppendRange
  <2> QED
    BY <2>1, <2>2, <2>3 DEF WellFormed, ModesApart, Registered
<1>4. ASSUME NEW f \in Funcs, Trigger(f) PROVE RegistryInv'
  <2>1. TaskOf(f) \in Registered /\ TaskOf(f) \in Names
    BY <1>4, TaskOfRegistered DEF Trigger
  <2>2. /\ trigger_defs' = Append(trigger_defs, TaskOf(f))
        /\ UNCHANGED <<task_defs, schedule_defs, oneshot_defs>>
        /\ TaskOf(f) \notin Range(trigger_defs) /\ TaskOf(f) \notin Range(oneshot_defs)
    BY <1>4 DEF Trigger, MayTrigger, is_triggered_task, DeclaredOneshot
  <2>3. /\ trigger_defs' \in Seq(Names) /\ Range(trigger_defs') = Range(trigger_defs) \cup {TaskOf(f)}
        /\ IsInjective(trigger_defs')
    BY <1>d, <2>1, <2>2, AppendRange DEF ModesApart
  <2> QED
    BY <2>1, <2>2, <2>3 DEF WellFormed, ModesApart, Registered
<1>5. ASSUME NEW f \in Funcs, Oneshot(f) PROVE RegistryInv'
  <2>1. TaskOf(f) \in Registered /\ TaskOf(f) \in Names
    BY <1>5, TaskOfRegistered DEF Oneshot
  <2>2. /\ oneshot_defs' = Append(oneshot_defs, TaskOf(f))
        /\ UNCHANGED <<task_defs, schedule_defs, trigger_defs>>
        /\ TaskOf(f) \notin Range(trigger_defs) /\ TaskOf(f) \notin Range(oneshot_defs)
    BY <1>5 DEF Oneshot, MayOneshot, is_triggered_task, DeclaredOneshot
  <2>3. /\ oneshot_defs' \in Seq(Names) /\ Range(oneshot_defs') = Range(oneshot_defs) \cup {TaskOf(f)}
        /\ IsInjective(oneshot_defs')
    BY <1>d, <2>1, <2>2, AppendRange DEF ModesApart
  <2> QED
    BY <2>1, <2>2, <2>3 DEF WellFormed, ModesApart, Registered
<1> QED
  BY <1>1, <1>2, <1>3, <1>4, <1>5 DEF RegistryNext

LEMMA RegistryStart == RegistryInit => RegistryInv
<1> SUFFICES ASSUME RegistryInit PROVE RegistryInv
  OBVIOUS
<1>1. \A T : << >> \in Seq(T) /\ DOMAIN << >> = {}
  OBVIOUS
<1> QED
  BY <1>1 DEF RegistryInit, RegistryInv, WellFormed, ModesApart, Range, IsInjective

\* Whatever the order of the decorators and however often they are applied to
\* a function, names are unique and every definition is about a registered
\* task, so the scheduler's look-ups by task_name never raise.
THEOREM RegistryResolves == RegistrySpec => []WellFormed
<1>1. RegistryInv => WellFormed
  BY DEF RegistryInv
<1> QED
  BY <1>1, RegistryStart, RegistryStep, PTL DEF RegistrySpec

\* No order of the decorators gives a task two submission modes, or one mode
\* twice: submit_task always has one runner to turn to.
THEOREM ModesExclude == RegistrySpec => []OneSubmissionMode
<1>1. RegistryInv => OneSubmissionMode
  BY ConcatInjective DEF RegistryInv, ModesApart, OneSubmissionMode
<1> QED
  BY <1>1, RegistryStart, RegistryStep, PTL DEF RegistrySpec
=============================================================================
