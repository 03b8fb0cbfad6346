-------------------------- MODULE ScheduledProofs --------------------------
(***************************************************************************)
(* Theorems about ScheduledRunner over both stores, for any number of pods *)
(* and any schedule, interval and lock TTL, proved with TLAPS.             *)
(***************************************************************************)
EXTENDS ScheduledRunner, TLAPS

---------------------------------------------------------------------------
(* What the store calls do to the row, or to the keys. *)

\* acquire_lock, by the UPDATE, the INSERT or the SET: the pod has the lock.
LEMMA LockTypes ==
    ASSUME NEW r \in Rows, NEW p \in Pods, NEW n \in Nat
    PROVE  /\ LET s == Acquired(r, p, n, LockTTL)
              IN  /\ s \in Rows /\ s.owner = p /\ s.expire_at = n + LockTTL
                  /\ s.run_at = r.run_at /\ InTable(s)
           /\ LET s == Redis!Acquired(r, p, n, LockTTL)
              IN  /\ s \in Rows /\ s.owner = p /\ s.expire_at = n + LockTTL
                  /\ s.run_at = r.run_at
<1>1. n + LockTTL \in Nat
  BY ScheduleAssumption
<1>2. LET s == Acquired(r, p, n, LockTTL)
      IN  /\ s \in Rows /\ s.owner = p /\ s.expire_at = n + LockTTL
          /\ s.run_at = r.run_at /\ s.status = "running"
  BY <1>1 DEF Acquired, Rows, Statuses
<1>3. LET s == Redis!Acquired(r, p, n, LockTTL)
      IN  /\ s \in Rows /\ s.owner = p /\ s.expire_at = n + LockTTL
          /\ s.run_at = r.run_at
  BY <1>1 DEF Redis!Acquired, Rows
<1> QED
  BY <1>2, <1>3 DEF InTable

\* release_lock: it gives back the lock of the pod, or does nothing.
LEMMA ReleaseTypes ==
    ASSUME NEW r \in Rows, NEW p \in Pods, NEW n \in Nat, NEW s,
           s = Released(r, p) \/ s = Redis!Released(r, p, n)
    PROVE  /\ s \in Rows /\ s.run_at = r.run_at /\ s.status = r.status
           /\ s = r \/ (r.owner = p /\ s.owner = NULL)
<1>1. CASE s = r
  BY <1>1
<1>2. CASE r.owner = p /\ s = [r EXCEPT !.owner = NULL, !.expire_at = NULL]
  BY <1>2 DEF Rows
<1> QED
  BY <1>1, <1>2 DEF Released, Redis!Released

\* record_*: it moves the last run, in the SQL store only for the owner.
LEMMA RecordTypes ==
    ASSUME NEW r \in Rows, NEW p \in Pods, NEW n \in Nat, NEW o \in {"success", "failed"}
    PROVE  /\ LET s == Recorded(r, p, n, o)
              IN  /\ s \in Rows /\ s.owner = r.owner /\ s.expire_at = r.expire_at
                  /\ InTable(s) <=> InTable(r)
                  /\ s.run_at = r.run_at \/ (s.run_at = n /\ r.owner = p)
           /\ LET s == Redis!Recorded(r, n, o)
              IN  /\ s \in Rows /\ s.owner = r.owner /\ s.expire_at = r.expire_at
                  /\ s.status = r.status
                  /\ s.run_at = r.run_at \/ s.run_at = n
<1>1. r.run_count + 1 \in Nat
  BY DEF Rows
<1>2. LET s == Recorded(r, p, n, o)
      IN  /\ s \in Rows /\ s.owner = r.owner /\ s.expire_at = r.expire_at
          /\ InTable(s) <=> InTable(r)
          /\ s.run_at = r.run_at \/ (s.run_at = n /\ r.owner = p)
  BY <1>1 DEF Recorded, Rows, Statuses, InTable
<1>3. LET s == Redis!Recorded(r, n, o)
      IN  /\ s \in Rows /\ s.owner = r.owner /\ s.expire_at = r.expire_at
          /\ s.status = r.status
          /\ s.run_at = r.run_at \/ s.run_at = n
  BY DEF Redis!Recorded, Rows
<1> QED
  BY <1>2, <1>3

---------------------------------------------------------------------------
(* Type correctness. *)

\* A tick is on its way only in a pod without a job, and an INSERT under way
\* is of the SQL store and not older than a job may be.
LoopsInOrder ==
    \A p \in Pods :
        /\ loop[p].pc # "idle" => ~InFlight(p)
        /\ loop[p].pc = "insert" =>
              store = "sql" /\ loop[p].at <= now /\ now <= loop[p].at + JobTime

\* What makes TypeOK inductive.
TypeInv ==
    /\ TypeOK
    /\ \A p \in Pods : job[p].phase = "record" => job[p].outcome # "none"
    /\ LoopsInOrder

\* The end of a tick, whether it took the lock or not.
LEMMA TickTypes ==
    ASSUME TypeInv, NEW p \in Pods, NEW t \in Nat,
           \/ row' = Taken(p) /\ t = now /\ loop[p].pc = "acquire"
           \/ row' = Inserted(row, p, t) /\ t = loop[p].at /\ loop[p].pc = "insert"
    PROVE  /\ row' \in Rows /\ row'.owner = p /\ row'.expire_at = t + LockTTL
           /\ row'.run_at = row.run_at /\ (store = "sql" => InTable(row'))
           /\ t <= now /\ now <= t + JobTime /\ ~InFlight(p)
<1>1. row \in Rows /\ now \in Nat
  BY DEF TypeInv, TypeOK
<1>2. /\ row' \in Rows /\ row'.owner = p /\ row'.expire_at = t + LockTTL
      /\ row'.run_at = row.run_at /\ (store = "sql" => InTable(row'))
  <2>1. CASE row' = Acquired(row, p, t, LockTTL)
    BY <1>1, <2>1, LockTypes
  <2>2. CASE store # "sql" /\ row' = Redis!Acquired(row, p, t, LockTTL)
    BY <1>1, <2>2, LockTypes
  <2> QED
    BY <2>1, <2>2 DEF Taken, Inserted
<1> QED
  BY <1>1, <1>2, ScheduleAssumption DEF TypeInv, LoopsInOrder

\* The store call of a job, whether it returned or raised.
LEMMA StoredTypes ==
    ASSUME TypeInv, NEW p \in Pods, MaybeStored(p)
    PROVE  /\ row' \in Rows /\ (InTable(row') <=> InTable(row))
           /\ \/ row'.owner = row.owner /\ row'.expire_at = row.expire_at
              \/ job[p].phase = "release" /\ row.owner = p /\ row'.owner = NULL
           /\ \/ row'.run_at = row.run_at
              \/ /\ job[p].phase = "record" /\ row'.run_at = job[p].started_at
                 /\ store = "redis" \/ row.owner = p
<1>1. /\ row \in Rows /\ now \in Nat /\ store \in {"sql", "redis"}
      /\ job[p] \in Jobs /\ job[p].started_at \in Nat
  BY ScheduleAssumption DEF TypeInv, TypeOK, Jobs
<1>2. CASE row' = row
  BY <1>1, <1>2
<1>3. CASE job[p].phase = "record" /\ CommitRecord(p)
  <2> DEFINE at == job[p].started_at
             how == job[p].outcome
  <2>1. row \in Rows /\ at \in Nat /\ how \in {"success", "failed"}
    BY <1>1, <1>3 DEF TypeInv, Jobs
  <2>2. CASE store = "sql"
    <3>1. row' = Recorded(row, p, at, how)
      BY <1>3, <2>2 DEF CommitRecord
    <3>2. /\ row' \in Rows /\ row'.owner = row.owner /\ row'.expire_at = row.expire_at
          /\ InTable(row') <=> InTable(row)
          /\ row'.run_at = row.run_at \/ (row'.run_at = at /\ row.owner = p)
      <4> HIDE DEF at, how
      <4> QED
        BY <2>1, <3>1, RecordTypes
    <3> QED
      BY <1>3, <3>2
  <2>3. CASE store = "redis"
    <3>1. row' = Redis!Recorded(row, at, how)
      BY <1>3, <2>3 DEF CommitRecord
    <3>2. /\ row' \in Rows /\ row'.owner = row.owner /\ row'.expire_at = row.expire_at
          /\ row'.status = row.status
          /\ row'.run_at = row.run_at \/ row'.run_at = at
      <4> HIDE DEF at, how
      <4> QED
        BY <2>1, <3>1, RecordTypes
    <3> QED
      BY <1>3, <2>3, <3>2 DEF InTable
  <2> QED
    BY <1>1, <2>2, <2>3
<1>4. CASE job[p].phase = "release" /\ CommitRelease(p)
  <2>1. row' = Released(row, p) \/ row' = Redis!Released(row, p, now)
    BY <1>4 DEF CommitRelease
  <2> QED
    BY <1>1, <1>4, <2>1, ReleaseTypes DEF InTable
<1> QED
  BY <1>2, <1>3, <1>4 DEF MaybeStored

\* A step of a tick that takes no lock.
LEMMA LoopTypes ==
    ASSUME TypeInv, NEW p \in Pods, UNCHANGED <<now, store, job>>,
           \/ loop' = [loop EXCEPT ![p] = IdleLoop]
           \/ /\ ~InFlight(p)
              /\ \/ loop' = [loop EXCEPT ![p] = [pc |-> "read", at |-> now]]
                 \/ loop' = [loop EXCEPT ![p] = [pc |-> "acquire", at |-> 0]]
                 \/ /\ store = "sql"
                    /\ loop' = [loop EXCEPT ![p] = [pc |-> "insert", at |-> now]]
    PROVE  /\ loop' \in [Pods -> [pc : {"idle", "read", "acquire", "insert"}, at : Nat]]
           /\ LoopsInOrder'
<1>1. now \in Nat /\ JobTime \in Nat
  BY ScheduleAssumption DEF TypeInv, TypeOK
<1>2. loop \in [Pods -> [pc : {"idle", "read", "acquire", "insert"}, at : Nat]]
  BY DEF TypeInv, TypeOK
<1>3. loop' \in [Pods -> [pc : {"idle", "read", "acquire", "insert"}, at : Nat]]
  BY <1>1, <1>2 DEF IdleLoop
<1>4. \A q \in Pods \ {p} : loop'[q] = loop[q]
  BY <1>2
<1>5. /\ loop'[p].pc # "idle" => ~InFlight(p)
      /\ loop'[p].pc = "insert" => store = "sql" /\ loop'[p].at = now
  BY <1>2 DEF IdleLoop
<1> QED
  BY <1>1, <1>3, <1>4, <1>5 DEF TypeInv, LoopsInOrder, InFlight

\* A step of a job, which leaves no tick in the middle.
LEMMA JobTypes ==
    ASSUME TypeInv, NEW p \in Pods, NEW j \in Jobs, UNCHANGED <<now, store, loop>>,
           job' = [job EXCEPT ![p] = j],
           InFlight(p), j.phase = "record" => j.outcome # "none"
    PROVE  /\ job' \in [Pods -> Jobs]
           /\ \A q \in Pods : job'[q].phase = "record" => job'[q].outcome # "none"
           /\ LoopsInOrder'
<1>1. job \in [Pods -> Jobs]
  BY DEF TypeInv, TypeOK
<1>2. job' \in [Pods -> Jobs] /\ job'[p] = j /\ \A q \in Pods \ {p} : job'[q] = job[q]
  BY <1>1
<1> QED
  BY <1>2 DEF TypeInv, LoopsInOrder, InFlight

\* Where an exception takes a job.
LEMMA UnwindTypes ==
    ASSUME NEW j \in Jobs
    PROVE  Unwind(j) \in Jobs /\ Unwind(j).phase \in {"none", "release"}
<1>1. NoJob \in Jobs /\ NoJob.phase = "none"
  BY DEF NoJob, Jobs
<1>2. [j EXCEPT !.phase = "release"] \in Jobs /\ [j EXCEPT !.phase = "release"].phase = "release"
  BY DEF Jobs
<1> QED
  BY <1>1, <1>2 DEF Unwind

\* A tick that ended early: it took the lock, or it changed nothing.
LEMMA AbandonTypes ==
    ASSUME TypeInv, NEW p \in Pods, AbandonTick(p), UNCHANGED <<now, store, job>>
    PROVE  /\ row' \in Rows /\ row'.run_at = row.run_at
           /\ \/ row' = row
              \/ /\ ~InFlight(p) /\ row'.owner = p /\ row'.expire_at \in Nat
                 /\ LockFree \/ (store = "sql" /\ ~InTable(row))
           /\ loop' \in [Pods -> [pc : {"idle", "read", "acquire", "insert"}, at : Nat]]
           /\ LoopsInOrder'
<1>1. /\ row \in Rows /\ now \in Nat /\ loop[p].at \in Nat /\ LockTTL \in Nat
      /\ now + LockTTL \in Nat /\ loop[p].at + LockTTL \in Nat
  BY ScheduleAssumption DEF TypeInv, TypeOK
<1>2. /\ row' \in Rows /\ row'.run_at = row.run_at
      /\ \/ row' = row
         \/ /\ ~InFlight(p) /\ row'.owner = p /\ row'.expire_at \in Nat
            /\ LockFree \/ (store = "sql" /\ ~InTable(row))
  <2>1. CASE row' = row
    BY <1>1, <2>1
  <2>2. CASE /\ loop[p].pc = "acquire" /\ (LockFree \/ (store = "sql" /\ ~InTable(row)))
             /\ row' = Taken(p)
    BY <1>1, <2>2, TickTypes
  <2>3. CASE /\ loop[p].pc = "insert" /\ UniqueKeyFree
             /\ row' = Inserted(row, p, loop[p].at)
    <3>1. store = "sql" /\ ~InTable(row)
      BY <2>3 DEF UniqueKeyFree, TypeInv, LoopsInOrder
    <3> QED
      BY <1>1, <2>3, <3>1, TickTypes
  <2> QED
    BY <2>1, <2>2, <2>3 DEF AbandonTick
<1> QED
  BY <1>2, LoopTypes DEF AbandonTick

\* A pod that took the lock at t has a job, and no tick under way.
LEMMA DispatchTypes ==
    ASSUME TypeInv, NEW p \in Pods, NEW t \in Nat, Dispatch(p, t), UNCHANGED <<now, store>>
    PROVE  /\ job' \in [Pods -> Jobs]
           /\ \A q \in Pods : job'[q].phase = "record" => job'[q].outcome # "none"
           /\ job'[p].phase = "dispatched" /\ job'[p].until = t + JobTime
           /\ \A q \in Pods \ {p} : job'[q] = job[q]
           /\ loop' \in [Pods -> [pc : {"idle", "read", "acquire", "insert"}, at : Nat]]
           /\ LoopsInOrder'
<1> DEFINE j == [NoJob EXCEPT !.phase = "dispatched", !.until = t + JobTime]
<1>1. j \in Jobs /\ j.phase = "dispatched" /\ j.until = t + JobTime
  <2>1. t + JobTime \in Nat
    BY ScheduleAssumption
  <2> QED
    BY <2>1 DEF NoJob, Jobs
<1>2. job' = [job EXCEPT ![p] = j] /\ loop' = [loop EXCEPT ![p] = IdleLoop]
  BY DEF Dispatch
<1> HIDE DEF j
<1>3. /\ job \in [Pods -> Jobs]
      /\ loop \in [Pods -> [pc : {"idle", "read", "acquire", "insert"}, at : Nat]]
  BY DEF TypeInv, TypeOK
<1>4. job' \in [Pods -> Jobs] /\ job'[p] = j /\ \A q \in Pods \ {p} : job'[q] = job[q]
  BY <1>1, <1>2, <1>3
<1>5. /\ loop' \in [Pods -> [pc : {"idle", "read", "acquire", "insert"}, at : Nat]]
      /\ loop'[p].pc = "idle" /\ \A q \in Pods \ {p} : loop'[q] = loop[q]
  BY <1>2, <1>3 DEF IdleLoop
<1> QED
  BY <1>1, <1>4, <1>5 DEF TypeInv, LoopsInOrder, InFlight

\* Begin and Finish, as changes of the job alone.
LEMMA RunTypes ==
    ASSUME TypeInv, NEW p \in Pods, Begin(p) \/ Finish(p)
    PROVE  /\ job' \in [Pods -> Jobs]
           /\ \A q \in Pods : job'[q].phase = "record" => job'[q].outcome # "none"
           /\ LoopsInOrder'
           /\ Executing(p) /\ job'[p].phase \in {"executing", "record"}
           /\ job'[p].until = job[p].until
           /\ \/ job'[p].started_at = now
              \/ job[p].phase = "executing" /\ job'[p].started_at = job[p].started_at
           /\ \A q \in Pods \ {p} : job'[q] = job[q]
<1>1. job \in [Pods -> Jobs] /\ now \in Nat
  BY DEF TypeInv, TypeOK
<1>2. PICK j \in Jobs :
         /\ job' = [job EXCEPT ![p] = j]
         /\ j.phase \in {"executing", "record"} /\ (j.phase = "record" => j.outcome # "none")
         /\ j.until = job[p].until
         /\ \/ j.started_at = now
            \/ job[p].phase = "executing" /\ j.started_at = job[p].started_at
  <2>1. CASE Begin(p)
    <3> DEFINE j == [job[p] EXCEPT !.phase = "executing", !.started_at = now]
    <3>1. j \in Jobs /\ j.phase = "executing" /\ j.until = job[p].until /\ j.started_at = now
      BY <1>1 DEF Jobs
    <3>2. job' = [job EXCEPT ![p] = j]
      BY <2>1, <1>1 DEF Begin
    <3> QED
      BY <3>1, <3>2
  <2>2. CASE Finish(p)
    <3>1. PICK o \in {"success", "failed"} :
             job' = [job EXCEPT ![p].phase = "record", ![p].outcome = o]
      BY <2>2 DEF Finish
    <3> DEFINE j == [job[p] EXCEPT !.phase = "record", !.outcome = o]
    <3>2. /\ j \in Jobs /\ j.phase = "record" /\ j.until = job[p].until /\ j.outcome = o
          /\ j.started_at = job[p].started_at
      BY <1>1 DEF Jobs
    <3>3. job' = [job EXCEPT ![p] = j]
      BY <3>1, <1>1
    <3>4. job[p].phase = "executing"
      BY <2>2 DEF Finish
    <3> QED
      BY <3>2, <3>3, <3>4
  <2> QED
    BY <2>1, <2>2
<1>3. Executing(p) /\ InFlight(p) /\ UNCHANGED <<now, store, loop>>
  BY DEF Begin, Finish, Executing, InFlight
<1>4. /\ job' \in [Pods -> Jobs] /\ LoopsInOrder'
      /\ \A q \in Pods : job'[q].phase = "record" => job'[q].outcome # "none"
  BY <1>2, <1>3, JobTypes
<1>5. job'[p] = j /\ \A q \in Pods \ {p} : job'[q] = job[q]
  BY <1>1, <1>2
<1> QED
  BY <1>2, <1>3, <1>4, <1>5

\* The store call of a job returns or raises, and the job moves on.
LEMMA CallTypes ==
    ASSUME TypeInv, NEW p \in Pods,
           Record(p) \/ Release(p) \/ JobFault(p) \/ GraceExpires(p)
    PROVE  /\ MaybeStored(p) /\ UNCHANGED <<now, store, loop>>
           /\ job' \in [Pods -> Jobs]
           /\ \A q \in Pods : job'[q].phase = "record" => job'[q].outcome # "none"
           /\ LoopsInOrder'
           /\ job'[p].phase \in {"none", "release"}
           /\ \A q \in Pods \ {p} : job'[q] = job[q]
<1>1. job \in [Pods -> Jobs] /\ job[p] \in Jobs
  BY DEF TypeInv, TypeOK
<1>2. PICK j \in Jobs : job' = [job EXCEPT ![p] = j] /\ j.phase \in {"none", "release"}
  <2>1. CASE Record(p)
    <3> DEFINE j == [job[p] EXCEPT !.phase = "release"]
    <3>1. j \in Jobs /\ j.phase = "release"
      BY <1>1 DEF Jobs
    <3>2. job' = [job EXCEPT ![p] = j]
      BY <2>1, <1>1 DEF Record
    <3> QED
      BY <3>1, <3>2
  <2>2. CASE Release(p)
    <3>1. NoJob \in Jobs /\ NoJob.phase = "none"
      BY DEF NoJob, Jobs
    <3> QED
      BY <2>2, <3>1 DEF Release
  <2>3. CASE JobFault(p) \/ GraceExpires(p)
    <3>1. job' = [job EXCEPT ![p] = Unwind(job[p])]
      BY <2>3, <1>1 DEF JobFault, GraceExpires
    <3> QED
      BY <1>1, <3>1, UnwindTypes
  <2> QED
    BY <2>1, <2>2, <2>3
<1>3. MaybeStored(p) /\ InFlight(p) /\ UNCHANGED <<now, store, loop>>
  BY DEF Record, Release, JobFault, GraceExpires, MaybeStored, InFlight
<1>4. /\ job' \in [Pods -> Jobs] /\ LoopsInOrder'
      /\ \A q \in Pods : job'[q].phase = "record" => job'[q].outcome # "none"
  BY <1>2, <1>3, JobTypes
<1>5. job'[p] = j /\ \A q \in Pods \ {p} : job'[q] = job[q]
  BY <1>1, <1>2
<1> QED
  BY <1>2, <1>3, <1>4, <1>5

\* The process dies.
LEMMA CrashTypes ==
    ASSUME TypeInv, NEW p \in Pods, Crash(p)
    PROVE  /\ job' \in [Pods -> Jobs]
           /\ \A q \in Pods : job'[q].phase = "record" => job'[q].outcome # "none"
           /\ job'[p].phase = "none" /\ \A q \in Pods \ {p} : job'[q] = job[q]
           /\ loop' \in [Pods -> [pc : {"idle", "read", "acquire", "insert"}, at : Nat]]
           /\ LoopsInOrder'
<1>1. NoJob \in Jobs /\ NoJob.phase = "none"
  BY DEF NoJob, Jobs
<1>2. /\ job' = [job EXCEPT ![p] = NoJob] /\ loop' = [loop EXCEPT ![p] = IdleLoop]
      /\ UNCHANGED <<now, store>>
  BY DEF Crash
<1>3. /\ job \in [Pods -> Jobs]
      /\ loop \in [Pods -> [pc : {"idle", "read", "acquire", "insert"}, at : Nat]]
  BY DEF TypeInv, TypeOK
<1>4. job' \in [Pods -> Jobs] /\ job'[p] = NoJob /\ \A q \in Pods \ {p} : job'[q] = job[q]
  BY <1>1, <1>2, <1>3
<1>5. /\ loop' \in [Pods -> [pc : {"idle", "read", "acquire", "insert"}, at : Nat]]
      /\ loop'[p].pc = "idle" /\ \A q \in Pods \ {p} : loop'[q] = loop[q]
  BY <1>2, <1>3 DEF IdleLoop
<1> QED
  BY <1>1, <1>2, <1>4, <1>5 DEF TypeInv, LoopsInOrder, InFlight

LEMMA TypeInit == Init => TypeInv
<1> SUFFICES ASSUME Init PROVE TypeInv
  OBVIOUS
<1>1. NoJob \in Jobs /\ NoJob.phase = "none"
  BY DEF NoJob, Jobs
<1>2. IdleLoop \in [pc : {"idle", "read", "acquire", "insert"}, at : Nat] /\ IdleLoop.pc = "idle"
  BY DEF IdleLoop
<1>3. row \in Rows /\ row.owner = NULL
  BY DEF Init, Rows, Statuses
<1>4. TypeOK
  BY <1>1, <1>2, <1>3 DEF Init, TypeOK
<1> QED
  BY <1>1, <1>2, <1>4 DEF Init, TypeInv, LoopsInOrder

LEMMA TypeStep == TypeInv /\ [Next]_vars => TypeInv'
<1> SUFFICES ASSUME TypeInv, [Next]_vars PROVE TypeInv'
  OBVIOUS
<1> DEFINE Loops == [Pods -> [pc : {"idle", "read", "acquire", "insert"}, at : Nat]]
           Outcomes == \A q \in Pods : job[q].phase = "record" => job[q].outcome # "none"
           Lock == row.owner # NULL => row.expire_at # NULL
<1>1. /\ now \in Nat /\ store \in Stores /\ row \in Rows /\ Lock
      /\ pod \in [Pods -> {"up", "stopping", "cancelled", "crashed"}]
      /\ loop \in Loops /\ job \in [Pods -> Jobs] /\ mishaps \in Nat
      /\ Outcomes /\ LoopsInOrder
  BY DEF TypeInv, TypeOK
<1>2. /\ store' = store
      /\ now' \in Nat /\ mishaps' \in Nat
      /\ pod' \in [Pods -> {"up", "stopping", "cancelled", "crashed"}]
  <2> DEFINE Pod(x) == x \in [Pods -> {"up", "stopping", "cancelled", "crashed"}]
  <2>1. CASE UNCHANGED vars
    BY <1>1, <2>1 DEF vars
  <2>2. ASSUME NEW p \in Pods, LoopStep(p) \/ JobStep(p)
        PROVE  store' = store /\ now' \in Nat /\ mishaps' \in Nat /\ Pod(pod')
    BY <1>1, <2>2 DEF LoopStep, AcquireStep, JobStep, StartTick, CheckDue, AcquireAndDispatch,
       SelectNoRow, InsertAndDispatch, AcquireRefused, Begin, Finish, Record, Release
  <2>3. ASSUME NEW p \in Pods, PodStep(p)
        PROVE  store' = store /\ now' \in Nat /\ mishaps' \in Nat /\ Pod(pod')
    BY <1>1, <2>3 DEF PodStep, Stop, GraceExpires, Crash, Restart, Mishap
  <2>4. ASSUME NEW p \in Pods, TickFault(p) \/ JobFault(p)
        PROVE  store' = store /\ now' \in Nat /\ mishaps' \in Nat /\ Pod(pod')
    BY <1>1, <2>4 DEF TickFault, JobFault, Mishap
  <2>5. CASE Advance
    BY <1>1, <2>5 DEF Advance
  <2> QED
    BY <2>1, <2>2, <2>3, <2>4, <2>5 DEF Next
<1>3. row' \in Rows /\ Lock' /\ loop' \in Loops /\ job' \in [Pods -> Jobs]
      /\ Outcomes' /\ LoopsInOrder'
  <2>1. CASE UNCHANGED vars
    BY <1>1, <2>1 DEF vars, LoopsInOrder, InFlight
  <2>2. ASSUME NEW p \in Pods, StartTick(p) \/ CheckDue(p) \/ SelectNoRow(p) \/ AcquireRefused(p)
        PROVE  row' \in Rows /\ Lock' /\ loop' \in Loops /\ job' \in [Pods -> Jobs]
               /\ Outcomes' /\ LoopsInOrder'
    <3>1. UNCHANGED <<now, store, row, job>>
      BY <2>2 DEF StartTick, CheckDue, SelectNoRow, AcquireRefused
    <3>2. \/ loop' = [loop EXCEPT ![p] = IdleLoop]
          \/ /\ ~InFlight(p)
             /\ \/ loop' = [loop EXCEPT ![p] = [pc |-> "read", at |-> now]]
                \/ loop' = [loop EXCEPT ![p] = [pc |-> "acquire", at |-> 0]]
                \/ /\ store = "sql"
                   /\ loop' = [loop EXCEPT ![p] = [pc |-> "insert", at |-> now]]
      BY <1>1, <2>2 DEF StartTick, CheckDue, SelectNoRow, AcquireRefused, LoopsInOrder
    <3>3. loop' \in Loops /\ LoopsInOrder'
      BY <3>1, <3>2, LoopTypes
    <3> QED
      BY <1>1, <3>1, <3>3
  <2>3. ASSUME NEW p \in Pods, AcquireAndDispatch(p) \/ InsertAndDispatch(p)
        PROVE  row' \in Rows /\ Lock' /\ loop' \in Loops /\ job' \in [Pods -> Jobs]
               /\ Outcomes' /\ LoopsInOrder'
    <3>1. loop[p].at \in Nat
      BY <1>1
    <3>2. PICK t \in Nat :
             /\ Dispatch(p, t) /\ UNCHANGED <<now, store>>
             /\ \/ row' = Taken(p) /\ t = now /\ loop[p].pc = "acquire"
                \/ row' = Inserted(row, p, t) /\ t = loop[p].at /\ loop[p].pc = "insert"
      BY <1>1, <2>3, <3>1 DEF AcquireAndDispatch, InsertAndDispatch
    <3>3. row' \in Rows /\ row'.expire_at = t + LockTTL
      BY <3>2, TickTypes
    <3>4. Lock'
      BY <3>3, ScheduleAssumption, NullAssumption
    <3> QED
      BY <3>2, <3>3, <3>4, DispatchTypes
  <2>4. ASSUME NEW p \in Pods, TickFault(p) \/ Stop(p)
        PROVE  row' \in Rows /\ Lock' /\ loop' \in Loops /\ job' \in [Pods -> Jobs]
               /\ Outcomes' /\ LoopsInOrder'
    <3>1. AbandonTick(p) /\ UNCHANGED <<now, store, job>>
      BY <2>4 DEF TickFault, Stop
    <3>2. /\ row' \in Rows /\ (row' = row \/ row'.expire_at \in Nat)
          /\ loop' \in Loops /\ LoopsInOrder'
      BY <3>1, AbandonTypes
    <3> QED
      BY <1>1, <3>1, <3>2, NullAssumption
  <2>5. ASSUME NEW p \in Pods, Begin(p) \/ Finish(p)
        PROVE  row' \in Rows /\ Lock' /\ loop' \in Loops /\ job' \in [Pods -> Jobs]
               /\ Outcomes' /\ LoopsInOrder'
    <3>1. UNCHANGED <<row, loop>>
      BY <2>5 DEF Begin, Finish
    <3> QED
      BY <1>1, <2>5, <3>1, RunTypes
  <2>6. ASSUME NEW p \in Pods, Record(p) \/ Release(p) \/ JobFault(p) \/ GraceExpires(p)
        PROVE  row' \in Rows /\ Lock' /\ loop' \in Loops /\ job' \in [Pods -> Jobs]
               /\ Outcomes' /\ LoopsInOrder'
    <3>1. MaybeStored(p) /\ UNCHANGED loop
      BY <2>6, CallTypes
    <3>2. row' \in Rows /\ Lock'
      BY <1>1, <3>1, StoredTypes
    <3>3. job' \in [Pods -> Jobs] /\ Outcomes' /\ LoopsInOrder'
      BY <2>6, CallTypes
    <3> QED
      BY <1>1, <3>1, <3>2, <3>3
  <2>7. ASSUME NEW p \in Pods, Crash(p)
        PROVE  row' \in Rows /\ Lock' /\ loop' \in Loops /\ job' \in [Pods -> Jobs]
               /\ Outcomes' /\ LoopsInOrder'
    <3>1. row' = row
      BY <2>7 DEF Crash
    <3> QED
      BY <1>1, <2>7, <3>1, CrashTypes
  <2>8. ASSUME NEW p \in Pods, Restart(p)
        PROVE  row' \in Rows /\ Lock' /\ loop' \in Loops /\ job' \in [Pods -> Jobs]
               /\ Outcomes' /\ LoopsInOrder'
    BY <1>1, <2>8 DEF Restart, LoopsInOrder, InFlight
  <2>9. ASSUME Advance
        PROVE  row' \in Rows /\ Lock' /\ loop' \in Loops /\ job' \in [Pods -> Jobs]
               /\ Outcomes' /\ LoopsInOrder'
    <3>1. now' = now + 1 /\ UNCHANGED <<store, row, loop, job>>
      BY <2>9 DEF Advance
    <3>2. LoopsInOrder'
      BY <1>1, <2>9, <3>1, ScheduleAssumption DEF Advance, LoopsInOrder, InFlight
    <3> QED
      BY <1>1, <3>1, <3>2
  <2> QED
    BY <2>1, <2>2, <2>3, <2>4, <2>5, <2>6, <2>7, <2>8, <2>9
    DEF Next, LoopStep, AcquireStep, JobStep, PodStep
<1> QED
  BY <1>1, <1>2, <1>3 DEF TypeInv, TypeOK

\* Every state of the row or the keys, the ticks and the jobs has the shape
\* that the code relies on: a scheduled row is never pending or deleted, and
\* a lock never lacks an expiry, whatever faults, shutdowns and crashes there are.
THEOREM TypeCorrect == Spec => []TypeOK
<1>1. TypeInv => TypeOK
  BY DEF TypeInv
<1> QED
  BY <1>1, TypeInit, TypeStep, PTL DEF Spec

---------------------------------------------------------------------------
(* One pod at a time, and the order of the recorded runs. *)

\* A job that has not recorded yet.
Working(p) == job[p].phase \in {"dispatched", "executing", "record"}

\* The lock of a working job is its pod's and outlasts the job.
LockHeld ==
    \A p \in Pods : Working(p) =>
        /\ now <= job[p].until
        /\ row.owner = p /\ job[p].until < row.expire_at
        /\ store = "sql" => InTable(row)

HoldInv == TypeInv /\ LockHeld

\* A job that has taken its started_at and not recorded it.
Started(p) == job[p].phase \in {"executing", "record"}

\* No run lies in the future, and a run that may still be recorded began
\* after the last one: any run in Redis, that of the lock's owner in SQL.
RunsInOrder ==
    /\ row.run_at # NULL => row.run_at <= now
    /\ \A p \in Pods : Started(p) =>
          /\ job[p].started_at <= now
          /\ (store = "redis" \/ row.owner = p) /\ row.run_at # NULL =>
                row.run_at <= job[p].started_at

\* While a job works, acquire_lock refuses everybody and no INSERT gets in.
LEMMA WorkingExcludes ==
    ASSUME HoldInv, NEW q \in Pods, Working(q)
    PROVE  ~LockFree /\ (store = "sql" => InTable(row))
<1>1. /\ now \in Nat /\ store \in {"sql", "redis"} /\ job[q].until \in Nat
      /\ row.expire_at \in Nat \cup {NULL}
  BY ScheduleAssumption DEF HoldInv, TypeInv, TypeOK, Rows, Jobs
<1>2. /\ row.owner = q /\ now <= job[q].until /\ job[q].until < row.expire_at
      /\ store = "sql" => InTable(row)
  BY DEF HoldInv, LockHeld
<1>3. row.owner # NULL /\ row.expire_at \in Nat
  BY <1>1, <1>2, PodsAssumption DEF HoldInv, TypeInv, TypeOK
<1>4. now < row.expire_at
  BY <1>1, <1>2, <1>3
<1>5. Locked(row, now) /\ Redis!Locked(row, now)
  BY <1>1, <1>3, <1>4, NullAssumption DEF Locked, Redis!Locked
<1> QED
  BY <1>2, <1>5 DEF LockFree, CanAcquire

LEMMA HoldStep ==
    ASSUME JobTime < LockTTL
    PROVE  HoldInv /\ [Next]_vars => HoldInv'
<1> SUFFICES ASSUME HoldInv, [Next]_vars PROVE LockHeld'
  BY TypeStep DEF HoldInv
<1> USE DEF HoldInv
<1>1. /\ now \in Nat /\ row \in Rows /\ job \in [Pods -> Jobs] /\ TypeInv'
      /\ \A q \in Pods : loop[q].at \in Nat /\ job[q].until \in Nat
  BY TypeStep DEF TypeInv, TypeOK, Jobs
<1>2. ASSUME UNCHANGED <<now, store, row, job>>
      PROVE  LockHeld'
  BY <1>2 DEF LockHeld, Working
<1>3. ASSUME NEW p \in Pods, AcquireAndDispatch(p) \/ InsertAndDispatch(p)
      PROVE  LockHeld'
  <2>1. PICK t \in Nat :
           /\ Dispatch(p, t) /\ UNCHANGED <<now, store>>
           /\ \/ row' = Taken(p) /\ t = now /\ loop[p].pc = "acquire"
              \/ row' = Inserted(row, p, t) /\ t = loop[p].at /\ loop[p].pc = "insert"
    BY <1>1, <1>3 DEF AcquireAndDispatch, InsertAndDispatch
  <2>2. LockFree \/ (store = "sql" /\ ~InTable(row))
    BY <1>3 DEF AcquireAndDispatch, InsertAndDispatch, UniqueKeyFree, TypeInv, LoopsInOrder
  <2>3. \A q \in Pods : ~Working(q)
    BY <2>2, WorkingExcludes
  <2>4. /\ row'.owner = p /\ row'.expire_at = t + LockTTL /\ (store = "sql" => InTable(row'))
        /\ now <= t + JobTime
    BY <2>1, TickTypes
  <2>5. job'[p].until = t + JobTime /\ \A q \in Pods \ {p} : job'[q] = job[q]
    BY <2>1, DispatchTypes
  <2>6. t + JobTime < t + LockTTL
    BY ScheduleAssumption
  <2> QED
    BY <2>1, <2>3, <2>4, <2>5, <2>6 DEF LockHeld, Working
<1>4. ASSUME NEW p \in Pods, TickFault(p) \/ Stop(p)
      PROVE  LockHeld'
  <2>1. AbandonTick(p) /\ UNCHANGED <<now, store, job>>
    BY <1>4 DEF TickFault, Stop
  <2>2. row' = row \/ LockFree \/ (store = "sql" /\ ~InTable(row))
    BY <2>1, AbandonTypes
  <2>3. CASE row' = row
    BY <1>2, <2>1, <2>3
  <2>4. CASE LockFree \/ (store = "sql" /\ ~InTable(row))
    BY <2>1, <2>4, WorkingExcludes DEF LockHeld, Working
  <2> QED
    BY <2>2, <2>3, <2>4
<1>5. ASSUME NEW p \in Pods, Begin(p) \/ Finish(p)
      PROVE  LockHeld'
  <2>1. UNCHANGED <<now, store, row>>
    BY <1>5 DEF Begin, Finish
  <2>2. /\ Working(p) /\ job'[p].until = job[p].until
        /\ \A q \in Pods \ {p} : job'[q] = job[q]
    BY <1>5, RunTypes DEF Executing, Working
  <2> QED
    BY <2>1, <2>2 DEF LockHeld, Working
<1>6. ASSUME NEW p \in Pods, Record(p) \/ Release(p) \/ JobFault(p) \/ GraceExpires(p)
      PROVE  LockHeld'
  <2>1. /\ MaybeStored(p) /\ UNCHANGED <<now, store>> /\ ~Working(p)'
        /\ \A q \in Pods \ {p} : job'[q] = job[q]
    BY <1>6, CallTypes DEF Working
  <2>2. /\ InTable(row') <=> InTable(row)
        /\ \/ row'.owner = row.owner /\ row'.expire_at = row.expire_at
           \/ row.owner = p
    BY <2>1, StoredTypes
  <2> QED
    BY <2>1, <2>2 DEF LockHeld, Working
<1>7. ASSUME NEW p \in Pods, Crash(p)
      PROVE  LockHeld'
  <2>1. UNCHANGED <<now, store, row>>
    BY <1>7 DEF Crash
  <2> QED
    BY <1>7, <2>1, CrashTypes DEF LockHeld, Working
<1>8. ASSUME Advance
      PROVE  LockHeld'
  <2>1. now' = now + 1 /\ UNCHANGED <<store, row, job>>
    BY <1>8 DEF Advance
  <2>2. \A q \in Pods : Working(q) => now < job[q].until
    BY <1>8 DEF Advance, Working
  <2> QED
    BY <1>1, <2>1, <2>2 DEF LockHeld, Working
<1>9. ASSUME NEW p \in Pods,
             \/ StartTick(p) \/ CheckDue(p) \/ SelectNoRow(p) \/ AcquireRefused(p)
             \/ Restart(p)
      PROVE  LockHeld'
  <2>1. UNCHANGED <<now, store, row, job>>
    BY <1>9 DEF StartTick, CheckDue, SelectNoRow, AcquireRefused, Restart
  <2> QED
    BY <1>2, <2>1
<1>10. CASE UNCHANGED vars
  BY <1>2, <1>10 DEF vars
<1> QED
  BY <1>3, <1>4, <1>5, <1>6, <1>7, <1>8, <1>9, <1>10
  DEF Next, LoopStep, AcquireStep, JobStep, PodStep

LEMMA HoldInit == Init => HoldInv
BY TypeInit DEF Init, HoldInv, LockHeld, Working, NoJob

\* A scheduled task runs in one pod at a time, in either store, if a job
\* takes less time than its lock lives: the pods that race for the first
\* INSERT are kept apart by the unique key, the others by the lock that
\* a job keeps until it has recorded (scheduled.py, acquire_lock).
THEOREM OnePodAtATime ==
    ASSUME JobTime < LockTTL
    PROVE  Spec => []OnePodRuns
<1>1. HoldInv => OnePodRuns
  BY DEF HoldInv, LockHeld, OnePodRuns, Executing, Working
<1>2. HoldInv /\ [Next]_vars => HoldInv'
  BY HoldStep
<1> QED
  BY <1>1, <1>2, HoldInit, PTL DEF Spec

---------------------------------------------------------------------------

\* What keeps the runs in order: in Redis, where a record looks at no owner,
\* it is the lock of the working job; in SQL the WHERE clause is enough.
OrderInv == TypeInv /\ RunsInOrder /\ (store = "redis" => LockHeld)

LEMMA OrderInit == Init => OrderInv
BY TypeInit DEF Init, OrderInv, RunsInOrder, Started, LockHeld, Working, NoJob

\* A step keeps the runs in order and takes the last run nowhere back.
LEMMA OrderStep ==
    ASSUME OrderInv, [Next]_vars
    PROVE  /\ RunsInOrder'
           /\ row.run_at # NULL => row'.run_at # NULL /\ row'.run_at >= row.run_at
<1> USE DEF OrderInv
<1> DEFINE Kept == row'.run_at = row.run_at
           Later == row.run_at # NULL => row'.run_at # NULL /\ row'.run_at >= row.run_at
<1>1. /\ now \in Nat /\ row \in Rows /\ job \in [Pods -> Jobs] /\ store \in {"sql", "redis"}
      /\ row.run_at \in Nat \cup {NULL}
      /\ \A q \in Pods : loop[q].at \in Nat /\ job[q].started_at \in Nat
  BY ScheduleAssumption DEF TypeInv, TypeOK, Rows, Jobs
<1>2. Kept => Later
  BY <1>1
<1>3. ASSUME UNCHANGED <<now, store, row, job>>
      PROVE  RunsInOrder' /\ Kept
  BY <1>3 DEF RunsInOrder, Started
<1>4. ASSUME NEW p \in Pods, AcquireAndDispatch(p) \/ InsertAndDispatch(p)
      PROVE  RunsInOrder' /\ Kept
  <2>1. PICK t \in Nat :
           /\ Dispatch(p, t) /\ UNCHANGED <<now, store>>
           /\ \/ row' = Taken(p) /\ t = now /\ loop[p].pc = "acquire"
              \/ row' = Inserted(row, p, t) /\ t = loop[p].at /\ loop[p].pc = "insert"
    BY <1>1, <1>4 DEF AcquireAndDispatch, InsertAndDispatch
  <2>2. row'.owner = p /\ Kept
    BY <2>1, TickTypes
  <2>3. ~Started(p)' /\ \A q \in Pods \ {p} : job'[q] = job[q]
    BY <2>1, DispatchTypes DEF Started
  <2> QED
    BY <2>1, <2>2, <2>3 DEF RunsInOrder, Started
<1>5. ASSUME NEW p \in Pods, TickFault(p) \/ Stop(p)
      PROVE  RunsInOrder' /\ Kept
  <2>1. AbandonTick(p) /\ UNCHANGED <<now, store, job>>
    BY <1>5 DEF TickFault, Stop
  <2>2. Kept /\ (row' = row \/ (~InFlight(p) /\ row'.owner = p))
    BY <2>1, AbandonTypes
  <2>3. ~InFlight(p) => ~Started(p)
    BY DEF InFlight, Started
  <2> QED
    BY <2>1, <2>2, <2>3 DEF RunsInOrder, Started
<1>6. ASSUME NEW p \in Pods, Begin(p) \/ Finish(p)
      PROVE  RunsInOrder' /\ Kept
  <2>1. UNCHANGED <<now, store, row>>
    BY <1>6 DEF Begin, Finish
  <2>2. /\ \/ job'[p].started_at = now
           \/ Started(p) /\ job'[p].started_at = job[p].started_at
        /\ \A q \in Pods \ {p} : job'[q] = job[q]
    BY <1>6, RunTypes DEF Started
  <2> QED
    BY <1>1, <2>1, <2>2 DEF RunsInOrder, Started
<1>7. ASSUME NEW p \in Pods, Record(p) \/ Release(p) \/ JobFault(p) \/ GraceExpires(p)
      PROVE  RunsInOrder' /\ Later
  <2>1. /\ MaybeStored(p) /\ UNCHANGED <<now, store>> /\ ~Started(p)'
        /\ \A q \in Pods \ {p} : job'[q] = job[q]
    BY <1>7, CallTypes DEF Started
  <2>2. row'.owner = row.owner \/ row'.owner = NULL
    BY <2>1, StoredTypes
  <2>3. CASE Kept
    BY <1>2, <2>1, <2>2, <2>3, PodsAssumption DEF RunsInOrder, Started
  <2>4. CASE /\ job[p].phase = "record" /\ row'.run_at = job[p].started_at
             /\ store = "redis" \/ row.owner = p
    <3>1. Started(p) /\ Working(p)
      BY <2>4 DEF Started, Working
    <3>2. row'.run_at \in Nat /\ row'.run_at <= now /\ Later
      BY <1>1, <2>4, <3>1, NullAssumption DEF RunsInOrder
    <3>3. \A q \in Pods \ {p} : Started(q) => ~(store = "redis" \/ row.owner = q)
      <4>1. CASE store = "redis"
        BY <3>1, <4>1 DEF LockHeld, Started, Working
      <4>2. CASE store # "redis"
        BY <2>4, <4>2
      <4> QED
        BY <4>1, <4>2
    <3> QED
      BY <2>1, <2>2, <3>2, <3>3, PodsAssumption DEF RunsInOrder, Started
  <2> QED
    BY <2>1, <2>3, <2>4, StoredTypes
<1>8. ASSUME NEW p \in Pods, Crash(p)
      PROVE  RunsInOrder' /\ Kept
  <2>1. UNCHANGED <<now, store, row>>
    BY <1>8 DEF Crash
  <2> QED
    BY <1>8, <2>1, CrashTypes DEF RunsInOrder, Started
<1>9. ASSUME Advance
      PROVE  RunsInOrder' /\ Kept
  <2>1. now' = now + 1 /\ UNCHANGED <<store, row, job>>
    BY <1>9 DEF Advance
  <2> QED
    BY <1>1, <2>1 DEF RunsInOrder, Started
<1>10. ASSUME NEW p \in Pods,
              \/ StartTick(p) \/ CheckDue(p) \/ SelectNoRow(p) \/ AcquireRefused(p)
              \/ Restart(p)
       PROVE  RunsInOrder' /\ Kept
  <2>1. UNCHANGED <<now, store, row, job>>
    BY <1>10 DEF StartTick, CheckDue, SelectNoRow, AcquireRefused, Restart
  <2> QED
    BY <1>3, <2>1
<1>11. CASE UNCHANGED vars
  BY <1>2, <1>3, <1>11 DEF vars
<1> QED
  BY <1>2, <1>4, <1>5, <1>6, <1>7, <1>8, <1>9, <1>10, <1>11
  DEF Next, LoopStep, AcquireStep, JobStep, PodStep

\* The lock of a Redis job is held throughout, or no store is Redis.
LEMMA RedisHolds ==
    ASSUME JobTime < LockTTL \/ Stores \subseteq {"sql"}
    PROVE  Spec => [](TypeInv /\ (store = "redis" => LockHeld))
<1>1. CASE JobTime < LockTTL
  <2>1. HoldInv /\ [Next]_vars => HoldInv'
    BY <1>1, HoldStep
  <2>2. HoldInv => TypeInv /\ (store = "redis" => LockHeld)
    BY DEF HoldInv
  <2> QED
    BY <2>1, <2>2, HoldInit, PTL DEF Spec
<1>2. CASE Stores \subseteq {"sql"}
  <2>1. TypeInv => TypeInv /\ (store = "redis" => LockHeld)
    BY <1>2 DEF TypeInv, TypeOK
  <2> QED
    BY <2>1, TypeInit, TypeStep, PTL DEF Spec
<1> QED
  BY <1>1, <1>2

\* The last run of a scheduled task never goes back, so a task is not due a
\* second time for a run that was made: in the SQL store always, because
\* record_* writes only for the owner of the row; in the Redis store, whose
\* record_* compares nothing, if a job takes less time than its lock lives.
THEOREM LastRunNeverBack ==
    ASSUME JobTime < LockTTL \/ Stores \subseteq {"sql"}
    PROVE  Spec => LastRunAdvances
<1> DEFINE Holds == TypeInv /\ (store = "redis" => LockHeld)
           Forward == row.run_at # NULL => row'.run_at # NULL /\ row'.run_at >= row.run_at
<1>1. Spec => []Holds
  BY RedisHolds
<1>2. Init => RunsInOrder
  BY OrderInit DEF OrderInv
<1>3. Holds /\ RunsInOrder /\ [Next]_vars => RunsInOrder' /\ [Forward]_vars
  BY OrderStep DEF OrderInv
<1> HIDE DEF Holds, Forward
<1>4. Spec => [][Forward]_vars
  BY <1>1, <1>2, <1>3, PTL DEF Spec
<1> QED
  BY <1>4 DEF LastRunAdvances, Forward
---------------------------------------------------------------------------
(* A cron schedule without a last run. *)

\* The next tick of the cron after the clock is after the clock.
LEMMA CronIsLater == \A t \in Nat : (t \div Interval + 1) * Interval > t
BY ScheduleAssumption

\* The task has no last run and no pod has it in flight.
NeverRun == row.run_at = NULL /\ \A p \in Pods : ~InFlight(p)

\* What makes NeverRun inductive: no tick gets past its check, as the time it
\* works with is not after the clock that the check looks at.
CronInv ==
    /\ TypeInv /\ NeverRun
    /\ \A p \in Pods : loop[p].pc = "idle" \/ (loop[p].pc = "read" /\ loop[p].at <= now)

LEMMA CronStep ==
    ASSUME Cron, CronInv, [Next]_vars
    PROVE  CronInv'
<1>t. /\ TypeInv' /\ now \in Nat /\ job \in [Pods -> Jobs]
      /\ loop \in [Pods -> [pc : {"idle", "read", "acquire", "insert"}, at : Nat]]
  BY TypeStep DEF CronInv, TypeInv, TypeOK
<1>k. ASSUME row' = row, \A p \in Pods : job'[p].phase = "none",
             \A p \in Pods : loop'[p].pc = "idle" \/ (loop'[p].pc = "read" /\ loop'[p].at <= now')
      PROVE  CronInv'
  BY <1>k, <1>t DEF CronInv, NeverRun, InFlight
<1>j. \A p \in Pods : job[p].phase = "none"
  BY DEF CronInv, NeverRun, InFlight
\* Steps that leave the tick loops alone, or end one of them.
<1>i. ASSUME NEW p \in Pods, row' = row, job' = job, now' = now,
             loop' = [loop EXCEPT ![p] = IdleLoop]
      PROVE  CronInv'
  <2>1. \A q \in Pods : loop'[q] = loop[q] \/ loop'[q].pc = "idle"
    BY <1>i, <1>t DEF IdleLoop
  <2> QED
    BY <1>i, <1>k, <1>j, <2>1 DEF CronInv
<1>1. CASE UNCHANGED <<now, row, loop, job>>
  BY <1>1, <1>k, <1>j DEF CronInv
<1>2. ASSUME NEW p \in Pods, StartTick(p) PROVE CronInv'
  <2>1. \A q \in Pods : loop'[q] = IF q = p THEN [pc |-> "read", at |-> now] ELSE loop[q]
    BY <1>2, <1>t DEF StartTick
  <2>2. \A q \in Pods : loop'[q].pc = "idle" \/ (loop'[q].pc = "read" /\ loop'[q].at <= now)
    BY <1>t, <2>1 DEF CronInv
  <2> QED
    BY <1>2, <1>k, <1>j, <2>2 DEF StartTick
<1>3. ASSUME NEW p \in Pods, CheckDue(p) PROVE CronInv'
  <2>1. loop[p].at <= now /\ loop[p].at \in Nat
    BY <1>3, <1>t DEF CheckDue, CronInv
  <2>2. NextRun(LastRun, now) = (now \div Interval + 1) * Interval
    BY DEF NextRun, CronNext, LastRun, CronInv, NeverRun
  <2>3. (now \div Interval + 1) * Interval > now /\ (now \div Interval + 1) * Interval \in Int
    BY <1>t, CronIsLater, ScheduleAssumption
  <2>4. loop[p].at < NextRun(LastRun, now)
    BY <1>t, <2>1, <2>2, <2>3
  <2> QED
    BY <1>3, <1>i, <2>4 DEF CheckDue
<1>4. ASSUME NEW p \in Pods PROVE ~AcquireStep(p)
  BY DEF AcquireStep, AcquireAndDispatch, SelectNoRow, InsertAndDispatch, AcquireRefused, CronInv
<1>5. ASSUME NEW p \in Pods PROVE ~JobStep(p) /\ ~JobFault(p) /\ ~GraceExpires(p)
  BY <1>j DEF JobStep, Begin, Finish, Record, Release, JobFault, GraceExpires
<1>6. ASSUME NEW p \in Pods, TickFault(p) \/ Stop(p) PROVE CronInv'
  <2>1. row' = row /\ job' = job /\ now' = now /\ loop' = [loop EXCEPT ![p] = IdleLoop]
    BY <1>6 DEF TickFault, Stop, AbandonTick, CronInv
  <2> QED
    BY <1>i, <2>1
<1>7. ASSUME NEW p \in Pods, Crash(p) PROVE CronInv'
  <2>1. \A q \in Pods : job'[q].phase = "none" /\ (loop'[q] = loop[q] \/ loop'[q].pc = "idle")
    BY <1>7, <1>t, <1>j DEF Crash, IdleLoop, NoJob
  <2> QED
    BY <1>7, <1>k, <2>1 DEF Crash, CronInv
<1>8. CASE Advance
  <2>1. \A p \in Pods : loop[p].pc = "idle" \/ (loop[p].pc = "read" /\ loop[p].at <= now + 1)
    BY <1>t DEF CronInv
  <2> QED
    BY <1>8, <1>k, <1>j, <2>1 DEF Advance
<1> QED
  BY <1>1, <1>2, <1>3, <1>4, <1>5, <1>6, <1>7, <1>8
     DEF Next, LoopStep, PodStep, vars, Restart

\* A cron task that has no last run never gets one: for any period, any number of
\* pods and either store, no tick finds it due and no pod ever calls its handler,
\* although schedule.py presents a cron as a trigger of its own (the finding
\* about CronSchedule.next_run).
THEOREM CronNeverStarts ==
    ASSUME Cron
    PROVE  Spec => []NeverRun
<1>1. Init => CronInv
  <2>1. Init => NeverRun /\ \A p \in Pods : loop[p].pc = "idle"
    BY DEF Init, NeverRun, InFlight, NoJob, IdleLoop
  <2> QED
    BY <2>1, TypeInit DEF CronInv
<1>2. CronInv /\ [Next]_vars => CronInv'
  BY CronStep
<1>3. CronInv => NeverRun
  BY DEF CronInv
<1> QED
  BY <1>1, <1>2, <1>3, PTL DEF Spec
=============================================================================
