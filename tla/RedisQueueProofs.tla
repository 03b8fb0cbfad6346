-------------------------- MODULE RedisQueueProofs --------------------------
(***************************************************************************)
(* Theorems about RedisQueue, and with it OneshotSubmit: for any number of *)
(* environments, pods, submitters and tasks, and any prefixes that keep    *)
(* the environments apart, proved with TLAPS.                              *)
(***************************************************************************)
EXTENDS RedisQueue, SequenceTheorems, TLAPS

---------------------------------------------------------------------------
(* Type correctness. *)

StoreNames == {to_store_name(e, n) : e \in Envs, n \in Names}

\* The submission of one caller, in full.
Calls == [pc : {"idle", "get", "get_again", "add", "get_conflict", "returned", "raised"},
          env : Envs \cup {NULL}, name : StoreNames \cup {NULL}, biz : BizNames \cup {NULL},
          known : SUBSET Ids, result : Ids \cup {NULL}]

TypeInv == TypeOK /\ call \in [Submitters -> Calls]

\* A task that is removed keeps everything but its state.
LEMMA RemovedTask ==
    ASSUME NEW t \in Tasks
    PROVE  /\ Removed(t) \in Tasks /\ Removed(t).state = "out"
           /\ Removed(t).env = t.env /\ Removed(t).name = t.name /\ Removed(t).biz = t.biz
BY DEF Removed, Tasks

\* The parts of TypeOK that a submission may change.
SubmitTypes ==
    /\ store \in Stores /\ task \in [Ids -> Tasks] /\ call \in [Submitters -> Calls]
    /\ \A s \in Submitters : call[s].pc \in {"get_conflict", "raised"} => store = "sql"

LEMMA TypeParts ==
    TypeInv <=>
        /\ SubmitTypes
        /\ lock \in [Ids -> Pods \cup {NULL}]
        /\ pod \in [Pods -> {"up", "stopping", "cancelled", "crashed"}]
        /\ todo \in [Pods -> ((SUBSET Ids) \ {{}}) \cup {NULL}]
        /\ job \in [Pods -> [Ids -> Phases]]
        /\ mishaps \in 0..MaxMishaps
        /\ finished \subseteq Ids /\ dropped \subseteq Ids
        /\ cleaner \in [Ids -> Envs \cup {NULL}]
BY DEF TypeInv, TypeOK, SubmitTypeOK, SubmitTypes, Calls

\* A submission, from its look-ups to its insert, keeps its types.
LEMMA SubmitTypesStep ==
    ASSUME SubmitTypes, SubmitStep
    PROVE  SubmitTypes'
<1> PICK s \in Submitters : \/ \E e \in Envs, n \in Names, b \in BizNames : BeginSubmit(s, e, n, b)
                            \/ Get(s) \/ Add(s) \/ InsertConflicts(s)
  BY DEF SubmitStep
<1>c. call[s] \in Calls
  BY DEF SubmitTypes
<1>1. ASSUME NEW e \in Envs, NEW n \in Names, NEW b \in BizNames, BeginSubmit(s, e, n, b)
      PROVE  SubmitTypes'
  <2> DEFINE name == to_store_name(e, n)
             c == [pc |-> IF b = NULL THEN "add" ELSE "get", env |-> e, name |-> name, biz |-> b,
                   known |-> IF b = NULL THEN {} ELSE Matching(name, b), result |-> NULL]
  <2>1. name \in StoreNames
    BY DEF StoreNames
  <2>2. Matching(name, b) \subseteq Ids
    BY DEF Matching, Pending
  <2>3. c \in Calls /\ c.pc \in {"add", "get"}
    BY <2>1, <2>2 DEF Calls
  <2>4. call' = [call EXCEPT ![s] = c] /\ UNCHANGED <<store, task>>
    BY <1>1 DEF BeginSubmit
  <2> HIDE DEF c
  <2> QED
    BY <2>3, <2>4 DEF SubmitTypes
<1>2. \A i \in Ids : Found(call[s], i) \in Calls /\ Found(call[s], i).pc = "returned"
  BY <1>c DEF Found, Calls
<1>3. CASE Get(s)
  <2>1. ASSUME NEW i \in Matching(call[s].name, call[s].biz),
               call' = [call EXCEPT ![s] = Found(call[s], i)]
        PROVE  SubmitTypes'
    <3>1. i \in Ids
      BY <2>1 DEF Matching, Pending
    <3> QED
      BY <1>2, <1>3, <2>1, <3>1 DEF Get, SubmitTypes
  <2>2. ASSUME call' = [call EXCEPT ![s] = AfterMiss(call[s])] PROVE SubmitTypes'
    <3>1. AfterMiss(call[s]) \in Calls /\ (AfterMiss(call[s]).pc = "raised" => store = "sql")
          /\ AfterMiss(call[s]).pc # "get_conflict"
      <4>1. CASE call[s].pc = "get"
        BY <1>c, <4>1 DEF AfterMiss, Calls
      <4>2. CASE call[s].pc = "get_again"
        BY <1>c, <4>2 DEF AfterMiss, Calls
      <4>3. CASE call[s].pc = "get_conflict"
        <5>1. AfterMiss(call[s]) = [call[s] EXCEPT !.pc = "raised"] /\ store = "sql"
          BY <4>3 DEF AfterMiss, SubmitTypes
        <5> QED
          BY <1>c, <5>1 DEF Calls
      <4> QED
        BY <1>3, <4>1, <4>2, <4>3 DEF Get
    <3> QED
      BY <1>3, <2>2, <3>1 DEF Get, SubmitTypes
  <2> QED
    BY <1>3, <2>1, <2>2 DEF Get
<1>4. CASE Add(s)
  <2>1. PICK i \in Ids :
          /\ task' = [task EXCEPT ![i] = [state |-> "in", name |-> call[s].name,
                                          biz |-> call[s].biz, env |-> call[s].env]]
          /\ call' = [call EXCEPT ![s] = Found(call[s], i)]
    BY <1>4 DEF Add
  <2>2. [state |-> "in", name |-> call[s].name, biz |-> call[s].biz, env |-> call[s].env] \in Tasks
    BY <1>c DEF Calls, Tasks, StoreNames
  <2> QED
    BY <1>2, <1>4, <2>1, <2>2 DEF Add, SubmitTypes
<1>5. CASE InsertConflicts(s)
  <2>1. [call[s] EXCEPT !.pc = "get_conflict"] \in Calls
    BY <1>c DEF Calls
  <2>2. call' = [call EXCEPT ![s] = [call[s] EXCEPT !.pc = "get_conflict"]] /\ store = "sql"
    BY <1>5 DEF InsertConflicts, Conflict
  <2> QED
    BY <1>5, <2>1, <2>2 DEF InsertConflicts, SubmitTypes
<1> QED
  BY <1>1, <1>3, <1>4, <1>5

\* What a job's store calls may leave of the locks and the tasks.
LEMMA StoredTypes ==
    ASSUME TypeInv, NEW p \in Pods
    PROVE  /\ \A i \in Ids : Freed(p, i) \in Pods \cup {NULL} /\ Removed(task[i]) \in Tasks
           /\ \A S : MaybeStored(p, S) =>
                 lock' \in [Ids -> Pods \cup {NULL}] /\ task' \in [Ids -> Tasks]
<1>1. \A i \in Ids : lock[i] \in Pods \cup {NULL} /\ task[i] \in Tasks
  BY DEF TypeInv, TypeOK, SubmitTypeOK
<1>2. \A i \in Ids : Freed(p, i) \in Pods \cup {NULL}
  BY <1>1 DEF Freed
<1>3. \A i \in Ids : Removed(task[i]) \in Tasks
  BY <1>1, RemovedTask
<1> QED
  BY <1>1, <1>2, <1>3 DEF MaybeStored

\* Every step keeps the types.
LEMMA TypeStep == TypeInv /\ [Next]_vars => TypeInv'
<1> SUFFICES ASSUME TypeInv, [Next]_vars PROVE TypeInv'
  OBVIOUS
<1> USE QueueAssumption
<1>p. /\ SubmitTypes
      /\ lock \in [Ids -> Pods \cup {NULL}]
      /\ pod \in [Pods -> {"up", "stopping", "cancelled", "crashed"}]
      /\ todo \in [Pods -> ((SUBSET Ids) \ {{}}) \cup {NULL}]
      /\ job \in [Pods -> [Ids -> Phases]]
      /\ mishaps \in 0..MaxMishaps
      /\ finished \subseteq Ids /\ dropped \subseteq Ids
      /\ cleaner \in [Ids -> Envs \cup {NULL}]
  BY TypeParts
\* The parts, primed, are enough.
<1>q. ASSUME SubmitTypes', lock' \in [Ids -> Pods \cup {NULL}],
             pod' \in [Pods -> {"up", "stopping", "cancelled", "crashed"}],
             todo' \in [Pods -> ((SUBSET Ids) \ {{}}) \cup {NULL}],
             job' \in [Pods -> [Ids -> Phases]], mishaps' \in 0..MaxMishaps,
             finished' \subseteq Ids, dropped' \subseteq Ids,
             cleaner' \in [Ids -> Envs \cup {NULL}]
      PROVE  TypeInv'
  BY <1>q DEF TypeInv, TypeOK, SubmitTypeOK, SubmitTypes, Calls
<1>s. UNCHANGED submission => SubmitTypes'
  BY <1>p DEF submission, SubmitTypes
<1>u. task' \in [Ids -> Tasks] /\ UNCHANGED <<store, call>> => SubmitTypes'
  BY <1>p DEF SubmitTypes
<1>m. Mishap => mishaps' \in 0..MaxMishaps
  BY <1>p DEF Mishap
<1>a. ASSUME NEW p \in Pods, AbandonTick(p)
      PROVE  lock' \in [Ids -> Pods \cup {NULL}]
             /\ todo' \in [Pods -> ((SUBSET Ids) \ {{}}) \cup {NULL}]
  BY <1>a, <1>p DEF AbandonTick
<1>r. \A S \in SUBSET Ids : Rest(S) \in ((SUBSET Ids) \ {{}}) \cup {NULL}
  BY DEF Rest
<1>1. CASE UNCHANGED vars
  BY <1>1, <1>p, <1>q, <1>s DEF vars
<1>2. CASE Submission
  BY <1>2, <1>p, <1>q, SubmitTypesStep DEF Submission
<1>3. ASSUME NEW p \in Pods, ListPending(p) PROVE TypeInv'
  <2>1. {i \in Pending : Handles(p, i)} \in SUBSET Ids
    BY DEF Pending
  <2>2. todo' \in [Pods -> ((SUBSET Ids) \ {{}}) \cup {NULL}]
    BY <1>3, <1>p, <1>r, <2>1 DEF ListPending
  <2> QED
    BY <1>3, <1>p, <1>q, <1>s, <2>2 DEF ListPending
<1>4. ASSUME NEW p \in Pods, NEW i \in Ids, PassOver(p, i) \/ Dispatch(p, i) PROVE TypeInv'
  <2>1. todo[p] \ {i} \in SUBSET Ids
    BY <1>4, <1>p DEF PassOver, Dispatch, AtTask
  <2>2. todo' \in [Pods -> ((SUBSET Ids) \ {{}}) \cup {NULL}]
    BY <1>4, <1>p, <1>r, <2>1 DEF PassOver, Dispatch
  <2>3. lock' \in [Ids -> Pods \cup {NULL}] /\ job' \in [Pods -> [Ids -> Phases]]
    <3>1. CASE PassOver(p, i)
      BY <1>p, <3>1 DEF PassOver
    <3>2. CASE Dispatch(p, i)
      <4>1. "execute" \in Phases
        BY DEF Phases
      <4> QED
        BY <1>p, <3>2, <4>1 DEF Dispatch
    <3> QED
      BY <1>4, <3>1, <3>2
  <2> QED
    BY <1>4, <1>p, <1>q, <1>s, <2>2, <2>3 DEF PassOver, Dispatch
<1>5. ASSUME NEW p \in Pods, NEW i \in Ids, ExecuteAndRecord(p, i) \/ Release(p, i)
      PROVE  TypeInv'
  <2>1. job' \in [Pods -> [Ids -> Phases]]
    BY <1>5, <1>p DEF ExecuteAndRecord, Release, Goto, Phases
  <2>2. lock' \in [Ids -> Pods \cup {NULL}]
    BY <1>5, <1>p, StoredTypes DEF ExecuteAndRecord, Release
  <2> QED
    BY <1>5, <1>p, <1>q, <1>s, <2>1, <2>2 DEF ExecuteAndRecord, Release
<1>6. ASSUME NEW p \in Pods, NEW i \in Ids, RemoveMember(p, i) PROVE TypeInv'
  <2>1. job' \in [Pods -> [Ids -> Phases]]
    BY <1>6, <1>p DEF RemoveMember, Goto, Phases
  <2>2. task' \in [Ids -> Tasks]
    BY <1>6, <1>p, StoredTypes DEF RemoveMember, SubmitTypes
  <2> QED
    BY <1>6, <1>p, <1>q, <1>u, <2>1, <2>2 DEF RemoveMember
<1>7. ASSUME NEW p \in Pods, TickFault(p) \/ Stop(p) PROVE TypeInv'
  <2>1. pod' \in [Pods -> {"up", "stopping", "cancelled", "crashed"}]
    BY <1>7, <1>p DEF TickFault, Stop
  <2> QED
    BY <1>7, <1>p, <1>q, <1>s, <1>m, <1>a, <2>1 DEF TickFault, Stop
<1>8. ASSUME NEW p \in Pods, NEW i \in Ids, JobFault(p, i) PROVE TypeInv'
  <2>1. job' \in [Pods -> [Ids -> Phases]]
    BY <1>8, <1>p DEF JobFault, Goto, AfterFault, Phases
  <2>2. lock' \in [Ids -> Pods \cup {NULL}] /\ task' \in [Ids -> Tasks]
    BY <1>8, StoredTypes DEF JobFault
  <2> QED
    BY <1>8, <1>p, <1>q, <1>u, <1>m, <2>1, <2>2 DEF JobFault
<1>9. ASSUME NEW p \in Pods, GraceExpires(p) PROVE TypeInv'
  <2>1. job' \in [Pods -> [Ids -> Phases]]
    BY <1>9, <1>p DEF GraceExpires, AfterCancel, Phases
  <2>2. lock' \in [Ids -> Pods \cup {NULL}] /\ task' \in [Ids -> Tasks]
    BY <1>9, StoredTypes DEF GraceExpires
  <2>3. dropped' \subseteq Ids /\ pod' \in [Pods -> {"up", "stopping", "cancelled", "crashed"}]
    BY <1>9, <1>p DEF GraceExpires
  <2> QED
    BY <1>9, <1>p, <1>q, <1>u, <2>1, <2>2, <2>3 DEF GraceExpires
<1>10. ASSUME NEW p \in Pods, Crash(p) \/ Restart(p) PROVE TypeInv'
  <2>1. job' \in [Pods -> [Ids -> Phases]]
    <3>1. [i \in Ids |-> "none"] \in [Ids -> Phases]
      BY DEF Phases
    <3> QED
      BY <1>10, <1>p, <3>1 DEF Crash, Restart
  <2>2. /\ pod' \in [Pods -> {"up", "stopping", "cancelled", "crashed"}]
        /\ todo' \in [Pods -> ((SUBSET Ids) \ {{}}) \cup {NULL}]
    BY <1>10, <1>p DEF Crash, Restart
  <2> QED
    BY <1>10, <1>p, <1>q, <1>s, <1>m, <2>1, <2>2 DEF Crash, Restart
<1>11. ASSUME NEW i \in Ids, Expire(i) PROVE TypeInv'
  <2>1. lock' \in [Ids -> Pods \cup {NULL}]
    BY <1>11, <1>p DEF Expire
  <2> QED
    BY <1>11, <1>p, <1>q, <1>s, <2>1 DEF Expire
<1>12. ASSUME NEW e \in Envs, NEW i \in Ids, RemoveRow(e, i) PROVE TypeInv'
  <2>0. \A t \in Tasks : Removed(t) \in Tasks
    BY RemovedTask
  <2>1. Removed(task[i]) \in Tasks
    BY <1>p, <2>0 DEF SubmitTypes
  <2>2. task' \in [Ids -> Tasks] /\ cleaner' \in [Ids -> Envs \cup {NULL}]
    BY <1>12, <1>p, <2>1 DEF RemoveRow, SubmitTypes
  <2> QED
    BY <1>12, <1>p, <1>q, <1>u, <2>2 DEF RemoveRow
<1> QED
  BY <1>1, <1>2, <1>3, <1>4, <1>5, <1>6, <1>7, <1>8, <1>9, <1>10, <1>11, <1>12
     DEF Next, LoopStep, JobStep, MishapStep, PodStep

LEMMA TypeInit == Init => TypeInv
BY QueueAssumption
   DEF Init, SubmitInit, TypeInv, TypeOK, SubmitTypeOK, NoTask, NoCall, Tasks, Calls, Phases

\* Types hold in every reachable state: submissions, ticks, jobs, faults and
\* cleanups leave records of the shapes the stores have, and only the SQL
\* store makes a submission conflict or raise.
THEOREM TypeCorrect == Spec => []TypeOK
<1>1. TypeInv => TypeOK
  BY DEF TypeInv
<1> QED
  BY <1>1, TypeInit, TypeStep, PTL DEF Spec

---------------------------------------------------------------------------
(* Mutual exclusion and at-least-once execution. *)

\* What makes MutualExclusion inductive: the lock key of a task that a pod
\* executes holds the pod's id.
LockHeld == \A p \in Pods, i \in Ids : job[p][i] = "execute" => lock[i] = p

\* What makes NotLost inductive: a job past execute(), which is about to remove
\* its member, is of a task that finished or was cut off.
RunBeforeRemoval ==
    \A p \in Pods, i \in Ids :
        job[p][i] \in {"release", "remove"} => i \in finished \cup dropped

WorkInv == TypeInv /\ LockHeld /\ RunBeforeRemoval /\ NotLost

\* Every step keeps locks to who executes, and removals to what has run.
LEMMA WorkStep == WorkInv /\ [Next]_vars => WorkInv'
<1> SUFFICES ASSUME WorkInv, [Next]_vars PROVE LockHeld' /\ RunBeforeRemoval' /\ NotLost'
  BY TypeStep DEF WorkInv
<1> USE QueueAssumption
<1>t. /\ lock \in [Ids -> Pods \cup {NULL}] /\ todo \in [Pods -> ((SUBSET Ids) \ {{}}) \cup {NULL}]
      /\ job \in [Pods -> [Ids -> Phases]] /\ task \in [Ids -> Tasks]
  BY DEF WorkInv, TypeInv, TypeOK, SubmitTypeOK
\* A step in which nobody begins to execute, and that leaves the locks of
\* those who do.
<1>h. ASSUME \A p \in Pods, i \in Ids :
                job'[p][i] = "execute" => job[p][i] = "execute" /\ lock'[i] = lock[i]
      PROVE  LockHeld'
  BY <1>h DEF LockHeld, WorkInv
\* A step in which no job leaves execute(), or marks the task that it leaves.
<1>r. ASSUME finished \cup dropped \subseteq finished' \cup dropped',
             \A p \in Pods, i \in Ids : job'[p][i] \in {"release", "remove"} =>
                job[p][i] \in {"release", "remove"} \/ i \in finished' \cup dropped'
      PROVE  RunBeforeRemoval'
  BY <1>r DEF RunBeforeRemoval, WorkInv
\* A step that takes out no task but those of jobs about to remove them.
<1>n. ASSUME finished \cup dropped \subseteq finished' \cup dropped', store' = store,
             store = "redis" =>
               \A i \in Ids : task'[i].state = "out" =>
                   task[i].state = "out" \/ \E p \in Pods : job[p][i] = "remove"
      PROVE  NotLost'
  BY <1>n DEF NotLost, RunBeforeRemoval, WorkInv
<1>f. \A p \in Pods, i \in Ids : job[p][i] = "execute" =>
          /\ lock[i] = p /\ lock[i] # NULL
          /\ \A q \in Pods : job[q][i] # "execute" => Freed(q, i) = lock[i]
  BY DEF LockHeld, WorkInv, Freed
<1>1. CASE UNCHANGED vars
  BY <1>1, <1>h, <1>r, <1>n DEF vars, submission
<1>2. CASE Submission
  <2>1. store' = store /\ UNCHANGED <<lock, job, finished, dropped>>
    BY <1>2 DEF Submission, SubmitStep, BeginSubmit, Get, Add, InsertConflicts
  <2>2. \A i \in Ids : task'[i] = task[i] \/ task'[i].state = "in"
    BY <1>2, <1>t DEF Submission, SubmitStep, BeginSubmit, Get, Add, InsertConflicts
  <2> QED
    BY <1>h, <1>r, <1>n, <2>1, <2>2
<1>3. ASSUME NEW p \in Pods, ListPending(p) \/ \E i \in Ids : PassOver(p, i)
      PROVE  LockHeld' /\ RunBeforeRemoval' /\ NotLost'
  BY <1>3, <1>h, <1>r, <1>n DEF ListPending, PassOver, submission
<1>4. ASSUME NEW p \in Pods, NEW i \in Ids, LockFree(i), lock' = [lock EXCEPT ![i] = p],
             job' = job \/ job' = [job EXCEPT ![p][i] = "execute"],
             UNCHANGED <<submission, finished, dropped>>
      PROVE  LockHeld' /\ RunBeforeRemoval' /\ NotLost'
  <2>1. \A q \in Pods : job[q][i] # "execute"
    BY <1>4, <1>f DEF LockFree
  <2>2. LockHeld'
    BY <1>4, <1>t, <2>1 DEF LockHeld, WorkInv
  <2>3. \A q \in Pods, u \in Ids : job'[q][u] = job[q][u] \/ job'[q][u] = "execute"
    BY <1>4, <1>t
  <2> QED
    BY <1>4, <1>r, <1>n, <2>2, <2>3 DEF submission
<1>5. ASSUME NEW p \in Pods, AbandonTick(p), UNCHANGED <<submission, job, finished, dropped>>
      PROVE  LockHeld' /\ RunBeforeRemoval' /\ NotLost'
  <2>1. CASE UNCHANGED lock
    BY <1>5, <1>h, <1>r, <1>n, <2>1 DEF submission
  <2> QED
    BY <1>4, <1>5, <2>1 DEF AbandonTick
<1>6. ASSUME NEW p \in Pods, NEW i \in Ids, ExecuteAndRecord(p, i)
      PROVE  LockHeld' /\ RunBeforeRemoval' /\ NotLost'
  <2>1. \A q \in Pods, u \in Ids : job'[q][u] = job[q][u] \/ (u = i /\ job'[q][u] = "release")
    BY <1>6, <1>t DEF ExecuteAndRecord, Goto
  <2>2. lock' = lock /\ finished' = finished \cup {i} /\ UNCHANGED <<dropped, store, task>>
    BY <1>6 DEF ExecuteAndRecord, submission
  <2> QED
    BY <1>h, <1>r, <1>n, <2>1, <2>2
<1>7. ASSUME NEW p \in Pods, NEW i \in Ids, Release(p, i) \/ RemoveMember(p, i)
      PROVE  LockHeld' /\ RunBeforeRemoval' /\ NotLost'
  <2>1. job[p][i] \in {"release", "remove"} /\ UNCHANGED <<finished, dropped, store>>
    BY <1>7 DEF Release, RemoveMember, submission
  <2>2. \A q \in Pods, u \in Ids :
           job'[q][u] = job[q][u] \/ (q = p /\ u = i /\ job'[q][u] \in {"remove", "none"})
    BY <1>7, <1>t DEF Release, RemoveMember, Goto
  <2>3. \A u \in Ids : lock'[u] = lock[u] \/ (u = i /\ lock'[u] = Freed(p, i))
    BY <1>7, <1>t DEF Release, RemoveMember
  <2>4. \A u \in Ids : task'[u] = task[u] \/ (u = i /\ job[p][i] = "remove")
    BY <1>7, <1>t DEF Release, RemoveMember, submission
  <2>5. LockHeld'
    BY <1>f, <1>h, <2>1, <2>2, <2>3
  <2> QED
    BY <1>r, <1>n, <2>1, <2>2, <2>4, <2>5
\* Store calls that failed or were cut short.
<1>8. ASSUME NEW p \in Pods, NEW S, MaybeStored(p, S),
             store' = store, finished \cup dropped \subseteq finished' \cup dropped'
      PROVE  /\ NotLost'
             /\ \A q \in Pods, u \in Ids : job[q][u] = "execute" => lock'[u] = lock[u]
  <2>1. \A u \in Ids :
          /\ lock'[u] = lock[u] \/ (job[p][u] = "release" /\ lock'[u] = Freed(p, u))
          /\ task'[u] = task[u] \/ job[p][u] = "remove"
    BY <1>8 DEF MaybeStored
  <2> QED
    BY <1>8, <1>f, <1>n, <2>1
<1>9. ASSUME NEW p \in Pods, NEW i \in Ids, JobFault(p, i)
      PROVE  LockHeld' /\ RunBeforeRemoval' /\ NotLost'
  <2>1. /\ \A q \in Pods, u \in Ids :
              job'[q][u] = job[q][u] \/ (q = p /\ u = i /\ job'[q][u] \in {"remove", "none"})
        /\ job[p][i] \in {"release", "remove"}
        /\ UNCHANGED <<store, finished, dropped>>
        /\ MaybeStored(p, {i})
    BY <1>9, <1>t DEF JobFault, Goto, AfterFault
  <2> QED
    BY <1>h, <1>r, <1>8, <2>1
<1>10. ASSUME NEW p \in Pods, GraceExpires(p)
       PROVE  LockHeld' /\ RunBeforeRemoval' /\ NotLost'
  <2>1. /\ \A q \in Pods : q # p => job'[q] = job[q]
        /\ \A u \in Ids : job'[p][u] = AfterCancel(job[p][u])
        /\ dropped' = dropped \cup {i \in Ids : job[p][i] = "execute"}
        /\ UNCHANGED <<store, finished>>
        /\ MaybeStored(p, Ids)
    BY <1>10, <1>t DEF GraceExpires
  <2>2. \A q \in Pods, u \in Ids :
           /\ job'[q][u] = "execute" => job[q][u] = "execute"
           /\ job'[q][u] \in {"release", "remove"} =>
                 job[q][u] \in {"release", "remove"} \/ u \in dropped'
    BY <2>1 DEF AfterCancel
  <2>3. LockHeld' /\ NotLost'
    BY <1>h, <1>8, <2>1, <2>2
  <2> QED
    BY <1>r, <2>1, <2>2, <2>3
<1>11. ASSUME NEW p \in Pods, Crash(p) \/ Restart(p)
       PROVE  LockHeld' /\ RunBeforeRemoval' /\ NotLost'
  <2>1. \A q \in Pods, u \in Ids : job'[q][u] \in {job[q][u], "none"}
    BY <1>11, <1>t DEF Crash, Restart
  <2>2. UNCHANGED <<lock, store, task, finished, dropped>>
    BY <1>11 DEF Crash, Restart, submission
  <2> QED
    BY <1>h, <1>r, <1>n, <2>1, <2>2
<1>12. ASSUME NEW i \in Ids, Expire(i) PROVE LockHeld' /\ RunBeforeRemoval' /\ NotLost'
  <2>1. /\ UNCHANGED <<store, task, job, finished, dropped>>
        /\ \A u \in Ids : lock'[u] = lock[u] \/ u = i
        /\ job[lock[i]][i] # "execute"
    BY <1>12, <1>t DEF Expire, submission
  <2>2. LockHeld'
    BY <1>f, <1>h, <2>1
  <2> QED
    BY <1>r, <1>n, <2>1, <2>2
<1>13. ASSUME NEW e \in Envs, NEW i \in Ids, RemoveRow(e, i)
       PROVE  LockHeld' /\ RunBeforeRemoval' /\ NotLost'
  <2>1. store # "redis" /\ UNCHANGED <<store, lock, job, finished, dropped>>
    BY <1>13 DEF RemoveRow
  <2> QED
    BY <1>h, <1>r, <1>n, <2>1
<1> QED
  BY <1>1, <1>2, <1>3, <1>4, <1>5, <1>6, <1>7, <1>9, <1>10, <1>11, <1>12, <1>13
     DEF Next, LoopStep, JobStep, MishapStep, PodStep, Dispatch, TickFault, Stop, submission

LEMMA WorkInit == Init => WorkInv
<1>1. Init => LockHeld /\ RunBeforeRemoval /\ NotLost
  BY DEF Init, SubmitInit, NoTask, LockHeld, RunBeforeRemoval, NotLost
<1> QED
  BY <1>1, TypeInit DEF WorkInv

\* The lock key excludes: for any number of pods no two of them execute one
\* task, although a pod may lock a task that another has run and removed, and
\* the script of release_lock may come when the lock has passed on.
THEOREM OnePodExecutes == Spec => []MutualExclusion
<1>1. WorkInv => MutualExclusion
  BY DEF WorkInv, LockHeld, MutualExclusion
<1> QED
  BY <1>1, WorkInit, WorkStep, PTL DEF Spec

\* At-least-once for any number of pods and tasks: a member leaves the set
\* only when its handler has returned or its pod's shutdown cut it off.
THEOREM RemovedAfterRunning == Spec => []NotLost
<1>1. WorkInv => NotLost
  BY DEF WorkInv
<1> QED
  BY <1>1, WorkInit, WorkStep, PTL DEF Spec

---------------------------------------------------------------------------
(* The contract of TaskQueue. *)

\* Every step of the pods, the submitters and the locks is one of the
\* contract, or none that it sees.
LEMMA ContractStep ==
    ASSUME WorkInv, [Next]_vars
    PROVE  [Contract!QueueNext]_(Contract!queue)
<1> USE DEF Contract!queue, Contract!QueueNext
<1>t. /\ job \in [Pods -> [Ids -> Phases]] /\ task \in [Ids -> Tasks]
      /\ LockHeld /\ RunBeforeRemoval
  BY DEF WorkInv, TypeInv, TypeOK, SubmitTypeOK
<1>1. CASE UNCHANGED <<store, task, job, finished, dropped>>
  BY <1>1 DEF Queued, Pending, Working
<1>2. CASE Submission
  <2>1. UNCHANGED <<store, job, finished, dropped>>
    BY <1>2 DEF Submission, SubmitStep, BeginSubmit, Get, Add, InsertConflicts
  <2>2. Working' = Working /\ (finished \cup dropped)' = finished \cup dropped
    BY <2>1 DEF Working
  <2>3. CASE task' = task
    BY <1>1, <2>1, <2>3
  <2>4. ASSUME NEW i \in Ids, NEW x, task' = [task EXCEPT ![i] = x], x.state = "in"
        PROVE  [Contract!QueueNext]_(Contract!queue)
    <3>1. Pending' = Pending \cup {i}
      BY <1>t, <2>4 DEF Pending
    <3>2. CASE store = "redis"
      <4>1. Contract!Enqueue(i)
        BY <2>1, <2>2, <3>1, <3>2 DEF Contract!Enqueue, Queued
      <4> QED
        BY <4>1
    <3>3. CASE store # "redis"
      BY <2>1, <2>2, <3>3 DEF Queued
    <3> QED
      BY <3>2, <3>3
  <2>5. \/ task' = task
        \/ \E i \in Ids : \E x : task' = [task EXCEPT ![i] = x] /\ x.state = "in"
    <3>1. ASSUME NEW s \in Submitters, Add(s)
          PROVE  \E i \in Ids : \E x : task' = [task EXCEPT ![i] = x] /\ x.state = "in"
      <4>1. PICK i \in Ids :
              task' = [task EXCEPT ![i] = [state |-> "in", name |-> call[s].name,
                                           biz |-> call[s].biz, env |-> call[s].env]]
        BY <3>1 DEF Add
      <4> DEFINE x == [state |-> "in", name |-> call[s].name,
                       biz |-> call[s].biz, env |-> call[s].env]
      <4>2. task' = [task EXCEPT ![i] = x] /\ x.state = "in"
        BY <4>1
      <4> HIDE DEF x
      <4> QED
        BY <4>2
    <3> QED
      BY <1>2, <3>1 DEF Submission, SubmitStep, BeginSubmit, Get, InsertConflicts
  <2> QED
    BY <2>3, <2>4, <2>5
\* A step that only takes out tasks of jobs about to remove them.
<1>q. ASSUME NEW p \in Pods, store' = store, task' \in [Ids -> Tasks],
             \A i \in Ids : task'[i] = task[i] \/ (task'[i].state = "out" /\ job[p][i] = "remove")
      PROVE  \E S \in SUBSET Ids : S \subseteq finished \cup dropped /\ Queued' = Queued \ S
  <2> DEFINE S == {i \in Ids : job[p][i] = "remove" /\ task'[i] # task[i]}
  <2>1. Queued' = Queued \ S
    BY <1>q DEF Queued, Pending
  <2>2. S \subseteq finished \cup dropped
    BY <1>t DEF RunBeforeRemoval
  <2> QED
    BY <2>1, <2>2
<1>3. ASSUME NEW p \in Pods, NEW i \in Ids, Dispatch(p, i) PROVE Contract!Start(p, i)
  <2>1. \A q \in Pods : <<q, i>> \notin Working
    BY <1>3, <1>t, QueueAssumption DEF Dispatch, LockFree, LockHeld, Working
  <2>2. Working' = Working \cup {<<p, i>>}
    BY <1>3, <1>t DEF Dispatch, Working
  <2>3. Queued' = Queued /\ (finished \cup dropped)' = finished \cup dropped
    BY <1>3 DEF Dispatch, submission, Queued, Pending
  <2> QED
    BY <2>1, <2>2, <2>3 DEF Contract!Start
<1>4. ASSUME NEW p \in Pods, NEW i \in Ids, ExecuteAndRecord(p, i) PROVE Contract!Return(p, i)
  <2>1. <<p, i>> \in Working /\ Working' = Working \ {<<p, i>>}
    BY <1>4, <1>t DEF ExecuteAndRecord, Goto, Working
  <2>2. Queued' = Queued /\ (finished \cup dropped)' = (finished \cup dropped) \cup {i}
    BY <1>4 DEF ExecuteAndRecord, submission, Queued, Pending
  <2> QED
    BY <2>1, <2>2 DEF Contract!Return
\* The other steps of a job: it is past execute() before and after.
<1>5. ASSUME NEW p \in Pods, NEW i \in Ids, Release(p, i) \/ RemoveMember(p, i) \/ JobFault(p, i)
      PROVE  \E S \in SUBSET Ids : Contract!Leave(S)
  <2>1. /\ job[p][i] # "execute" /\ UNCHANGED <<store, finished, dropped>>
        /\ \E ph \in {"remove", "none"} : job' = [job EXCEPT ![p][i] = ph]
    BY <1>5 DEF Release, RemoveMember, JobFault, Goto, AfterFault, submission
  <2>2. Working' = Working
    BY <1>t, <2>1 DEF Working
  <2>3. \A u \in Ids : task[u] \in Tasks /\ Removed(task[u]).state = "out"
                       /\ Removed(task[u]) \in Tasks
    BY <1>t, RemovedTask
  <2>4. /\ task' \in [Ids -> Tasks]
        /\ \A u \in Ids : task'[u] = task[u] \/ (task'[u].state = "out" /\ job[p][u] = "remove")
    <3>1. CASE Release(p, i)
      BY <1>t, <3>1 DEF Release, submission
    <3>2. CASE RemoveMember(p, i)
      BY <1>t, <2>3, <3>2 DEF RemoveMember
    <3>3. CASE JobFault(p, i)
      BY <1>t, <2>3, <3>3 DEF JobFault, MaybeStored
    <3> QED
      BY <1>5, <3>1, <3>2, <3>3
  <2>5. PICK S \in SUBSET Ids : S \subseteq finished \cup dropped /\ Queued' = Queued \ S
    BY <1>q, <2>1, <2>4
  <2>6. Contract!Leave(S)
    BY <2>1, <2>2, <2>5 DEF Contract!Leave
  <2> QED
    BY <2>6
<1>6. ASSUME NEW p \in Pods, GraceExpires(p) PROVE Contract!PodEnds(p)
  <2>1. /\ \A q \in Pods : q # p => job'[q] = job[q]
        /\ \A u \in Ids : job'[p][u] # "execute"
    BY <1>6, <1>t DEF GraceExpires, AfterCancel
  <2>2. Working' = {w \in Working : w[1] # p}
    BY <2>1 DEF Working
  <2>3. \A u \in Ids : task[u] \in Tasks /\ Removed(task[u]).state = "out"
                       /\ Removed(task[u]) \in Tasks
    BY <1>t, RemovedTask
  <2>4. /\ task' \in [Ids -> Tasks]
        /\ \A u \in Ids : task'[u] = task[u] \/ (task'[u].state = "out" /\ job[p][u] = "remove")
    BY <1>6, <1>t, <2>3 DEF GraceExpires, MaybeStored
  <2>5. PICK S \in SUBSET Ids : S \subseteq finished \cup dropped /\ Queued' = Queued \ S
    BY <1>6, <1>q, <2>4 DEF GraceExpires
  <2> DEFINE cut == {u \in Ids : job[p][u] = "execute"}
  <2>6. (finished \cup dropped)' = (finished \cup dropped) \cup cut
    BY <1>6 DEF GraceExpires
  <2>7. cut \in SUBSET {u \in Ids : <<p, u>> \in Working}
    BY DEF Working
  <2> HIDE DEF cut
  <2>8. S \in SUBSET (finished \cup dropped)
    BY <2>5
  <2> QED
    BY <2>2, <2>5, <2>6, <2>7, <2>8 DEF Contract!PodEnds
<1>7. ASSUME NEW p \in Pods, Crash(p) PROVE Contract!PodEnds(p)
  <2>1. /\ \A q \in Pods : q # p => job'[q] = job[q]
        /\ \A u \in Ids : job'[p][u] # "execute"
    BY <1>7, <1>t DEF Crash
  <2>2. Working' = {w \in Working : w[1] # p}
    BY <2>1 DEF Working
  <2>3. Queued' = Queued \ {} /\ (finished \cup dropped)' = (finished \cup dropped) \cup {}
    BY <1>7 DEF Crash, submission, Queued, Pending
  <2>4. \A T : {} \in SUBSET T
    OBVIOUS
  <2> QED
    BY <2>2, <2>3, <2>4 DEF Contract!PodEnds
<1>8. ASSUME NEW e \in Envs, NEW i \in Ids, RemoveRow(e, i) PROVE UNCHANGED Contract!queue
  BY <1>8 DEF RemoveRow, Queued, Working
<1> QED
  BY <1>1, <1>2, <1>3, <1>4, <1>5, <1>6, <1>7, <1>8
     DEF Next, LoopStep, JobStep, MishapStep, PodStep, vars, submission, ListPending, PassOver,
         TickFault, Stop, Restart, Expire

\* The pods over the Redis store implement the promise of TaskQueue, for any
\* number of pods, tasks, submitters and environments: one pod at a time
\* executes a task, and a task leaves the set only after an execution of it
\* that returned or that a shutdown cut off.
THEOREM RedisKeepsContract == Spec => KeepsContract
<1>1. Init => Contract!QueueInit
  BY DEF Init, SubmitInit, NoTask, Contract!QueueInit, Queued, Pending, Working
<1>2. WorkInv /\ [Next]_vars => [Contract!QueueNext]_(Contract!queue)
  BY ContractStep
<1> QED
  BY <1>1, <1>2, WorkInit, WorkStep, PTL DEF Spec, KeepsContract, Contract!QueueSpec

---------------------------------------------------------------------------
(* Names of the environments. *)

\* A stored name that an environment turns into a handler's name is the name
\* the environment stores that handler under.
LEMMA StoreNameInverse ==
    ASSUME NEW e \in Envs, NEW s \in Seq(STRING), from_store_name(e, s) \in Names
    PROVE  s = to_store_name(e, from_store_name(e, s))
<1> USE SubmitAssumption
<1>1. StartsWith(s, Prefix[e])
  BY DEF from_store_name
<1>2. Prefix[e] \in Seq(STRING) /\ Len(Prefix[e]) \in Nat /\ Len(s) \in Nat
  OBVIOUS
<1>3. /\ 1 \in 1..Len(s) + 1 /\ Len(s) \in Len(Prefix[e])..Len(s)
      /\ Len(Prefix[e]) \in 1 - 1..Len(s)
  BY <1>1, <1>2 DEF StartsWith
<1>4. SubSeq(s, 1, Len(Prefix[e])) \o SubSeq(s, Len(Prefix[e]) + 1, Len(s))
        = SubSeq(s, 1, Len(s))
  BY <1>3, ConcatAdjacentSubSeq
<1>5. SubSeq(s, 1, Len(s)) = s
  BY SubSeqFull
<1> QED
  BY <1>1, <1>4, <1>5 DEF StartsWith, from_store_name, to_store_name

\* Names are of one environment: no other turns one into a handler's name.
LEMMA NameOwner ==
    ASSUME NEW e \in Envs, NEW f \in Envs, NEW n \in Names,
           from_store_name(e, to_store_name(f, n)) \in Names
    PROVE  e = f
<1>1. to_store_name(f, n) \in Seq(STRING)
  BY SubmitAssumption DEF to_store_name
<1> QED
  BY <1>1, StoreNameInverse, NamespacesAssumption

\* A task or a submission bears a name of its own environment.
OwnName(x) == x.env \in Envs /\ \E n \in Names : x.name = to_store_name(x.env, n)

\* Two that bear the same name are of one environment.
LEMMA SameNameSameEnv ==
    ASSUME NEW x, NEW y, OwnName(x), OwnName(y), x.name = y.name
    PROVE  x.env = y.env
BY NamespacesAssumption DEF OwnName

---------------------------------------------------------------------------
(* Submissions: whose task they return, and when they add one. *)

Exists(i) == task[i].state # "new"

\* The tasks that a submission found in the store when it began have its key
\* while it is at its first look-up, and are gone when it has missed one:
\* a task that was removed never comes back.
KnownGone ==
    \A s \in Submitters : \A i \in call[s].known :
        /\ Exists(i)
        /\ call[s].pc = "get" => task[i].name = call[s].name /\ task[i].biz = call[s].biz
        /\ call[s].pc \in {"get_again", "add"} => i \notin Pending

\* What makes ResultsOwn and Deduplicated inductive.
SubmitInv ==
    /\ SubmitTypes
    /\ \A i \in Ids : Exists(i) => OwnName(task[i])
    /\ \A s \in Submitters : call[s].pc # "idle" => OwnName(call[s])
    /\ \A s \in Submitters : call[s].result \in Ids => Exists(call[s].result)
    /\ ResultsOwn
    /\ KnownGone

\* A task of its own that a submission found or added is a proper result.
LEMMA FoundOwn ==
    ASSUME SubmitInv, NEW s \in Submitters, call[s].pc # "idle", NEW i \in Ids,
           NEW t, t.name = call[s].name, t.biz = call[s].biz, t.env = call[s].env
    PROVE  LET c == Found(call[s], i)
           IN  /\ c.pc = "returned" /\ c.known = {} /\ c.result = i
               /\ OwnName(c) /\ t.env = c.env /\ t.name = c.name /\ t.biz = c.biz
<1>1. call[s] \in Calls /\ OwnName(call[s])
  BY DEF SubmitInv, SubmitTypes
<1> QED
  BY <1>1 DEF Found, Calls, OwnName

\* Steps of a submission keep it, and add at most a task that is new.
LEMMA SubmitInvStep ==
    ASSUME SubmitInv, SubmitStep
    PROVE  /\ SubmitInv' /\ store' = store
           /\ \A i \in Ids : task'[i] = task[i] \/ ~Exists(i)
<1>T. SubmitTypes /\ SubmitTypes'
  BY SubmitTypesStep DEF SubmitInv
<1> PICK s \in Submitters : \/ \E e \in Envs, n \in Names, b \in BizNames : BeginSubmit(s, e, n, b)
                            \/ Get(s) \/ Add(s) \/ InsertConflicts(s)
  BY DEF SubmitStep
<1>c. call[s] \in Calls /\ NULL \notin Ids
  BY SubmitAssumption DEF SubmitInv, SubmitTypes
\* A step of the submission s that leaves the tasks alone.
<1>k. ASSUME NEW c \in Calls, call' = [call EXCEPT ![s] = c], UNCHANGED <<store, task>>,
             OwnName(c),
             c.result \in Ids =>
                /\ Exists(c.result)
                /\ LET t == task[c.result] IN t.env = c.env /\ t.name = c.name /\ t.biz = c.biz,
             \A i \in c.known :
                /\ Exists(i)
                /\ c.pc = "get" => task[i].name = c.name /\ task[i].biz = c.biz
                /\ c.pc \in {"get_again", "add"} => i \notin Pending
      PROVE  SubmitInv'
  <2>1. call'[s] = c /\ \A r \in Submitters : r # s => call'[r] = call[r]
    BY <1>k, <1>T DEF SubmitTypes
  <2>2. \A r \in Submitters :
          /\ call'[r].pc # "idle" => OwnName(call'[r])
          /\ call'[r].result \in Ids => Exists(call'[r].result)
    BY <1>k, <2>1 DEF SubmitInv
  <2>3. ResultsOwn'
    BY <1>k, <2>1 DEF SubmitInv, ResultsOwn
  <2>4. KnownGone'
    BY <1>k, <2>1 DEF SubmitInv, KnownGone, Exists, Pending
  <2>5. \A i \in Ids : Exists(i)' => OwnName(task'[i])
    BY <1>k DEF SubmitInv, Exists
  <2>6. \A r \in Submitters :
          /\ call'[r].pc # "idle" => OwnName(call'[r])
          /\ (call[r].result \in Ids => Exists(call[r].result))'
    BY <1>k, <2>2 DEF Exists
  <2> QED
    BY <1>T, <2>3, <2>4, <2>5, <2>6 DEF SubmitInv, OwnName
<1>1. ASSUME NEW e \in Envs, NEW n \in Names, NEW b \in BizNames, BeginSubmit(s, e, n, b)
      PROVE  SubmitInv' /\ UNCHANGED <<store, task>>
  <2> DEFINE name == to_store_name(e, n)
             c == [pc |-> IF b = NULL THEN "add" ELSE "get", env |-> e, name |-> name, biz |-> b,
                   known |-> IF b = NULL THEN {} ELSE Matching(name, b), result |-> NULL]
  <2>1. call' = [call EXCEPT ![s] = c] /\ UNCHANGED <<store, task>>
    BY <1>1 DEF BeginSubmit
  <2>2. Matching(name, b) \subseteq Ids /\ name \in StoreNames
    BY DEF Matching, Pending, StoreNames
  <2>3. c \in Calls
    BY <2>2 DEF Calls
  <2>4. OwnName(c) /\ c.result \notin Ids
    BY <1>c DEF OwnName
  <2>5. \A i \in c.known :
          /\ Exists(i)
          /\ c.pc = "get" => task[i].name = c.name /\ task[i].biz = c.biz
          /\ c.pc \in {"get_again", "add"} => i \notin Pending
    BY DEF Matching, Pending, Exists
  <2> HIDE DEF c
  <2> QED
    BY <1>k, <2>1, <2>3, <2>4, <2>5
<1>2. CASE Get(s)
  <2> DEFINE found == Matching(call[s].name, call[s].biz)
  <2>0. call[s].pc # "idle" /\ OwnName(call[s]) /\ UNCHANGED <<store, task>>
    BY <1>2 DEF Get, SubmitInv
  <2>1. ASSUME NEW i \in found, call' = [call EXCEPT ![s] = Found(call[s], i)]
        PROVE  SubmitInv'
    <3>1. i \in Ids /\ Exists(i) /\ task[i].name = call[s].name /\ task[i].biz = call[s].biz
      BY <2>1 DEF Matching, Pending, Exists
    <3>2. task[i].env = call[s].env
      BY <2>0, <3>1, SameNameSameEnv DEF SubmitInv
    <3>3. LET c == Found(call[s], i)
          IN  /\ c.pc = "returned" /\ c.known = {} /\ c.result = i /\ OwnName(c)
              /\ task[i].env = c.env /\ task[i].name = c.name /\ task[i].biz = c.biz
      BY <2>0, <3>1, <3>2, FoundOwn
    <3>4. Found(call[s], i) \in Calls
      BY <1>c, <3>1 DEF Found, Calls
    <3> QED
      BY <1>k, <2>0, <2>1, <3>1, <3>3, <3>4
  <2>2. ASSUME found = {}, call' = [call EXCEPT ![s] = AfterMiss(call[s])] PROVE SubmitInv'
    <3> DEFINE c == AfterMiss(call[s])
    <3>1. /\ c \in Calls /\ c.env = call[s].env /\ c.name = call[s].name /\ c.biz = call[s].biz
          /\ c.known = call[s].known /\ c.result = call[s].result
          /\ c.pc = IF call[s].pc = "get" THEN "get_again"
                    ELSE IF call[s].pc = "get_again" THEN "add" ELSE "raised"
      <4>1. CASE call[s].pc = "get"
        BY <1>c, <4>1 DEF AfterMiss, Calls
      <4>2. CASE call[s].pc = "get_again"
        BY <1>c, <4>2 DEF AfterMiss, Calls
      <4>3. CASE call[s].pc = "get_conflict"
        <5>1. c = [call[s] EXCEPT !.pc = "raised"]
          BY <4>3 DEF AfterMiss
        <5> QED
          BY <1>c, <4>3, <5>1 DEF Calls
      <4> QED
        BY <1>2, <4>1, <4>2, <4>3 DEF Get
    <3> HIDE DEF c
    <3>2. OwnName(c)
      BY <2>0, <3>1 DEF OwnName
    <3>3. c.result \in Ids =>
            /\ Exists(c.result)
            /\ LET t == task[c.result] IN t.env = c.env /\ t.name = c.name /\ t.biz = c.biz
      BY <3>1 DEF SubmitInv, ResultsOwn
    <3>4. \A i \in c.known :
            /\ Exists(i)
            /\ c.pc = "get" => task[i].name = c.name /\ task[i].biz = c.biz
            /\ c.pc \in {"get_again", "add"} => i \notin Pending
      BY <1>c, <2>2, <3>1 DEF SubmitInv, KnownGone, Matching
    <3>5. call' = [call EXCEPT ![s] = c]
      BY <2>2 DEF c
    <3> QED
      BY <1>k, <2>0, <3>1, <3>2, <3>3, <3>4, <3>5
  <2> QED
    BY <1>2, <2>0, <2>1, <2>2 DEF Get
<1>3. CASE InsertConflicts(s)
  <2> DEFINE c == [call[s] EXCEPT !.pc = "get_conflict"]
  <2>1. call' = [call EXCEPT ![s] = c] /\ UNCHANGED <<store, task>> /\ call[s].pc = "add"
    BY <1>3 DEF InsertConflicts
  <2>2. /\ c \in Calls /\ c.env = call[s].env /\ c.name = call[s].name /\ c.biz = call[s].biz
        /\ c.known = call[s].known /\ c.result = call[s].result /\ c.pc = "get_conflict"
    BY <1>c DEF Calls
  <2> HIDE DEF c
  <2>3. OwnName(c)
    BY <2>1, <2>2 DEF OwnName, SubmitInv
  <2>4. c.result \in Ids =>
          /\ Exists(c.result)
          /\ LET t == task[c.result] IN t.env = c.env /\ t.name = c.name /\ t.biz = c.biz
    BY <2>2 DEF SubmitInv, ResultsOwn
  <2>5. \A i \in c.known : Exists(i)
    BY <2>2 DEF SubmitInv, KnownGone
  <2> QED
    BY <1>k, <2>1, <2>2, <2>3, <2>4, <2>5
<1>4. CASE Add(s)
  <2>1. PICK i \in Ids :
          /\ ~Exists(i)
          /\ task' = [task EXCEPT ![i] = [state |-> "in", name |-> call[s].name,
                                          biz |-> call[s].biz, env |-> call[s].env]]
          /\ call' = [call EXCEPT ![s] = Found(call[s], i)]
    BY <1>4 DEF Add, Exists
  <2>2. /\ task'[i].state = "in" /\ task'[i].name = call[s].name
        /\ task'[i].biz = call[s].biz /\ task'[i].env = call[s].env
        /\ \A j \in Ids : j # i => task'[j] = task[j]
        /\ \A r \in Submitters : r # s => call'[r] = call[r]
        /\ call'[s] = Found(call[s], i)
    BY <2>1, <1>T DEF SubmitTypes
  <2>3. call[s].pc # "idle" /\ OwnName(call[s]) /\ store' = store
    BY <1>4 DEF Add, SubmitInv
  <2>4. /\ call'[s].pc = "returned" /\ call'[s].known = {} /\ call'[s].result = i
        /\ OwnName(call'[s])
        /\ task'[i].env = call'[s].env /\ task'[i].name = call'[s].name
        /\ task'[i].biz = call'[s].biz
    BY <2>2, <2>3, FoundOwn
  <2>5. \A j \in Ids : Exists(j)' => OwnName(task'[j])
    BY <2>2, <2>3 DEF SubmitInv, Exists, OwnName
  <2>6. \A r \in Submitters :
          /\ call'[r].pc # "idle" => OwnName(call'[r])
          /\ (call[r].result \in Ids => Exists(call[r].result))'
    BY <2>1, <2>2, <2>4 DEF SubmitInv, Exists
  <2>7. ResultsOwn'
    BY <2>1, <2>2, <2>4 DEF SubmitInv, ResultsOwn, Exists
  <2>8. KnownGone'
    <3>1. \A r \in Submitters : call[r].known \subseteq Ids
      BY <1>T DEF SubmitTypes, Calls
    <3> QED
      BY <2>1, <2>2, <2>4, <3>1 DEF SubmitInv, KnownGone, Exists, Pending
  <2> QED
    BY <1>T, <2>1, <2>2, <2>3, <2>5, <2>6, <2>7, <2>8 DEF SubmitInv, OwnName
<1> QED
  BY <1>1, <1>2, <1>3, <1>4 DEF Get, InsertConflicts

\* So does removing tasks that exist.
LEMMA RemovalKeepsSubmissions ==
    ASSUME SubmitInv, SubmitTypes', UNCHANGED <<store, call>>,
           \A i \in Ids : task'[i] = task[i] \/ (Exists(i) /\ task'[i] = Removed(task[i]))
    PROVE  SubmitInv'
<1>1. \A t \in Tasks : /\ Removed(t).env = t.env /\ Removed(t).name = t.name
                       /\ Removed(t).biz = t.biz /\ Removed(t).state = "out"
  BY RemovedTask
<1>2. \A i \in Ids : /\ task'[i].env = task[i].env /\ task'[i].name = task[i].name
                     /\ task'[i].biz = task[i].biz
                     /\ task'[i].state = task[i].state \/ (Exists(i) /\ task'[i].state = "out")
  BY <1>1 DEF SubmitInv, SubmitTypes
<1>3. \A i \in Ids : Exists(i)' <=> Exists(i)
  BY <1>2 DEF Exists
<1>4. \A i \in Ids : Exists(i)' => OwnName(task'[i])
  BY <1>2, <1>3 DEF SubmitInv, OwnName
<1>5. \A s \in Submitters :
        /\ call'[s].pc # "idle" => OwnName(call'[s])
        /\ (call[s].result \in Ids => Exists(call[s].result))'
  BY <1>3 DEF SubmitInv
<1>6. ResultsOwn'
  BY <1>2 DEF SubmitInv, ResultsOwn
<1>7. KnownGone'
  <2>1. \A s \in Submitters : call[s].known \subseteq Ids
    BY DEF SubmitInv, SubmitTypes, Calls
  <2> QED
    BY <1>2, <1>3, <2>1 DEF SubmitInv, KnownGone, Pending
<1> QED
  BY <1>4, <1>5, <1>6, <1>7 DEF SubmitInv, OwnName

---------------------------------------------------------------------------
(* Isolation of the environments. *)

\* The pod has the task in its snapshot or in flight.
Works(p, i) == job[p][i] # "none" \/ AtTask(p, i)

\* What makes Isolated inductive: what a pod works on, or a cleanup removed,
\* has been submitted, and who submitted it is in its name.
IsolationInv ==
    /\ TypeInv
    /\ SubmitInv
    /\ \A p \in Pods, i \in Ids : Works(p, i) => Exists(i) /\ task[i].env = EnvOf[p]
    /\ \A i \in Ids : cleaner[i] # NULL =>
          Exists(i) /\ (cleaner[i] = task[i].env \/ Prefix[cleaner[i]] = <<>>)

\* A step that is not of a submission removes tasks that exist, or none.
LEMMA OnlyRemovals ==
    ASSUME IsolationInv, Next, ~Submission
    PROVE  /\ UNCHANGED <<store, call>>
           /\ \A i \in Ids : task'[i] = task[i] \/ (Exists(i) /\ task'[i] = Removed(task[i]))
<1>t. task \in [Ids -> Tasks]
  BY DEF IsolationInv, TypeInv, TypeOK, SubmitTypeOK
<1>w. \A p \in Pods, i \in Ids : job[p][i] # "none" => Exists(i)
  BY DEF IsolationInv, Works
<1>1. CASE UNCHANGED submission
  BY <1>1 DEF submission
<1>2. ASSUME NEW p \in Pods, NEW i \in Ids, RemoveMember(p, i)
      PROVE  /\ UNCHANGED <<store, call>>
             /\ \A u \in Ids : task'[u] = task[u] \/ (Exists(u) /\ task'[u] = Removed(task[u]))
  BY <1>2, <1>t, <1>w DEF RemoveMember
<1>3. ASSUME NEW p \in Pods, NEW S, MaybeStored(p, S)
      PROVE  \A u \in Ids : task'[u] = task[u] \/ (Exists(u) /\ task'[u] = Removed(task[u]))
  BY <1>3, <1>w DEF MaybeStored
<1>4. ASSUME NEW e \in Envs, NEW i \in Ids, RemoveRow(e, i)
      PROVE  /\ UNCHANGED <<store, call>>
             /\ \A u \in Ids : task'[u] = task[u] \/ (Exists(u) /\ task'[u] = Removed(task[u]))
  BY <1>4, <1>t DEF RemoveRow, Pending, Exists
<1> QED
  BY <1>1, <1>2, <1>3, <1>4
     DEF Next, LoopStep, JobStep, MishapStep, PodStep, ListPending, PassOver, Dispatch,
         ExecuteAndRecord, Release, TickFault, Stop, JobFault, GraceExpires, Crash, Restart, Expire

\* No step makes an environment work on another's tasks.
LEMMA IsolationStep == IsolationInv /\ [Next]_vars => IsolationInv'
<1> SUFFICES ASSUME IsolationInv, [Next]_vars PROVE IsolationInv'
  OBVIOUS
<1> USE QueueAssumption
<1>1. CASE UNCHANGED vars
  <2>1. UNCHANGED <<store, task, call, lock, pod, todo, job, mishaps, finished, dropped, cleaner>>
    BY <1>1 DEF vars, submission
  <2>2. TypeInv'
    BY TypeStep DEF IsolationInv
  <2>3. SubmitInv'
    BY <2>1 DEF IsolationInv, SubmitInv, SubmitTypes, Exists, ResultsOwn, KnownGone, Pending, OwnName
  <2> QED
    BY <2>1, <2>2, <2>3 DEF IsolationInv, Works, AtTask, Exists
<1> SUFFICES ASSUME Next PROVE IsolationInv'
  BY <1>1
<1>t. /\ TypeInv' /\ SubmitTypes' /\ SubmitTypes /\ task \in [Ids -> Tasks]
      /\ todo \in [Pods -> ((SUBSET Ids) \ {{}}) \cup {NULL}]
      /\ job \in [Pods -> [Ids -> Phases]] /\ cleaner \in [Ids -> Envs \cup {NULL}]
  <2>1. TypeInv /\ TypeInv'
    BY TypeStep DEF IsolationInv
  <2>2. SubmitTypes'
    BY <2>1 DEF TypeInv, TypeOK, SubmitTypeOK, SubmitTypes
  <2> QED
    BY <2>1, <2>2, TypeParts DEF SubmitTypes
<1>s. SubmitInv' /\ \A i \in Ids : Exists(i) => task'[i].env = task[i].env /\ Exists(i)'
  <2>1. CASE Submission
    BY <2>1, SubmitInvStep DEF Submission, IsolationInv, Exists
  <2>2. CASE ~Submission
    <3>1. \A t \in Tasks : Removed(t).env = t.env /\ Removed(t).state = "out"
      BY RemovedTask
    <3> QED
      BY <1>t, <2>2, <3>1, OnlyRemovals, RemovalKeepsSubmissions DEF IsolationInv, Exists
  <2> QED
    BY <2>1, <2>2
\* A step in which no pod takes up a task and no cleanup removes a row.
<1>k. ASSUME \A p \in Pods, i \in Ids : Works(p, i)' => Works(p, i), cleaner' = cleaner
      PROVE  IsolationInv'
  BY <1>k, <1>s, <1>t DEF IsolationInv
<1>2. CASE Submission
  BY <1>2, <1>k DEF Submission, Works, AtTask
<1>3. ASSUME NEW p \in Pods, ListPending(p) PROVE IsolationInv'
  <2>1. \A q \in Pods, i \in Ids :
           Works(q, i)' => Works(q, i) \/ (q = p /\ i \in Pending /\ Handles(p, i))
    BY <1>3, <1>t DEF ListPending, Works, AtTask, Rest
  <2>2. ASSUME NEW i \in Pending, Handles(p, i) PROVE Exists(i) /\ task[i].env = EnvOf[p]
    <3>1. Exists(i) /\ i \in Ids
      BY <2>2 DEF Pending, Exists
    <3>2. OwnName(task[i])
      BY <3>1 DEF IsolationInv, SubmitInv
    <3> QED
      BY <2>2, <3>1, <3>2, NameOwner DEF Handles, OwnName
  <2>3. \A q \in Pods, i \in Ids : Works(q, i)' => Exists(i) /\ task[i].env = EnvOf[q]
    BY <2>1, <2>2 DEF IsolationInv
  <2>4. cleaner' = cleaner
    BY <1>3 DEF ListPending
  <2> QED
    BY <1>s, <1>t, <2>3, <2>4 DEF IsolationInv
<1>4. ASSUME NEW p \in Pods, NEW i \in Ids, PassOver(p, i) \/ Dispatch(p, i)
      PROVE  IsolationInv'
  <2>1. \A q \in Pods, u \in Ids : AtTask(q, u)' => AtTask(q, u)
    BY <1>4, <1>t DEF PassOver, Dispatch, AtTask, Rest
  <2>2. \A q \in Pods, u \in Ids : job'[q][u] = job[q][u] \/ (q = p /\ u = i)
    BY <1>4, <1>t DEF PassOver, Dispatch
  <2>3. AtTask(p, i) /\ cleaner' = cleaner
    BY <1>4 DEF PassOver, Dispatch
  <2> QED
    BY <1>k, <2>1, <2>2, <2>3 DEF Works
<1>5. ASSUME NEW p \in Pods, NEW i \in Ids,
             ExecuteAndRecord(p, i) \/ Release(p, i) \/ RemoveMember(p, i) \/ JobFault(p, i)
      PROVE  IsolationInv'
  <2>1. /\ job[p][i] # "none" /\ todo' = todo /\ cleaner' = cleaner
        /\ \A q \in Pods, u \in Ids : job'[q][u] = job[q][u] \/ (q = p /\ u = i)
    BY <1>5, <1>t DEF ExecuteAndRecord, Release, RemoveMember, JobFault, Goto
  <2> QED
    BY <1>k, <2>1 DEF Works, AtTask
<1>6. ASSUME NEW p \in Pods, TickFault(p) \/ Stop(p) PROVE IsolationInv'
  <2>1. job' = job /\ cleaner' = cleaner /\ todo' = [todo EXCEPT ![p] = NULL]
    BY <1>6 DEF TickFault, Stop, AbandonTick
  <2> QED
    BY <1>k, <1>t, <2>1 DEF Works, AtTask
<1>7. ASSUME NEW p \in Pods, GraceExpires(p) PROVE IsolationInv'
  <2>1. /\ todo' = todo /\ cleaner' = cleaner
        /\ \A q \in Pods : q # p => job'[q] = job[q]
        /\ \A u \in Ids : job'[p][u] = AfterCancel(job[p][u])
    BY <1>7, <1>t DEF GraceExpires
  <2> QED
    BY <1>k, <2>1 DEF Works, AtTask, AfterCancel
<1>8. ASSUME NEW p \in Pods, Crash(p) \/ Restart(p) PROVE IsolationInv'
  <2>1. /\ \A q \in Pods : todo'[q] = todo[q] \/ todo'[q] = NULL
        /\ cleaner' = cleaner
        /\ \A q \in Pods, u \in Ids : job'[q][u] \in {job[q][u], "none"}
    BY <1>8, <1>t DEF Crash, Restart
  <2> QED
    BY <1>k, <2>1 DEF Works, AtTask
<1>9. ASSUME NEW i \in Ids, Expire(i) PROVE IsolationInv'
  BY <1>9, <1>k DEF Expire, Works, AtTask
<1>10. ASSUME NEW e \in Envs, NEW i \in Ids, RemoveRow(e, i) PROVE IsolationInv'
  <2>1. Exists(i) /\ InReach(e, i) /\ cleaner' = [cleaner EXCEPT ![i] = e]
    BY <1>10 DEF RemoveRow, Pending, Exists
  <2>2. OwnName(task[i])
    BY <2>1 DEF IsolationInv, SubmitInv
  <2>3. e = task[i].env \/ Prefix[e] = <<>>
    BY <2>1, <2>2, PrefixesAssumption DEF InReach, OwnName
  <2>4. \A p \in Pods, u \in Ids : Works(p, u)' <=> Works(p, u)
    BY <1>10 DEF RemoveRow, Works, AtTask
  <2>5. \A u \in Ids : cleaner'[u] = IF u = i THEN e ELSE cleaner[u]
    BY <1>t, <2>1
  <2> QED
    BY <1>s, <1>t, <2>1, <2>3, <2>4, <2>5 DEF IsolationInv
<1> QED
  BY <1>2, <1>3, <1>4, <1>5, <1>6, <1>7, <1>8, <1>9, <1>10
     DEF Next, LoopStep, JobStep, MishapStep, PodStep

LEMMA IsolationInit == Init => IsolationInv
<1> SUFFICES ASSUME Init PROVE IsolationInv
  OBVIOUS
<1>1. TypeInv /\ SubmitTypes
  BY TypeInit, TypeParts
<1>2. /\ \A i \in Ids : ~Exists(i)
      /\ \A s \in Submitters : call[s] = NoCall
      /\ \A p \in Pods, i \in Ids : ~Works(p, i)
      /\ \A i \in Ids : cleaner[i] = NULL
  BY DEF Init, SubmitInit, NoTask, Exists, Works, AtTask
<1>3. SubmitInv
  BY <1>1, <1>2, SubmitAssumption DEF SubmitInv, NoCall, ResultsOwn, KnownGone
<1> QED
  BY <1>1, <1>2, <1>3 DEF IsolationInv

\* Environments with prefixes that tell their names apart are isolated: for
\* any number of them, and of pods, submitters and tasks, none runs, removes,
\* cleans up or returns a task that another submitted.
THEOREM EnvironmentsIsolated == Spec => []Isolated
<1>1. IsolationInv => Isolated
  BY DEF IsolationInv, SubmitInv, Works, Isolated
<1> QED
  BY <1>1, IsolationInit, IsolationStep, PTL DEF Spec

\* A submission that adds a task has seen every task of its key that was there
\* when it began leave the store, whatever others add and remove between its
\* two look-ups and its insert.
THEOREM SubmissionsDeduplicated == Spec => Deduplicated
<1> DEFINE Adds(s) == call[s].pc = "add" /\ call'[s].pc = "returned"
<1>1. IsolationInv /\ [Next]_vars =>
        [\A s \in Submitters : Adds(s) => call[s].known \cap Pending' = {}]_submission
  <2> SUFFICES ASSUME IsolationInv, [Next]_vars, submission' # submission,
                      NEW s \in Submitters, Adds(s)
               PROVE  call[s].known \cap Pending' = {}
    OBVIOUS
  <2>1. Next
    BY DEF vars
  <2>2. Submission
    BY <2>1, OnlyRemovals
  <2>3. \A i \in Ids : task'[i] = task[i] \/ ~Exists(i)
    BY <2>2, SubmitInvStep DEF Submission, IsolationInv
  <2>4. \A i \in call[s].known : Exists(i) /\ i \notin Pending
    BY DEF IsolationInv, SubmitInv, KnownGone
  <2> QED
    BY <2>3, <2>4 DEF Pending, Exists
<1> QED
  BY <1>1, IsolationInit, IsolationStep, PTL DEF Spec, Deduplicated
=============================================================================
