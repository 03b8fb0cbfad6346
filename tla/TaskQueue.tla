----------------------------- MODULE TaskQueue -----------------------------
(***************************************************************************)
(* What the scheduler promises of oneshot tasks, whatever the store        *)
(* (TaskScheduler in scheduler.py, "Locks recover crashed workers" in      *)
(* docs/scheduler.md): one pod at a time executes a task, and a task stays *)
(* in the queue until an execution of it is done with.  A pod that dies    *)
(* leaves its tasks to others.  A task may be executed more than once.     *)
(***************************************************************************)

CONSTANTS Pods, Tasks

VARIABLES
    queued,         \* tasks that wait for an execution or are in one
    working,        \* the pods that execute, each with its task
    done            \* tasks an execution of which is done with

queue == <<queued, working, done>>

QueueInit == queued = {} /\ working = {} /\ done = {}

\* A submission, or a pod that takes up a task from an old list.
Enqueue(t) ==
    /\ queued' = queued \cup {t}
    /\ UNCHANGED <<working, done>>

\* Nobody else executes the task.
Start(p, t) ==
    /\ \A q \in Pods : <<q, t>> \notin working
    /\ working' = working \cup {<<p, t>>}
    /\ queued' \in {queued, queued \cup {t}}
    /\ UNCHANGED done

\* The handler returns, with a success or a failure.
Return(p, t) ==
    /\ <<p, t>> \in working
    /\ working' = working \ {<<p, t>>}
    /\ done' = done \cup {t}
    /\ UNCHANGED queued

\* Tasks leave, each after an execution that is done with.
Leave(S) ==
    /\ S \subseteq done
    /\ queued' = queued \ S
    /\ UNCHANGED <<working, done>>

\* The executions of a pod end with it.  A shutdown may count those it cut
\* off as done with; a task leaves only for an earlier execution.
PodEnds(p) ==
    /\ working' = {w \in working : w[1] # p}
    /\ \E S \in SUBSET done : queued' = queued \ S
    /\ \E S \in SUBSET {t \in Tasks : <<p, t>> \in working} : done' = done \cup S

QueueNext ==
    \/ \E t \in Tasks : Enqueue(t)
    \/ \E p \in Pods, t \in Tasks : Start(p, t) \/ Return(p, t)
    \/ \E S \in SUBSET Tasks : Leave(S)
    \/ \E p \in Pods : PodEnds(p)

QueueSpec == QueueInit /\ [][QueueNext]_queue
=============================================================================
