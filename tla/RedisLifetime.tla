--------------------------- MODULE RedisLifetime ---------------------------
(***************************************************************************)
(* The life of one Redis client (redis/_lifetime.py) and of everything     *)
(* that borrows from it: commands, blocking commands and pipelines         *)
(* (redis/_client.py), subscriptions and monitors (redis/_protocols.py),   *)
(* the backend (redis/_backend.py) and connect (redis/_connector.py).      *)
(*                                                                         *)
(* asyncio tasks share one event loop, so what runs between two awaits is  *)
(* one step.  A task's pc names the await it is suspended in; "idle" is    *)
(* application code and "unwind" is application code that a CancelledError *)
(* is passing through, where only finally blocks and __aexit__ run.  A     *)
(* task that was cancelled gets its CancelledError from the await it is    *)
(* in.  A call that is refused at once (client closed, pool exhausted)     *)
(* changes nothing and is no step.                                         *)
(*                                                                         *)
(* protocol_pool awaits only in a cluster (_backend.py:144); elsewhere the *)
(* step that ends it follows at once, which is one of the interleavings.   *)
(* A monitor or pipeline is used by its owner alone and by close; a        *)
(* subscription by every task.                                             *)
(***************************************************************************)
EXTENDS Naturals, FiniteSets

CONSTANTS
    Tasks,                          \* asyncio tasks of the application
    PubSubs, Monitors, Pipelines,   \* the objects the client handed out
    Owner,                          \* the task of each monitor and pipeline
    Maximum,                        \* max_long_connections
    NULL

Protocols == PubSubs \cup Monitors
Handles == Protocols \cup Pipelines

\* _close gathers one aclose() per resource: that call is an agent too, and
\* goes by the name of its handle.
Agents == Tasks \cup Handles

\* The connector's lock goes by the name NULL.
Locks == PubSubs \cup {NULL}

ASSUME HandlesAssumption ==
    /\ Tasks \cap Handles = {} /\ NULL \notin Agents
    /\ PubSubs \cap Monitors = {} /\ Protocols \cap Pipelines = {}
    /\ Owner \in [Monitors \cup Pipelines -> Tasks]
    /\ Maximum \in Nat \ {0}

ASSUME FiniteAssumption == IsFiniteSet(Tasks) /\ IsFiniteSet(Handles)

VARIABLES
    closed,         \* Lifetime.closed
    long_in_use,    \* Lifetime.long_in_use
    tasks,          \* Lifetime.tasks: operations each task is in
    resources,      \* Lifetime.resources
    native,         \* handles whose _native is not None
    lock,           \* who holds each asyncio.Lock
    connected,      \* RedisConnector._connected
    sockets,        \* some native client may have a connection open
    run,            \* what each agent awaits, on what, in which method, and
                    \* the exception it has in hand
    cancelled,      \* tasks whose cancel() has not been delivered yet
    closer          \* _close_task: its await, its initiator, the tasks it cancelled

vars == <<closed, long_in_use, tasks, resources, native, lock, connected,
          sockets, run, cancelled, closer>>

lifecycle == <<closed, closer, connected>>

---------------------------------------------------------------------------

Idle == [pc |-> "idle", on |-> NULL, fn |-> "none", exc |-> "none"]
Unwind == [Idle EXCEPT !.pc = "unwind", !.exc = "cancel"]
Ended == [Idle EXCEPT !.pc = "ended"]

Init ==
    /\ closed = FALSE /\ connected = FALSE /\ sockets = FALSE
    /\ long_in_use = 0
    /\ tasks = [t \in Tasks |-> 0]
    /\ resources = {} /\ native = {}
    /\ lock = [l \in Locks |-> NULL]
    /\ run = [a \in Agents |-> Idle]
    /\ cancelled = {}
    /\ closer = [pc |-> "none", initiator |-> NULL, awaited |-> {}]

At(a, pc) == run[a].pc = pc

\* How the await of an agent ends.
Outcomes(a) == IF a \in cancelled THEN {"cancel"} ELSE {"none", "error"}

Delivered(a) == cancelled' = cancelled \ {a}

\* An exception raised while another is in hand replaces it.
Raised(exc, how) == IF how = "none" THEN exc ELSE how

\* Mutant: the pool lets one more in than it has permits.
CanAcquireOneMore == ~closed /\ long_in_use <= Maximum

\* acquire succeeds.
CanAcquire == ~closed /\ long_in_use < Maximum

\* operation(): entered and left.
Enter(t) == tasks' = [tasks EXCEPT ![t] = @ + 1]
Exited(t) == [tasks EXCEPT ![t] = @ - 1]

\* Application code with an exception, or the end of an aclose() of _close.
After(a, exc) ==
    IF a \in Handles THEN Ended ELSE IF exc = "cancel" THEN Unwind ELSE Idle

Goto(a, pc) == run' = [run EXCEPT ![a].pc = pc]

Call(t, pc, h, fn) ==
    run' = [run EXCEPT ![t] = [pc |-> pc, on |-> h, fn |-> fn, exc |-> "none"]]

\* The method returns or raises, leaving its operation if it is in one.
Return(a, fn, exc, ops) ==
    /\ run' = [run EXCEPT ![a] = After(a, exc)]
    /\ tasks' = IF fn = "aclose" THEN ops ELSE [ops EXCEPT ![a] = @ - 1]

\* native, self._native = self._native, None, and the native object is closed.
TakeNative(a, h, fn, exc, ops) ==
    \/ /\ h \in native
       /\ native' = native \ {h}
       /\ run' = [run EXCEPT ![a] = [pc |-> "closing_native", on |-> h, fn |-> fn, exc |-> exc]]
       /\ tasks' = ops
       /\ UNCHANGED resources
    \/ /\ h \notin native
       /\ resources' = resources \ {h}
       /\ Return(a, fn, exc, ops)
       /\ UNCHANGED native

\* Call of aclose() or reset(): a subscription waits for its lock first.
BeginAclose(a, h, fn, exc, ops) ==
    \/ /\ h \in PubSubs
       /\ run' = [run EXCEPT ![a] = [pc |-> "aclose_lock", on |-> h, fn |-> fn, exc |-> exc]]
       /\ tasks' = ops
       /\ UNCHANGED <<native, resources>>
    \/ /\ h \notin PubSubs
       /\ TakeNative(a, h, fn, exc, ops)

---------------------------------------------------------------------------
(* Commands, scans and scripts. *)

LongFns == {"command_long", "execute_long"}

\* execute_command, one page of scan_iter: under _execution.
Command(t, fn) ==
    /\ At(t, "idle") /\ ~closed
    /\ fn = "command_long" => CanAcquire
    /\ Enter(t)
    /\ long_in_use' = long_in_use + (IF fn = "command_long" THEN 1 ELSE 0)
    /\ sockets' = TRUE
    /\ Call(t, "command", NULL, fn)
    /\ UNCHANGED <<lifecycle, resources, native, lock, cancelled>>

CommandEnds(t) ==
    /\ At(t, "command")
    /\ \E how \in Outcomes(t) :
        /\ Return(t, run[t].fn, how, tasks)
        /\ sockets' = (sockets \/ how = "none")
    /\ long_in_use' = long_in_use - (IF run[t].fn = "command_long" THEN 1 ELSE 0)
    /\ Delivered(t)
    /\ UNCHANGED <<lifecycle, resources, native, lock>>

---------------------------------------------------------------------------
(* RedisConnector.connect. *)

Connect(t) ==
    /\ At(t, "idle") /\ ~closed
    /\ Enter(t)
    /\ Call(t, "connect_lock", NULL, "connect")
    /\ UNCHANGED <<lifecycle, long_in_use, resources, native, lock, sockets, cancelled>>

\* The lock is granted: connected already, or a ping in an operation of its
\* own; the ping of a closed client raises and the attempt is undone.
ConnectLocked(t) ==
    /\ At(t, "connect_lock") /\ t \notin cancelled /\ lock[NULL] = NULL
    /\ \/ /\ connected
          /\ Return(t, "connect", "none", tasks)
          /\ UNCHANGED <<lock, sockets>>
       \/ /\ ~connected /\ ~closed
          /\ lock' = [lock EXCEPT ![NULL] = t]
          /\ Enter(t)
          /\ sockets' = TRUE
          /\ Goto(t, "ping")
       \/ /\ ~connected /\ closed
          /\ lock' = [lock EXCEPT ![NULL] = t]
          /\ run' = [run EXCEPT ![t].pc = "undo", ![t].exc = "error"]
          /\ UNCHANGED <<tasks, sockets>>
    /\ UNCHANGED <<lifecycle, long_in_use, resources, native, cancelled>>

PingEnds(t) ==
    /\ At(t, "ping")
    /\ \E how \in Outcomes(t) :
        \/ /\ how = "none"
           /\ connected' = TRUE
           /\ lock' = [lock EXCEPT ![NULL] = NULL]
           /\ Return(t, "connect", "none", Exited(t))
        \/ /\ how # "none"
           /\ run' = [run EXCEPT ![t].pc = "undo", ![t].exc = how]
           /\ tasks' = Exited(t)
           /\ UNCHANGED <<connected, lock>>
    /\ Delivered(t)
    /\ UNCHANGED <<closed, closer, long_in_use, resources, native, sockets>>

\* backend.aclose of a failed attempt; what other tasks are using reconnects.
UndoEnds(t) ==
    /\ At(t, "undo")
    /\ \E how \in Outcomes(t) :
        /\ Return(t, "connect", Raised(run[t].exc, how), tasks)
        /\ sockets' = IF how # "none" THEN sockets
                      ELSE native # {} \/ \E u \in Tasks \ {t} : tasks[u] > 0
    /\ lock' = [lock EXCEPT ![NULL] = NULL]
    /\ Delivered(t)
    /\ UNCHANGED <<lifecycle, long_in_use, resources, native>>

---------------------------------------------------------------------------
(* Subscriptions, monitors and pipelines. *)

\* subscribe and its kin, get_message and ping of a subscription.
PubSubCall(t, h, fn) ==
    /\ At(t, "idle") /\ ~closed
    /\ Enter(t)
    /\ Call(t, "get_lock", h, fn)
    /\ UNCHANGED <<lifecycle, long_in_use, resources, native, lock, sockets, cancelled>>

\* Only subscribe and its kin close the subscription when _get raises.
GetFails(t, exc) ==
    IF run[t].fn = "subscribe"
    THEN BeginAclose(t, run[t].on, "subscribe", exc, tasks)
    ELSE /\ Return(t, run[t].fn, exc, tasks)
         /\ UNCHANGED <<native, resources>>

\* _get has the lock.
GetLocked(t) ==
    LET h == run[t].on IN
    /\ At(t, "get_lock") /\ t \notin cancelled /\ lock[h] = NULL
    /\ \/ /\ ~closed /\ h \in native
          /\ Goto(t, "io")
          /\ UNCHANGED <<long_in_use, tasks, lock, sockets, native, resources>>
       \/ /\ CanAcquire /\ h \notin native
          /\ long_in_use' = long_in_use + 1
          /\ lock' = [lock EXCEPT ![h] = t]
          /\ sockets' = TRUE
          /\ Goto(t, "pool")
          /\ UNCHANGED <<tasks, native, resources>>
       \/ /\ closed \/ (h \notin native /\ ~CanAcquire)
          /\ GetFails(t, "error")
          /\ UNCHANGED <<long_in_use, lock, sockets>>
    /\ UNCHANGED <<lifecycle, cancelled>>

\* __aenter__ of a monitor that has no native object yet.
MonitorEnter(t, h) ==
    /\ At(t, "idle") /\ CanAcquire /\ h \notin native
    /\ Enter(t)
    /\ long_in_use' = long_in_use + 1
    /\ sockets' = TRUE
    /\ Call(t, "pool", h, "enter")
    /\ UNCHANGED <<lifecycle, resources, native, lock, cancelled>>

\* watch, or execute with no native pipeline yet: ready() is awaited.
PipelineReady(t, h, fn) ==
    /\ At(t, "idle") /\ ~closed /\ h \notin native
    /\ fn = "execute_long" => CanAcquire
    /\ Enter(t)
    /\ long_in_use' = long_in_use + (IF fn = "execute_long" THEN 1 ELSE 0)
    /\ sockets' = TRUE
    /\ Call(t, "pool", h, fn)
    /\ UNCHANGED <<lifecycle, resources, native, lock, cancelled>>

\* A call on the native object there is: next_command of a monitor; watch, a
\* command between WATCH and MULTI, unwatch and execute of a pipeline.
NativeCall(t, h, fn) ==
    /\ At(t, "idle") /\ ~closed /\ h \in native
    /\ Enter(t)
    /\ Call(t, "io", h, fn)
    /\ UNCHANGED <<lifecycle, long_in_use, resources, native, lock, sockets, cancelled>>

\* execute leaves its operation first and resets the pipeline after it.
EndExecute(t, exc) == BeginAclose(t, run[t].on, "aclose", exc, Exited(t))

\* Mutant: the permit of a blocking batch is not returned.
PermitKept(fn) == 0

\* What a pipeline method returns to the pool when its operation ends.
Permit(fn) == IF fn \in LongFns THEN 1 ELSE 0

\* protocol_pool or ready returned: the native object is made and, but for an
\* execute, registered.  The cluster looks at closed once more (line 151).
PoolEnds(t) ==
    LET h == run[t].on
        fn == run[t].fn IN
    /\ At(t, "pool")
    /\ \E how \in Outcomes(t) :
        \/ /\ how = "none" /\ (h \in Protocols => ~closed)
           /\ native' = native \cup {h}
           /\ resources' = IF fn \in {"execute", "execute_long"} THEN resources ELSE resources \cup {h}
           /\ sockets' = TRUE
           /\ Goto(t, "io")
           /\ UNCHANGED <<long_in_use, tasks>>
        \/ /\ how # "none" \/ (h \in Protocols /\ closed)
           /\ long_in_use' = long_in_use - (IF h \in Protocols THEN 1 ELSE Permit(fn))
           /\ LET exc == Raised("error", how) IN
              CASE h \in PubSubs                      -> GetFails(t, exc)
                [] fn \in {"execute", "execute_long"} -> EndExecute(t, exc)
                [] OTHER -> Return(t, fn, exc, tasks) /\ UNCHANGED <<native, resources>>
           /\ UNCHANGED sockets
    /\ lock' = IF h \in PubSubs THEN [lock EXCEPT ![h] = NULL] ELSE lock
    /\ Delivered(t)
    /\ UNCHANGED lifecycle

\* The methods that close their handle when the native call raises.
ClosesOnError == {"subscribe", "get_message", "enter", "watch"}

IoEnds(t) ==
    LET h == run[t].on
        fn == run[t].fn IN
    /\ At(t, "io")
    /\ \E how \in Outcomes(t) :
        /\ CASE fn \in {"execute", "execute_long"} -> EndExecute(t, how)
             [] fn = "unwatch" /\ how = "none"     -> BeginAclose(t, h, "aclose", "none", Exited(t))
             [] fn \in ClosesOnError /\ how # "none" -> BeginAclose(t, h, fn, how, tasks)
             [] OTHER -> Return(t, fn, how, tasks) /\ UNCHANGED <<native, resources>>
        /\ sockets' = (sockets \/ (how = "none" /\ h \in native))
    /\ long_in_use' = long_in_use - Permit(fn)
    /\ Delivered(t)
    /\ UNCHANGED <<lifecycle, lock>>

\* execute that _execution refuses still resets the pipeline.
ExecuteRefused(t, h, fn) ==
    /\ At(t, "idle") /\ (closed \/ (fn = "execute_long" /\ ~CanAcquire))
    /\ BeginAclose(t, h, "aclose", "error", tasks)
    /\ UNCHANGED <<lifecycle, long_in_use, lock, sockets, cancelled>>

\* aclose() of a handle, by the application or on leaving its async with; a
\* handle with no native object has nothing to close.
Aclose(t, h) ==
    /\ run[t].pc \in {"idle", "unwind"} /\ t \notin cancelled
    /\ h \in native
    /\ BeginAclose(t, h, "aclose", run[t].exc, tasks)
    /\ UNCHANGED <<lifecycle, long_in_use, lock, sockets, cancelled>>

AcloseLocked(a) ==
    LET h == run[a].on IN
    /\ At(a, "aclose_lock") /\ a \notin cancelled /\ lock[h] = NULL
    /\ TakeNative(a, h, run[a].fn, run[a].exc, tasks)
    /\ lock' = IF h \in native THEN [lock EXCEPT ![h] = a] ELSE lock
    /\ UNCHANGED <<lifecycle, long_in_use, sockets, cancelled>>

\* The native object is closed, whatever came of it: the permit goes back.
NativeClosed(a) ==
    LET h == run[a].on IN
    /\ At(a, "closing_native")
    /\ \E how \in Outcomes(a) : Return(a, run[a].fn, Raised(run[a].exc, how), tasks)
    /\ long_in_use' = long_in_use - (IF h \in Protocols THEN 1 ELSE 0)
    /\ resources' = resources \ {h}
    /\ lock' = IF h \in PubSubs THEN [lock EXCEPT ![h] = NULL] ELSE lock
    /\ Delivered(a)
    /\ UNCHANGED <<lifecycle, native, sockets>>

---------------------------------------------------------------------------
(* Cancellation and the end of a task. *)

Suspended(t) == run[t].pc \notin {"idle", "unwind", "ended"}

\* Somebody cancels a task in one of its awaits: a timeout, a shutdown.
Cancel(t) ==
    /\ Suspended(t) /\ t \notin cancelled /\ run[t].exc # "cancel"
    /\ cancelled' = cancelled \cup {t}
    /\ UNCHANGED <<closed, long_in_use, tasks, resources, native, lock, connected,
                   sockets, run, closer>>

\* The cancellation of a wait for a lock.
LockCancelled(t) ==
    /\ run[t].pc \in {"connect_lock", "get_lock", "aclose_lock"} /\ t \in cancelled
    /\ IF At(t, "get_lock") THEN GetFails(t, "cancel")
       ELSE /\ Return(t, run[t].fn, "cancel", tasks)
            /\ UNCHANGED <<native, resources>>
    /\ Delivered(t)
    /\ UNCHANGED <<lifecycle, long_in_use, lock, sockets>>

\* The task ends; one that close did not cancel may also go on (a timeout).
TaskEnds(t) ==
    /\ \/ At(t, "unwind")
       \/ At(t, "idle") /\ t \in closer.awaited
    /\ \E next \in {Ended} \cup (IF t \in closer.awaited THEN {} ELSE {Idle}) :
        run' = [run EXCEPT ![t] = next]
    /\ UNCHANGED <<closed, long_in_use, tasks, resources, native, lock, connected,
                   sockets, cancelled, closer>>

---------------------------------------------------------------------------
(* close and _close. *)

\* aclose() of the client or connector: from application code, from a finally
\* or async with that an exception passes through, or from the handler of a
\* message that get_message is delivering.  The first call starts _close.
Close(t) ==
    /\ t \notin cancelled
    /\ \/ run[t].pc \in {"idle", "unwind"}
       \/ At(t, "io") /\ run[t].fn = "get_message"
    /\ closer.pc # "done"
    /\ closed' = TRUE
    /\ closer' = IF closer.pc = "none" THEN [closer EXCEPT !.pc = "created", !.initiator = t] ELSE closer
    /\ Goto(t, "closing")
    /\ UNCHANGED <<long_in_use, tasks, resources, native, lock, connected, sockets, cancelled>>

\* The shield around _close_task: a cancelled waiter leaves, _close goes on.
CloseReturns(t) ==
    /\ At(t, "closing") /\ (t \in cancelled \/ closer.pc = "done")
    /\ \E how \in Outcomes(t) :
        IF run[t].fn = "get_message"
        THEN \/ how = "none" /\ Goto(t, "io") /\ UNCHANGED <<tasks, native, resources>>
             \/ how # "none" /\ BeginAclose(t, run[t].on, "get_message", how, tasks)
        ELSE Return(t, "aclose", Raised(run[t].exc, how), tasks) /\ UNCHANGED <<native, resources>>
    /\ Delivered(t)
    /\ UNCHANGED <<lifecycle, long_in_use, lock, sockets>>

\* First step of _close: cancel every tracked task but the initiator.
Tracked == {t \in Tasks : tasks[t] > 0}

\* Mutant: the tasks are cancelled and not waited for.
CancelTasksForgets ==
    /\ closer.pc = "created"
    /\ cancelled' = cancelled \cup (Tracked \ {closer.initiator})
    /\ closer' = [closer EXCEPT !.pc = "tasks"]
    /\ UNCHANGED <<closed, long_in_use, tasks, resources, native, lock, connected, sockets, run>>

\* Mutant: the tasks are waited for and not cancelled.
CancelTasksWaits ==
    /\ closer.pc = "created"
    /\ closer' = [closer EXCEPT !.pc = "tasks", !.awaited = Tracked \ {closer.initiator}]
    /\ UNCHANGED <<closed, long_in_use, tasks, resources, native, lock, connected, sockets, run, cancelled>>

CancelTasks ==
    /\ closer.pc = "created"
    /\ LET victims == Tracked \ {closer.initiator} IN
        /\ cancelled' = cancelled \cup victims
        /\ closer' = [closer EXCEPT !.pc = "tasks", !.awaited = victims]
    /\ UNCHANGED <<closed, long_in_use, tasks, resources, native, lock, connected, sockets, run>>

\* gather of the tasks, which waits for them to end: aclose of every resource.
CloseResources ==
    /\ closer.pc = "tasks"
    /\ \A t \in closer.awaited : At(t, "ended")
    /\ closer' = [closer EXCEPT !.pc = "resources"]
    \* A resource without a lock gives up its native object at once.
    /\ run' = [a \in Agents |->
                  IF a \notin resources THEN run[a]
                  ELSE IF a \in PubSubs
                  THEN [pc |-> "aclose_lock", on |-> a, fn |-> "aclose", exc |-> "none"]
                  ELSE IF a \in native
                  THEN [pc |-> "closing_native", on |-> a, fn |-> "aclose", exc |-> "none"]
                  ELSE Ended]
    /\ native' = native \ (resources \ PubSubs)
    /\ resources' = resources \cap (native \cup PubSubs)
    /\ UNCHANGED <<closed, long_in_use, tasks, lock, connected, sockets, cancelled>>

\* gather of the resources: the backend closes its clients.
CloseBackend ==
    /\ closer.pc = "resources"
    /\ \A h \in Handles : run[h] \in {Idle, Ended}
    /\ closer' = [closer EXCEPT !.pc = "backend"]
    /\ UNCHANGED <<closed, long_in_use, tasks, resources, native, lock, connected,
                   sockets, run, cancelled>>

BackendClosed ==
    /\ closer.pc = "backend"
    /\ closer' = [closer EXCEPT !.pc = "done"]
    /\ sockets' = FALSE
    /\ UNCHANGED <<closed, long_in_use, tasks, resources, native, lock, connected, run, cancelled>>

---------------------------------------------------------------------------

Owned(t) == {h \in Monitors \cup Pipelines : Owner[h] = t}

CallStep(t) ==
    \/ \E fn \in {"command", "command_long"} : Command(t, fn)
    \/ Connect(t)
    \/ \E h \in PubSubs, fn \in {"subscribe", "get_message", "ping"} : PubSubCall(t, h, fn)
    \/ \E h \in Monitors \cap Owned(t) : MonitorEnter(t, h) \/ NativeCall(t, h, "next_command")
    \/ \E h \in Pipelines \cap Owned(t) :
        \/ \E fn \in {"watch", "execute", "execute_long"} : PipelineReady(t, h, fn)
        \/ \E fn \in {"watch", "immediate", "unwatch", "execute"} : NativeCall(t, h, fn)
        \/ \E fn \in {"execute", "execute_long"} : ExecuteRefused(t, h, fn)
    \/ \E h \in PubSubs \cup Owned(t) : Aclose(t, h)
    \/ Close(t)
    \/ Cancel(t)

\* Awaits on the server: nothing but a cancellation is sure to end them.
ServerStep(t) == CommandEnds(t) \/ IoEnds(t)

\* Awaits that end by themselves: their timeouts are bounded.
LocalStep(t) ==
    \/ ConnectLocked(t) \/ PingEnds(t) \/ UndoEnds(t)
    \/ GetLocked(t) \/ PoolEnds(t) \/ LockCancelled(t)
    \/ CloseReturns(t) \/ TaskEnds(t)

AcloseStep(a) == AcloseLocked(a) \/ NativeClosed(a)

CloserStep == CancelTasks \/ CloseResources \/ CloseBackend \/ BackendClosed

Next ==
    \/ \E t \in Tasks : CallStep(t) \/ ServerStep(t) \/ LocalStep(t)
    \/ \E a \in Agents : AcloseStep(a)
    \/ CloserStep

Fairness ==
    /\ \A t \in Tasks : WF_vars(LocalStep(t)) /\ WF_vars(t \in cancelled /\ ServerStep(t))
    /\ \A a \in Agents : WF_vars(AcloseStep(a))
    /\ WF_vars(CloserStep)

Spec == Init /\ [][Next]_vars /\ Fairness

---------------------------------------------------------------------------
(* Properties. *)

Pcs == {"idle", "unwind", "ended", "command", "connect_lock", "ping", "undo", "get_lock",
        "pool", "io", "aclose_lock", "closing_native", "closing"}

Fns == {"none", "command", "command_long", "connect", "subscribe", "get_message", "ping",
        "enter", "next_command", "watch", "immediate", "unwatch", "execute", "execute_long", "aclose"}

\* Type invariant.
TypeOK ==
    /\ closed \in BOOLEAN /\ connected \in BOOLEAN /\ sockets \in BOOLEAN
    /\ long_in_use \in 0..Maximum
    /\ tasks \in [Tasks -> 0..2]
    /\ resources \subseteq Handles /\ native \subseteq Handles
    /\ lock \in [Locks -> Agents \cup {NULL}]
    /\ run \in [Agents -> [pc : Pcs, on : Handles \cup {NULL}, fn : Fns, exc : {"none", "error", "cancel"}]]
    /\ cancelled \subseteq Tasks
    /\ closer \in [pc : {"none", "created", "tasks", "resources", "backend", "done"},
                   initiator : Tasks \cup {NULL}, awaited : SUBSET Tasks]

\* Who owns a long permit: blocking commands and batches under way, native
\* protocol objects, and those that are being made or closed.
PermitOwners ==
    {t \in Tasks : run[t].fn \in LongFns}
    \cup (native \cap Protocols)
    \cup {a \in Agents : run[a].pc \in {"pool", "closing_native"} /\ run[a].on \in Protocols}

\* Every long permit has one owner and every owner one permit, through errors
\* and cancellations at every await: none leaks and none is returned twice.
PermitsExact == long_in_use = Cardinality(PermitOwners)

\* close can find whatever is left open: a native object is registered, or is
\* the pipeline of an execute under way, whose finally resets it.
NothingUntracked ==
    \A h \in native \ resources :
        \E t \in Tasks : At(t, "io") /\ run[t].on = h /\ run[t].fn \in {"execute", "execute_long"}

\* The barrier: close can find whatever is open, resources and backend are
\* closed only when no task but the initiator is inside an operation, and
\* after that nothing is open.
Barrier ==
    /\ NothingUntracked
    /\ closer.pc \in {"resources", "backend", "done"} => Tracked \subseteq {closer.initiator}
    /\ closer.pc \in {"backend", "done"} => native = {} /\ resources = {}
    /\ closer.pc = "done" => ~sockets

\* A task that close cancelled and that itself waits for close.
SelfWait == \E t \in closer.awaited : At(t, "closing")

\* A close that was asked for ends, although waiters are cancelled and tasks
\* sit in calls that block for ever, unless a task it waits for waits for it.
CloseEnds == (closer.pc # "none") ~> (closer.pc = "done" \/ SelfWait)

=============================================================================
