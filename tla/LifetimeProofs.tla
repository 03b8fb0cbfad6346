--------------------------- MODULE LifetimeProofs ---------------------------
(***************************************************************************)
(* Theorems about RedisLifetime for any number of tasks, handles and long  *)
(* permits, proved with TLAPS.                                             *)
(*                                                                         *)
(* Almost every step moves one agent from one await to another.  The first *)
(* part describes such a move once, for all actions; the invariants are    *)
(* then shown to survive any move, and the steps of _close.                *)
(***************************************************************************)
EXTENDS RedisLifetime, FiniteSetTheorems, TLAPS

---------------------------------------------------------------------------
(* Where an agent can be. *)

Runs == [pc : Pcs, on : Handles \cup {NULL}, fn : Fns, exc : {"none", "error", "cancel"}]

Executes == {"execute", "execute_long"}

\* In a method of a subscription.
PubSubRun(r) ==
    /\ r.on \in PubSubs
    /\ \/ r.pc \in {"get_lock", "pool", "io"} /\ r.fn \in {"subscribe", "get_message", "ping"}
       \/ r.pc \in {"aclose_lock", "closing_native"} /\ r.fn \in {"subscribe", "get_message", "aclose"}
       \/ r.pc = "closing" /\ r.fn = "get_message"

\* In a method of a monitor or pipeline of the task t.
OwnedRun(t, r) ==
    /\ r.on \in Monitors \cup Pipelines /\ Owner[r.on] = t
    /\ \/ r.on \in Monitors /\ r.pc \in {"pool", "io"} /\ r.fn = "enter"
       \/ r.on \in Monitors /\ r.pc = "io" /\ r.fn = "next_command"
       \/ r.on \in Pipelines /\ r.pc \in {"pool", "io"} /\ r.fn \in Executes \cup {"watch"}
       \/ r.on \in Pipelines /\ r.pc = "io" /\ r.fn \in {"immediate", "unwatch"}
       \/ r.pc = "closing_native" /\ r.fn \in {"enter", "watch", "aclose"}

\* The awaits of a task, each with the method and the handle it belongs to.
TaskRun(t, r) ==
    \/ r \in {Idle, Unwind, Ended}
    \/ r.pc = "command" /\ r.on = NULL /\ r.fn \in {"command", "command_long"}
    \/ r.pc \in {"connect_lock", "ping", "undo"} /\ r.on = NULL /\ r.fn = "connect"
    \/ r.pc = "closing" /\ r.on = NULL /\ r.fn = "none"
    \/ PubSubRun(r)
    \/ OwnedRun(t, r)

\* The aclose() that _close calls on a resource.
HandleRun(h, r) ==
    \/ r \in {Idle, Ended}
    \/ /\ r.on = h /\ r.fn = "aclose"
       /\ r.pc = "closing_native" \/ (r.pc = "aclose_lock" /\ h \in PubSubs)

RunsInPlace ==
    /\ \A t \in Tasks : TaskRun(t, run[t])
    /\ \A h \in Handles : HandleRun(h, run[h])

\* The operations that a task in r is in: none in application code, nor in
\* an aclose() outside an operation; two in the ping of connect.
Ops(r) == IF r.pc = "ping" THEN 2 ELSE IF r.fn \in {"none", "aclose"} THEN 0 ELSE 1

OpsExact == \A t \in Tasks : tasks[t] = Ops(run[t])

\* An agent in r holds the lock l.
Holds(r, l) == r.on = l /\ r.pc \in {"ping", "undo", "pool", "closing_native"}

LocksExact == \A l \in Locks, a \in Agents : lock[l] = a <=> Holds(run[a], l)

\* Nobody makes or closes a native object while there is another one.
NativeFree ==
    \A a \in Agents : run[a].pc \in {"pool", "closing_native"} => run[a].on \notin native

---------------------------------------------------------------------------
(* The phases of _close. *)

\* The task that started _close is back in application code, waits for
\* _close, or is in the get_message that it was called from.
Initiated(r) ==
    \/ r.pc \in {"idle", "unwind", "ended", "closing", "aclose_lock", "closing_native"}
    \/ r.pc = "io" /\ r.fn = "get_message"

Phases ==
    /\ closed <=> closer.pc # "none"
    /\ closed => closer.initiator \in Tasks /\ Initiated(run[closer.initiator])
    /\ closer.pc \in {"tasks", "resources", "backend", "done"} =>
          Tracked \subseteq closer.awaited \cup {closer.initiator}
    /\ closer.pc \in {"none", "created", "tasks"} => \A h \in Handles : run[h] = Idle
    /\ closer.pc = "resources" =>
          \A h \in resources : run[h].pc \in {"aclose_lock", "closing_native"}
    /\ closer.pc \in {"backend", "done"} => \A h \in Handles : run[h] \in {Idle, Ended}

LifetimeInv ==
    /\ TypeOK /\ RunsInPlace /\ OpsExact /\ LocksExact /\ NativeFree
    /\ Phases /\ Barrier /\ PermitsExact

---------------------------------------------------------------------------
(* A move of the agent a to the await r. *)

AgentRun(a, r) == IF a \in Tasks THEN TaskRun(a, r) ELSE HandleRun(a, r)

\* The native object of a handle is left alone, taken to be closed, found
\* gone, or made; the execute of a pipeline does not end without closing it.
NativeMove(a, r) ==
    /\ r.pc \in {"pool", "closing_native"} => r.on \notin native'
    /\ run[a].pc = "io" /\ run[a].fn \in Executes => run[a].on \notin native'
    /\ \/ UNCHANGED <<native, resources>>
       \/ native' = native \ {r.on} /\ resources' = resources
       \/ \E h \in Handles \ native : native' = native /\ resources' = resources \ {h}
       \/ /\ run[a].pc = "pool" /\ r = [run[a] EXCEPT !.pc = "io"]
          /\ r.on \in Protocols => ~closed
          /\ native' = native \cup {r.on}
          /\ resources' = IF r.fn \in Executes THEN resources ELSE resources \cup {r.on}

\* The agent is in r now, in the operations of r.
Moves(a, r) ==
    /\ r \in Runs /\ AgentRun(a, r)
    /\ run' = [run EXCEPT ![a] = r]
    /\ tasks' \in [Tasks -> Int]
    /\ \A t \in Tasks : tasks'[t] = IF t = a THEN Ops(r) ELSE tasks[t]
    /\ NativeMove(a, r)

\* Locks are granted when they are free, kept while r needs them and released.
LockMove(a, r) ==
    /\ lock' \in [Locks -> Agents \cup {NULL}]
    /\ \A l \in Locks :
          /\ lock'[l] = IF Holds(r, l) THEN a ELSE IF Holds(run[a], l) THEN NULL ELSE lock[l]
          /\ Holds(r, l) /\ ~Holds(run[a], l) => lock[l] = NULL

\* An agent in r owns a long permit.
Owed(r) == r.fn \in LongFns \/ (r.pc \in {"pool", "closing_native"} /\ r.on \in Protocols)

\* A permit is taken while there is one, returned, or changes hands between
\* the agent and the native object it made or closes.
PermitMove(a, r) ==
    \/ /\ native' \cap Protocols = native \cap Protocols
       /\ \/ (Owed(r) <=> Owed(run[a])) /\ long_in_use' = long_in_use
          \/ /\ Owed(r) /\ ~Owed(run[a]) /\ long_in_use < Maximum
             /\ long_in_use' = long_in_use + 1
          \/ ~Owed(r) /\ Owed(run[a]) /\ long_in_use' = long_in_use - 1
    \/ \E h \in Protocols :
        /\ long_in_use' = long_in_use
        /\ \/ h \in native /\ native' = native \ {h} /\ Owed(r) /\ ~Owed(run[a]) /\ r.on = h
           \/ h \notin native /\ native' = native \cup {h} /\ ~Owed(r) /\ Owed(run[a])

\* After close, no operation begins, the initiator stays where it may be, an
\* aclose() of _close ends with its handle gone, and nothing new is opened.
CloseMove(a, r) ==
    /\ closed => (Initiated(run[a]) => Initiated(r)) /\ (Ops(run[a]) = 0 => Ops(r) = 0)
    /\ a \in Handles => /\ run[a] \notin {Idle, Ended} /\ r # Idle
                        /\ r = Ended => a \notin resources'
    /\ sockets' =>
          sockets \/ ~closed \/ run[a].pc \in {"command", "pool", "undo"} \/ native # {}

Move(a, r) ==
    /\ Moves(a, r) /\ LockMove(a, r) /\ PermitMove(a, r) /\ CloseMove(a, r)
    /\ connected' \in BOOLEAN /\ sockets' \in BOOLEAN /\ cancelled' \subseteq Tasks

---------------------------------------------------------------------------
(* What the operators that actions share do to their agent. *)

LEMMA RunFacts ==
    /\ Idle \in Runs /\ Unwind \in Runs /\ Ended \in Runs
    /\ Idle.pc = "idle" /\ Unwind.pc = "unwind" /\ Ended.pc = "ended"
    /\ Idle.fn = "none" /\ Unwind.fn = "none" /\ Ended.fn = "none"
    /\ Idle.on = NULL /\ Unwind.on = NULL /\ Ended.on = NULL
    /\ Idle.exc = "none" /\ Unwind.exc = "cancel" /\ Ended.exc = "none"
BY DEF Idle, Unwind, Ended, Runs, Pcs, Fns

\* What the invariant says of one agent.
LEMMA AgentFacts ==
    ASSUME LifetimeInv, NEW a \in Agents
    PROVE  /\ run[a] \in Runs /\ run[a].pc \in Pcs /\ run[a].on \in Handles \cup {NULL}
           /\ run[a].fn \in Fns /\ run[a].exc \in {"none", "error", "cancel"}
           /\ a \in Tasks => TaskRun(a, run[a]) /\ tasks[a] = Ops(run[a]) /\ a \notin Handles
           /\ a \notin Tasks => a \in Handles /\ HandleRun(a, run[a])
           /\ run \in [Agents -> Runs] /\ tasks \in [Tasks -> 0..2]
<1>1. run \in [Agents -> Runs] /\ tasks \in [Tasks -> 0..2]
  BY DEF LifetimeInv, TypeOK, Runs
<1>2. run[a] \in Runs
  BY <1>1
<1> QED
  BY <1>1, <1>2, HandlesAssumption DEF LifetimeInv, RunsInPlace, OpsExact, Agents, Runs

LEMMA AfterFacts ==
    ASSUME NEW a \in Agents, NEW exc
    PROVE  /\ After(a, exc) \in Runs /\ AgentRun(a, After(a, exc))
           /\ Ops(After(a, exc)) = 0 /\ ~Owed(After(a, exc)) /\ Initiated(After(a, exc))
           /\ \A l : ~Holds(After(a, exc), l)
           /\ a \in Handles => After(a, exc) = Ended
           /\ After(a, exc).pc \in {"idle", "unwind", "ended"}
<1>1. After(a, exc) \in {Idle, Unwind, Ended} /\ (a \in Handles => After(a, exc) = Ended)
  BY DEF After
<1>2. AgentRun(a, After(a, exc))
  BY <1>1 DEF AgentRun, TaskRun, HandleRun, Agents
<1> QED
  BY <1>1, <1>2, RunFacts DEF Ops, Owed, Initiated, Holds, LongFns

\* ops is what tasks is once a is in a method that counts as fn.
OpsIn(a, fn, ops) ==
    /\ ops \in [Tasks -> Int]
    /\ \A t \in Tasks : ops[t] = IF t = a THEN (IF fn = "aclose" THEN 0 ELSE 1) ELSE tasks[t]

LEMMA ReturnMoves ==
    ASSUME LifetimeInv, NEW a \in Agents, NEW fn, NEW exc, NEW ops,
           Return(a, fn, exc, ops), OpsIn(a, fn, ops), a \in Handles => fn = "aclose"
    PROVE  /\ run' = [run EXCEPT ![a] = After(a, exc)]
           /\ tasks' \in [Tasks -> Int]
           /\ \A t \in Tasks : tasks'[t] = IF t = a THEN Ops(After(a, exc)) ELSE tasks[t]
<1>1. Ops(After(a, exc)) = 0
  BY AfterFacts
<1>2. CASE fn = "aclose"
  BY <1>1, <1>2 DEF Return, OpsIn
<1>3. CASE fn # "aclose"
  <2>1. a \in Tasks /\ tasks' = [ops EXCEPT ![a] = @ - 1]
    BY <1>3 DEF Return, Agents
  <2> QED
    BY <1>1, <1>3, <2>1 DEF Return, OpsIn
<1> QED
  BY <1>2, <1>3

\* Where TakeNative and BeginAclose leave the agent.
TakenRun(a, h, fn, exc) ==
    IF h \in native THEN [pc |-> "closing_native", on |-> h, fn |-> fn, exc |-> exc]
    ELSE After(a, exc)

LockRun(h, fn, exc) == [pc |-> "aclose_lock", on |-> h, fn |-> fn, exc |-> exc]

AcloseRun(a, h, fn, exc) == IF h \in PubSubs THEN LockRun(h, fn, exc) ELSE TakenRun(a, h, fn, exc)

\* Who may close a handle, in which method.
MayClose(a, h, fn) ==
    IF a \in Tasks
    THEN \/ h \in PubSubs /\ fn \in {"subscribe", "get_message", "aclose"}
         \/ /\ h \in Monitors \cup Pipelines /\ Owner[h] = a
            /\ fn \in {"enter", "watch", "aclose"}
    ELSE h = a /\ fn = "aclose"

LEMMA TakeNativeMoves ==
    ASSUME LifetimeInv, NEW a \in Agents, NEW h \in Handles, NEW fn \in Fns,
           NEW exc \in {"none", "error", "cancel"}, NEW ops,
           TakeNative(a, h, fn, exc, ops), OpsIn(a, fn, ops), MayClose(a, h, fn),
           run[a].pc = "io" => run[a].on = h
    PROVE  /\ Moves(a, TakenRun(a, h, fn, exc))
           /\ \/ h \in native /\ native' = native \ {h} /\ UNCHANGED resources
              \/ h \notin native /\ UNCHANGED native /\ resources' = resources \ {h}
<1> DEFINE r == TakenRun(a, h, fn, exc)
<1>1. CASE h \in native /\ native' = native \ {h}
           /\ run' = [run EXCEPT ![a] = [pc |-> "closing_native", on |-> h, fn |-> fn, exc |-> exc]]
           /\ tasks' = ops /\ UNCHANGED resources
  <2>1. r = [pc |-> "closing_native", on |-> h, fn |-> fn, exc |-> exc]
    BY <1>1 DEF TakenRun
  <2>2. /\ r \in Runs /\ r.pc = "closing_native" /\ r.on = h /\ r.fn = fn
        /\ run' = [run EXCEPT ![a] = r]
    BY <1>1, <2>1 DEF Runs, Pcs
  <2> HIDE DEF r
  <2>3. AgentRun(a, r)
    BY <2>2 DEF AgentRun, TaskRun, HandleRun, PubSubRun, OwnedRun, MayClose
  <2>4. fn # "none"
    BY DEF MayClose
  <2>5. Ops(r) = IF fn = "aclose" THEN 0 ELSE 1
    BY <2>2, <2>4 DEF Ops
  <2>6. NativeMove(a, r)
    BY <1>1, <2>2 DEF NativeMove
  <2>7. Moves(a, r)
    BY <1>1, <2>2, <2>3, <2>5, <2>6 DEF Moves, OpsIn
  <2> QED
    BY <1>1, <2>7 DEF r
<1>2. CASE h \notin native /\ resources' = resources \ {h} /\ Return(a, fn, exc, ops)
           /\ UNCHANGED native
  <2>1. r = After(a, exc)
    BY <1>2 DEF TakenRun
  <2>2. r \in Runs /\ AgentRun(a, r) /\ r.pc \in {"idle", "unwind", "ended"} /\ ~Owed(r)
    BY <2>1, AfterFacts
  <2>3. a \in Handles => fn = "aclose"
    BY HandlesAssumption DEF MayClose
  <2>4. /\ run' = [run EXCEPT ![a] = r] /\ tasks' \in [Tasks -> Int]
        /\ \A t \in Tasks : tasks'[t] = IF t = a THEN Ops(r) ELSE tasks[t]
    BY <1>2, <2>1, <2>3, ReturnMoves
  <2> HIDE DEF r
  <2>5. NativeMove(a, r)
    BY <1>2, <2>2 DEF NativeMove
  <2>6. Moves(a, r)
    BY <2>2, <2>4, <2>5 DEF Moves
  <2> QED
    BY <1>2, <2>2, <2>6 DEF r
<1> QED
  BY <1>1, <1>2 DEF TakeNative

LEMMA BeginAcloseMoves ==
    ASSUME LifetimeInv, NEW a \in Agents, NEW h \in Handles, NEW fn \in Fns,
           NEW exc \in {"none", "error", "cancel"}, NEW ops,
           BeginAclose(a, h, fn, exc, ops), OpsIn(a, fn, ops), MayClose(a, h, fn),
           run[a].pc = "io" => run[a].on = h,
           run[a].pc = "io" /\ run[a].fn \in Executes => h \notin PubSubs
    PROVE  /\ Moves(a, AcloseRun(a, h, fn, exc))
           /\ \/ h \in PubSubs /\ UNCHANGED <<native, resources>>
              \/ h \notin PubSubs /\ h \in native /\ native' = native \ {h} /\ UNCHANGED resources
              \/ h \notin PubSubs /\ h \notin native /\ UNCHANGED native /\ resources' = resources \ {h}
<1> DEFINE r == AcloseRun(a, h, fn, exc)
<1>1. CASE h \in PubSubs
  <2>1. r = LockRun(h, fn, exc)
    BY <1>1 DEF AcloseRun
  <2>2. /\ r \in Runs /\ r.pc = "aclose_lock" /\ r.on = h /\ r.fn = fn
        /\ run' = [run EXCEPT ![a] = r] /\ tasks' = ops /\ UNCHANGED <<native, resources>>
    BY <1>1, <2>1 DEF LockRun, Runs, Pcs, BeginAclose
  <2> HIDE DEF r
  <2>3. AgentRun(a, r)
    BY <1>1, <2>2, HandlesAssumption
    DEF AgentRun, TaskRun, HandleRun, PubSubRun, MayClose, Protocols
  <2>4. fn # "none"
    BY DEF MayClose
  <2>5. Ops(r) = IF fn = "aclose" THEN 0 ELSE 1
    BY <2>2, <2>4 DEF Ops
  <2>6. NativeMove(a, r)
    BY <1>1, <2>2 DEF NativeMove
  <2>7. Moves(a, r)
    BY <2>2, <2>3, <2>5, <2>6 DEF Moves, OpsIn
  <2> QED
    BY <1>1, <2>2, <2>7 DEF r
<1>2. CASE h \notin PubSubs
  <2>1. r = TakenRun(a, h, fn, exc) /\ TakeNative(a, h, fn, exc, ops)
    BY <1>2 DEF AcloseRun, BeginAclose
  <2> HIDE DEF r
  <2> QED
    BY <1>2, <2>1, TakeNativeMoves DEF r
<1> QED
  BY <1>1, <1>2

\* What the run of an agent that begins to close a handle means.
LEMMA AcloseRunFacts ==
    ASSUME NEW a \in Agents, NEW h \in Handles, NEW fn \in Fns,
           NEW exc \in {"none", "error", "cancel"}, MayClose(a, h, fn)
    PROVE  LET r == AcloseRun(a, h, fn, exc)
               s == TakenRun(a, h, fn, exc) IN
           /\ Initiated(r) /\ Initiated(s)
           /\ Owed(r) <=> h \in native \cap Protocols /\ h \notin PubSubs
           /\ Owed(s) <=> h \in native \cap Protocols
           /\ h \in native => s.on = h /\ (h \notin PubSubs => r.on = h)
           /\ \A l \in Locks : ~Holds(r, l)
           /\ \A l \in Locks : Holds(s, l) <=> l = h /\ h \in native
           /\ fn = "aclose" => Ops(r) = 0 /\ Ops(s) = 0
<1> DEFINE c == [pc |-> "closing_native", on |-> h, fn |-> fn, exc |-> exc]
           r == AcloseRun(a, h, fn, exc)
           s == TakenRun(a, h, fn, exc)
<1>1. fn \notin LongFns
  BY DEF MayClose, LongFns
<1>2. h \in PubSubs <=> h \in Locks
  BY HandlesAssumption DEF Locks, Agents
<1>3. /\ Initiated(s) /\ (Owed(s) <=> h \in native \cap Protocols)
      /\ h \in native => s.on = h
      /\ \A l \in Locks : Holds(s, l) <=> l = h /\ h \in native
      /\ fn = "aclose" => Ops(s) = 0
  <2>1. CASE h \in native
    <3>1. s = c /\ s.pc = "closing_native" /\ s.on = h /\ s.fn = fn
      BY <2>1 DEF TakenRun
    <3> HIDE DEF s
    <3> QED
      BY <1>1, <2>1, <3>1 DEF Initiated, Owed, Holds, Ops
  <2>2. CASE h \notin native
    BY <2>2, AfterFacts DEF TakenRun
  <2> QED
    BY <2>1, <2>2
<1>4. CASE h \in PubSubs
  <2>1. r = LockRun(h, fn, exc) /\ r.pc = "aclose_lock" /\ r.on = h /\ r.fn = fn
    BY <1>4 DEF AcloseRun, LockRun
  <2> HIDE DEF r, s
  <2>2. /\ Initiated(r) /\ ~Owed(r) /\ \A l \in Locks : ~Holds(r, l)
        /\ fn = "aclose" => Ops(r) = 0
    BY <1>1, <2>1 DEF Initiated, Owed, Holds, Ops
  <2> QED
    BY <1>3, <1>4, <2>2 DEF r, s
<1>5. CASE h \notin PubSubs
  <2>1. r = s
    BY <1>5 DEF AcloseRun
  <2> HIDE DEF r, s
  <2>2. \A l \in Locks : ~Holds(r, l)
    BY <1>2, <1>3, <1>5, <2>1
  <2> QED
    BY <1>3, <1>5, <2>1, <2>2 DEF r, s
<1> QED
  BY <1>4, <1>5

---------------------------------------------------------------------------
(* Every action of an agent is a move. *)

\* The types that a move keeps.
LEMMA StateFacts ==
    ASSUME LifetimeInv
    PROVE  /\ closed \in BOOLEAN /\ connected \in BOOLEAN /\ sockets \in BOOLEAN
           /\ long_in_use \in 0..Maximum /\ Maximum \in Nat
           /\ resources \subseteq Handles /\ native \subseteq Handles
           /\ lock \in [Locks -> Agents \cup {NULL}] /\ cancelled \subseteq Tasks
           /\ \A l \in Locks, a \in Agents : lock[l] = a <=> Holds(run[a], l)
           /\ \A a \in Agents : run[a].pc \in {"pool", "closing_native"} => run[a].on \notin native
BY HandlesAssumption DEF LifetimeInv, TypeOK, LocksExact, NativeFree

\* An agent in application code is in no method.
LEMMA AppFacts ==
    ASSUME LifetimeInv, NEW t \in Tasks, run[t].pc \in {"idle", "unwind", "ended"}
    PROVE  /\ run[t] \in {Idle, Unwind, Ended} /\ Ops(run[t]) = 0 /\ tasks[t] = 0
           /\ ~Owed(run[t]) /\ Initiated(run[t]) /\ \A l : ~Holds(run[t], l)
<1>1. run[t] \in {Idle, Unwind, Ended} /\ tasks[t] = Ops(run[t])
  BY AgentFacts DEF TaskRun, PubSubRun, OwnedRun, Agents
<1> QED
  BY <1>1, RunFacts DEF Ops, Owed, Initiated, Holds, LongFns

\* A method that begins in application code, in an operation of its own.
LEMMA StartMove ==
    ASSUME LifetimeInv, NEW t \in Tasks, At(t, "idle"), ~closed, Enter(t),
           NEW pc \in {"command", "connect_lock", "get_lock", "pool", "io"},
           NEW h \in Handles \cup {NULL}, NEW fn \in Fns \ {"none", "aclose"},
           Call(t, pc, h, fn),
           TaskRun(t, [pc |-> pc, on |-> h, fn |-> fn, exc |-> "none"]),
           pc = "pool" => h \notin native /\ h \notin Locks,
           UNCHANGED <<resources, native, lock, connected, cancelled>>, sockets' \in BOOLEAN,
           IF fn \in LongFns \/ (pc = "pool" /\ h \in Protocols)
           THEN CanAcquire /\ long_in_use' = long_in_use + 1
           ELSE UNCHANGED long_in_use
    PROVE  \E r : Move(t, r)
<1> DEFINE r == [pc |-> pc, on |-> h, fn |-> fn, exc |-> "none"]
<1>1. /\ r \in Runs /\ r.pc = pc /\ r.on = h /\ r.fn = fn /\ TaskRun(t, r)
      /\ run' = [run EXCEPT ![t] = r]
  BY DEF Runs, Pcs, Call
<1> HIDE DEF r
<1>2. /\ run[t].pc = "idle" /\ tasks[t] = 0 /\ Ops(run[t]) = 0 /\ ~Owed(run[t])
      /\ \A l : ~Holds(run[t], l)
  BY AppFacts DEF At
<1>3. Ops(r) = 1
  BY <1>1 DEF Ops
<1>4. tasks \in [Tasks -> 0..2] /\ t \in Agents /\ t \notin Handles
  BY AgentFacts DEF Agents
<1>5. tasks' \in [Tasks -> Int] /\ \A u \in Tasks : tasks'[u] = IF u = t THEN Ops(r) ELSE tasks[u]
  BY <1>2, <1>3, <1>4 DEF Enter
<1>6. NativeMove(t, r)
  BY <1>1, <1>2 DEF NativeMove
<1>7. Moves(t, r)
  BY <1>1, <1>5, <1>6 DEF Moves, AgentRun
<1>8. LockMove(t, r)
  BY <1>1, <1>2, StateFacts DEF LockMove, Holds
<1>9. Owed(r) <=> fn \in LongFns \/ (pc = "pool" /\ h \in Protocols)
  BY <1>1 DEF Owed
<1>10. PermitMove(t, r)
  BY <1>2, <1>9 DEF PermitMove, CanAcquire
<1>11. CloseMove(t, r)
  BY <1>4 DEF CloseMove
<1> QED
  BY <1>7, <1>8, <1>10, <1>11, StateFacts DEF Move

LEMMA CallMoves ==
    ASSUME LifetimeInv, NEW t \in Tasks,
           \/ \E fn \in {"command", "command_long"} : Command(t, fn)
           \/ Connect(t)
           \/ \E h \in PubSubs, fn \in {"subscribe", "get_message", "ping"} : PubSubCall(t, h, fn)
           \/ \E h \in Monitors \cap Owned(t) : MonitorEnter(t, h) \/ NativeCall(t, h, "next_command")
           \/ \E h \in Pipelines \cap Owned(t) :
               \/ \E fn \in {"watch", "execute", "execute_long"} : PipelineReady(t, h, fn)
               \/ \E fn \in {"watch", "immediate", "unwatch", "execute"} : NativeCall(t, h, fn)
    PROVE  \E r : Move(t, r)
<1> USE DEF lifecycle
<1>1. sockets \in BOOLEAN /\ long_in_use \in Nat
  BY StateFacts
<1>2. ASSUME NEW pc, NEW h, NEW fn, NEW exc
      PROVE  LET r == [pc |-> pc, on |-> h, fn |-> fn, exc |-> exc]
             IN  r.pc = pc /\ r.on = h /\ r.fn = fn
  OBVIOUS
<1>3. ASSUME NEW fn \in {"command", "command_long"}, Command(t, fn)
      PROVE  \E r : Move(t, r)
  <2>1. TaskRun(t, [pc |-> "command", on |-> NULL, fn |-> fn, exc |-> "none"])
    BY <1>2 DEF TaskRun
  <2>2. fn \in Fns \ {"none", "aclose"} /\ (fn \in LongFns <=> fn = "command_long")
    BY DEF Fns, LongFns
  <2> QED
    BY <1>1, <1>3, <2>1, <2>2, StartMove DEF Command
<1>4. ASSUME Connect(t)
      PROVE  \E r : Move(t, r)
  <2>1. TaskRun(t, [pc |-> "connect_lock", on |-> NULL, fn |-> "connect", exc |-> "none"])
    BY <1>2 DEF TaskRun
  <2>2. "connect" \in Fns \ {"none", "aclose"} /\ "connect" \notin LongFns
    BY DEF Fns, LongFns
  <2> QED
    BY <1>1, <1>4, <2>1, <2>2, StartMove DEF Connect
<1>5. ASSUME NEW h \in PubSubs, NEW fn \in {"subscribe", "get_message", "ping"}, PubSubCall(t, h, fn)
      PROVE  \E r : Move(t, r)
  <2>1. TaskRun(t, [pc |-> "get_lock", on |-> h, fn |-> fn, exc |-> "none"])
    BY <1>2 DEF TaskRun, PubSubRun
  <2>2. fn \in Fns \ {"none", "aclose"} /\ fn \notin LongFns /\ h \in Handles
    BY DEF Fns, LongFns, Handles, Protocols
  <2> QED
    BY <1>1, <1>5, <2>1, <2>2, StartMove DEF PubSubCall
<1>6. ASSUME NEW h \in Monitors \cap Owned(t), MonitorEnter(t, h)
      PROVE  \E r : Move(t, r)
  <2>1. TaskRun(t, [pc |-> "pool", on |-> h, fn |-> "enter", exc |-> "none"])
    BY <1>2 DEF TaskRun, OwnedRun, Owned
  <2>2. /\ "enter" \in Fns \ {"none", "aclose"} /\ h \in Handles /\ h \in Protocols
        /\ h \notin Locks
    BY HandlesAssumption DEF Fns, Handles, Protocols, Locks, Agents
  <2> QED
    BY <1>1, <1>6, <2>1, <2>2, StartMove DEF MonitorEnter, CanAcquire
<1>7. ASSUME NEW h \in Pipelines \cap Owned(t), NEW fn \in {"watch", "execute", "execute_long"},
             PipelineReady(t, h, fn)
      PROVE  \E r : Move(t, r)
  <2>1. TaskRun(t, [pc |-> "pool", on |-> h, fn |-> fn, exc |-> "none"])
    BY <1>2 DEF TaskRun, OwnedRun, Owned, Executes
  <2>2. /\ fn \in Fns \ {"none", "aclose"} /\ (fn \in LongFns <=> fn = "execute_long")
        /\ h \in Handles /\ h \notin Protocols /\ h \notin Locks
    BY HandlesAssumption DEF Fns, LongFns, Handles, Protocols, Locks, Agents
  <2> QED
    BY <1>1, <1>7, <2>1, <2>2, StartMove DEF PipelineReady
<1>8. ASSUME NEW h \in Owned(t), NEW fn, NativeCall(t, h, fn),
             \/ h \in Monitors /\ fn = "next_command"
             \/ h \in Pipelines /\ fn \in {"watch", "immediate", "unwatch", "execute"}
      PROVE  \E r : Move(t, r)
  <2>1. TaskRun(t, [pc |-> "io", on |-> h, fn |-> fn, exc |-> "none"])
    BY <1>2, <1>8 DEF TaskRun, OwnedRun, Owned, Executes
  <2>2. fn \in Fns \ {"none", "aclose"} /\ fn \notin LongFns /\ h \in Handles
    BY <1>8 DEF Fns, LongFns, Handles, Protocols
  <2> QED
    BY <1>1, <1>8, <2>1, <2>2, StartMove DEF NativeCall
<1> QED
  BY <1>3, <1>4, <1>5, <1>6, <1>7, <1>8

\* What goes with the end of an await: locks and a permit are given back, and
\* nothing is opened that close would not see.
LetsGo(a) ==
    /\ lock' \in [Locks -> Agents \cup {NULL}]
    /\ \A l \in Locks : lock'[l] = IF Holds(run[a], l) THEN NULL ELSE lock[l]
    /\ long_in_use' = long_in_use - (IF Owed(run[a]) THEN 1 ELSE 0)
    /\ sockets' =>
          sockets \/ ~closed \/ run[a].pc \in {"command", "pool", "undo"} \/ native # {}
    /\ connected' \in BOOLEAN /\ sockets' \in BOOLEAN /\ cancelled' \subseteq Tasks

\* A method returns or raises.
LEMMA ReturnMove ==
    ASSUME LifetimeInv, NEW a \in Agents, NEW fn, NEW exc, NEW ops,
           Return(a, fn, exc, ops), OpsIn(a, fn, ops), LetsGo(a),
           ~(run[a].pc = "io" /\ run[a].fn \in Executes),
           UNCHANGED native,
           \/ resources' = resources
           \/ \E h \in Handles \ native : resources' = resources \ {h},
           a \in Handles => fn = "aclose" /\ run[a] \notin {Idle, Ended} /\ a \notin resources'
    PROVE  \E r : Move(a, r)
<1> DEFINE r == After(a, exc)
<1>1. /\ r \in Runs /\ AgentRun(a, r) /\ Ops(r) = 0 /\ ~Owed(r) /\ Initiated(r)
      /\ \A l : ~Holds(r, l)
      /\ a \in Handles => r = Ended
      /\ r.pc \in {"idle", "unwind", "ended"}
  BY AfterFacts
<1>2. /\ run' = [run EXCEPT ![a] = r] /\ tasks' \in [Tasks -> Int]
      /\ \A t \in Tasks : tasks'[t] = IF t = a THEN Ops(r) ELSE tasks[t]
  BY ReturnMoves
<1> HIDE DEF r
<1>3. NativeMove(a, r)
  BY <1>1 DEF NativeMove
<1>4. Moves(a, r)
  BY <1>1, <1>2, <1>3 DEF Moves
<1>5. LockMove(a, r)
  BY <1>1 DEF LockMove, LetsGo
<1>6. PermitMove(a, r)
  BY <1>1, StateFacts DEF PermitMove, LetsGo
<1>7. CloseMove(a, r)
  BY <1>1, RunFacts DEF CloseMove, LetsGo
<1> QED
  BY <1>4, <1>5, <1>6, <1>7 DEF Move, LetsGo

\* A method ends by closing its handle, or aclose() is called.
LEMMA AcloseMove ==
    ASSUME LifetimeInv, NEW t \in Tasks, NEW h \in Handles, NEW fn \in Fns,
           NEW exc \in {"none", "error", "cancel"}, NEW ops,
           BeginAclose(t, h, fn, exc, ops), OpsIn(t, fn, ops), MayClose(t, h, fn), LetsGo(t),
           run[t].pc = "io" => run[t].on = h,
           run[t].pc = "io" /\ run[t].fn \in Executes => h \notin PubSubs,
           Owed(run[t]) => h \notin native \/ h \notin Monitors,
           fn = "aclose" \/ Ops(run[t]) # 0
    PROVE  \E r : Move(t, r)
<1> DEFINE r == AcloseRun(t, h, fn, exc)
<1>1. t \in Agents /\ t \notin Handles
  BY HandlesAssumption DEF Agents
<1>2. /\ Moves(t, r)
      /\ \/ h \in PubSubs /\ UNCHANGED <<native, resources>>
         \/ h \notin PubSubs /\ h \in native /\ native' = native \ {h} /\ UNCHANGED resources
         \/ h \notin PubSubs /\ h \notin native /\ UNCHANGED native /\ resources' = resources \ {h}
  BY <1>1, BeginAcloseMoves
<1>3. /\ Initiated(r) /\ (Owed(r) <=> h \in native \cap Protocols /\ h \notin PubSubs)
      /\ h \in native => (h \notin PubSubs => r.on = h)
      /\ \A l \in Locks : ~Holds(r, l)
      /\ fn = "aclose" => Ops(r) = 0
  BY <1>1, AcloseRunFacts
<1> HIDE DEF r
<1>4. LockMove(t, r)
  BY <1>3 DEF LockMove, LetsGo
<1>5. PermitMove(t, r)
  <2>1. long_in_use \in Nat
    BY StateFacts
  <2>2. CASE h \in native \cap Protocols /\ h \notin PubSubs
    <3>1. h \in Monitors /\ ~Owed(run[t]) /\ Owed(r) /\ r.on = h /\ native' = native \ {h}
      BY <1>2, <1>3, <2>2 DEF Protocols
    <3>2. long_in_use' = long_in_use
      BY <2>1, <3>1 DEF LetsGo
    <3> QED
      BY <2>2, <3>1, <3>2 DEF PermitMove
  <2>3. CASE ~(h \in native \cap Protocols /\ h \notin PubSubs)
    <3>1. ~Owed(r) /\ native' \cap Protocols = native \cap Protocols
      BY <1>2, <1>3, <2>3
    <3> QED
      BY <2>1, <3>1 DEF PermitMove, LetsGo
  <2> QED
    BY <2>2, <2>3
<1>6. CloseMove(t, r)
  BY <1>1, <1>3 DEF CloseMove, LetsGo
<1> QED
  BY <1>2, <1>4, <1>5, <1>6 DEF Move, LetsGo

\* The operations of a task before and after it leaves one.
LEMMA OpsFacts ==
    ASSUME LifetimeInv, NEW t \in Tasks
    PROVE  /\ run[t].pc # "ping" /\ run[t].fn # "none" => OpsIn(t, run[t].fn, tasks)
           /\ run[t].pc # "ping" /\ run[t].fn \in {"none", "aclose"} => OpsIn(t, "aclose", tasks)
           /\ run[t].pc # "ping" /\ run[t].fn \notin {"none", "aclose"} => OpsIn(t, "aclose", Exited(t))
           /\ run[t].pc = "ping" => OpsIn(t, "connect", Exited(t))
<1>1. t \in Agents
  BY DEF Agents
<1>2. tasks[t] = Ops(run[t]) /\ tasks \in [Tasks -> 0..2]
  BY <1>1, AgentFacts
<1>3. /\ Exited(t) \in [Tasks -> Int] /\ Exited(t)[t] = tasks[t] - 1
      /\ \A u \in Tasks \ {t} : Exited(t)[u] = tasks[u]
  BY <1>2 DEF Exited
<1>4. tasks \in [Tasks -> Int]
  BY <1>2
<1> QED
  BY <1>2, <1>3, <1>4 DEF OpsIn, Ops

\* The end of an await of t that no lock goes with.
LEMMA LetsGoUnlocked ==
    ASSUME LifetimeInv, NEW t \in Tasks, UNCHANGED <<lock, connected>>,
           run[t].pc \notin {"ping", "undo", "pool", "closing_native"} \/ run[t].on \notin Locks,
           long_in_use' = long_in_use - (IF Owed(run[t]) THEN 1 ELSE 0),
           sockets' \in BOOLEAN,
           sockets' =>
              sockets \/ ~closed \/ run[t].pc \in {"command", "pool", "undo"} \/ native # {},
           Delivered(t) \/ UNCHANGED cancelled
    PROVE  LetsGo(t)
BY StateFacts DEF LetsGo, Holds, Delivered

LEMMA OutcomeFacts ==
    ASSUME NEW a, NEW how \in Outcomes(a)
    PROVE  how \in {"none", "error", "cancel"}
BY DEF Outcomes

LEMMA CommandEndsMoves ==
    ASSUME LifetimeInv, NEW t \in Tasks, CommandEnds(t)
    PROVE  \E r : Move(t, r)
<1>1. t \in Agents /\ t \notin Handles
  BY HandlesAssumption DEF Agents
<1>2. /\ run[t].pc = "command" /\ run[t].on = NULL
      /\ run[t].fn \in {"command", "command_long"}
  BY <1>1, AgentFacts, RunFacts DEF CommandEnds, At, TaskRun, PubSubRun, OwnedRun
<1>3. PICK how \in Outcomes(t) :
         Return(t, run[t].fn, how, tasks) /\ sockets' = (sockets \/ how = "none")
  BY DEF CommandEnds
<1>4. Owed(run[t]) <=> run[t].fn = "command_long"
  BY <1>2 DEF Owed, LongFns
<1>5. LetsGo(t)
  BY <1>2, <1>3, <1>4, LetsGoUnlocked DEF CommandEnds, lifecycle
<1>6. OpsIn(t, run[t].fn, tasks)
  BY <1>2, OpsFacts
<1> QED
  BY <1>1, <1>2, <1>3, <1>5, <1>6, ReturnMove DEF CommandEnds

---------------------------------------------------------------------------

\* A step of connect, between its lock and its undo.
LEMMA ConnectFacts ==
    ASSUME LifetimeInv, NEW t \in Tasks, run[t].pc \in {"connect_lock", "ping", "undo"}
    PROVE  /\ run[t].on = NULL /\ run[t].fn = "connect" /\ ~Owed(run[t])
           /\ t \in Agents /\ t \notin Handles /\ NULL \in Locks
           /\ \A l \in Locks : Holds(run[t], l) <=> l = NULL /\ run[t].pc \in {"ping", "undo"}
           /\ ~Initiated(run[t]) /\ Ops(run[t]) # 0
<1>1. t \in Agents /\ t \notin Handles /\ NULL \in Locks
  BY HandlesAssumption DEF Agents, Locks
<1>2. run[t].on = NULL /\ run[t].fn = "connect"
  BY <1>1, AgentFacts, RunFacts DEF TaskRun, PubSubRun, OwnedRun
<1> QED
  BY <1>1, <1>2 DEF Owed, LongFns, Holds, Initiated, Ops

\* A step of connect into ping or undo.
LEMMA ConnectMove ==
    ASSUME LifetimeInv, NEW t \in Tasks, run[t].pc \in {"connect_lock", "ping"},
           NEW pc \in {"ping", "undo"}, NEW exc \in {"none", "error", "cancel"},
           run' = [run EXCEPT ![t].pc = pc, ![t].exc = exc],
           tasks' \in [Tasks -> Int],
           \A u \in Tasks \ {t} : tasks'[u] = tasks[u],
           tasks'[t] = IF pc = "ping" THEN 2 ELSE 1,
           IF run[t].pc = "connect_lock" THEN lock[NULL] = NULL /\ lock' = [lock EXCEPT ![NULL] = t]
           ELSE UNCHANGED lock,
           UNCHANGED <<native, resources, long_in_use, connected>>,
           sockets' \in BOOLEAN, sockets' => sockets \/ ~closed, cancelled' \subseteq Tasks
    PROVE  \E r : Move(t, r)
<1> DEFINE r == [run[t] EXCEPT !.pc = pc, !.exc = exc]
<1>1. /\ run[t].on = NULL /\ run[t].fn = "connect" /\ ~Owed(run[t])
      /\ t \in Agents /\ t \notin Handles /\ NULL \in Locks
      /\ \A l \in Locks : Holds(run[t], l) <=> l = NULL /\ run[t].pc \in {"ping", "undo"}
      /\ ~Initiated(run[t]) /\ Ops(run[t]) # 0
  BY ConnectFacts
<1>2. run[t] \in Runs /\ run \in [Agents -> Runs]
  BY <1>1, AgentFacts
<1>3. /\ r \in Runs /\ r.pc = pc /\ r.on = NULL /\ r.fn = "connect"
      /\ run' = [run EXCEPT ![t] = r]
  BY <1>1, <1>2 DEF Runs, Pcs
<1> HIDE DEF r
<1>4. AgentRun(t, r) /\ ~Owed(r) /\ (Ops(r) = IF pc = "ping" THEN 2 ELSE 1)
  BY <1>3 DEF AgentRun, TaskRun, Owed, LongFns, Ops
<1>5. NativeMove(t, r)
  BY <1>3 DEF NativeMove
<1>6. Moves(t, r)
  BY <1>3, <1>4, <1>5 DEF Moves
<1>7. \A l \in Locks : Holds(r, l) <=> l = NULL
  BY <1>3 DEF Holds
<1>8. LockMove(t, r)
  <2>1. lock \in [Locks -> Agents \cup {NULL}] /\ (run[t].pc = "ping" => lock[NULL] = t)
    BY <1>1, StateFacts
  <2>2. CASE run[t].pc = "connect_lock"
    BY <1>1, <1>7, <2>1, <2>2 DEF LockMove
  <2>3. CASE run[t].pc = "ping"
    BY <1>1, <1>7, <2>1, <2>3 DEF LockMove
  <2> QED
    BY <2>2, <2>3
<1>9. PermitMove(t, r)
  BY <1>1, <1>4 DEF PermitMove
<1>10. CloseMove(t, r)
  BY <1>1 DEF CloseMove
<1> QED
  BY <1>6, <1>8, <1>9, <1>10, StateFacts DEF Move

LEMMA ConnectMoves ==
    ASSUME LifetimeInv, NEW t \in Tasks, ConnectLocked(t) \/ PingEnds(t) \/ UndoEnds(t)
    PROVE  \E r : Move(t, r)
<1> USE DEF lifecycle
<1>1. run[t].pc \in {"connect_lock", "ping", "undo"}
  BY DEF ConnectLocked, PingEnds, UndoEnds, At
<1>2. /\ run[t].on = NULL /\ run[t].fn = "connect" /\ ~Owed(run[t])
      /\ t \in Agents /\ t \notin Handles /\ NULL \in Locks
      /\ \A l \in Locks : Holds(run[t], l) <=> l = NULL /\ run[t].pc \in {"ping", "undo"}
  BY <1>1, ConnectFacts
<1>3. /\ tasks \in [Tasks -> 0..2] /\ tasks[t] = Ops(run[t]) /\ run[t] \in Runs
      /\ run \in [Agents -> Runs] /\ run[t].exc \in {"none", "error", "cancel"}
  BY <1>2, AgentFacts
<1>4. tasks[t] = IF run[t].pc = "ping" THEN 2 ELSE 1
  BY <1>2, <1>3 DEF Ops
<1>5. /\ closed \in BOOLEAN /\ connected \in BOOLEAN /\ sockets \in BOOLEAN /\ long_in_use \in Nat
      /\ lock \in [Locks -> Agents \cup {NULL}] /\ cancelled \subseteq Tasks
  BY StateFacts
<1>6. CASE ConnectLocked(t)
  <2>1. run[t].pc = "connect_lock" /\ lock[NULL] = NULL
    BY <1>6 DEF ConnectLocked, At
  <2>2. CASE connected /\ Return(t, "connect", "none", tasks) /\ UNCHANGED <<lock, sockets>>
    <3>1. LetsGo(t)
      BY <1>2, <1>5, <1>6, <2>1, <2>2, LetsGoUnlocked DEF ConnectLocked
    <3>2. OpsIn(t, "connect", tasks)
      BY <1>2, <2>1, OpsFacts
    <3> QED
      BY <1>2, <1>6, <2>1, <2>2, <3>1, <3>2, ReturnMove DEF ConnectLocked
  <2>3. CASE ~closed /\ lock' = [lock EXCEPT ![NULL] = t] /\ Enter(t) /\ sockets' = TRUE
             /\ Goto(t, "ping")
    <3>1. run' = [run EXCEPT ![t].pc = "ping", ![t].exc = run[t].exc]
      BY <1>2, <1>3, <2>3 DEF Goto, Runs
    <3>2. /\ tasks' \in [Tasks -> Int] /\ tasks'[t] = 2
          /\ \A u \in Tasks \ {t} : tasks'[u] = tasks[u]
      BY <1>3, <1>4, <2>1, <2>3 DEF Enter
    <3> QED
      BY <1>3, <1>5, <1>6, <2>1, <2>3, <3>1, <3>2, ConnectMove DEF ConnectLocked
  <2>4. CASE lock' = [lock EXCEPT ![NULL] = t]
             /\ run' = [run EXCEPT ![t].pc = "undo", ![t].exc = "error"]
             /\ UNCHANGED <<tasks, sockets>>
    <3>1. /\ tasks' \in [Tasks -> Int] /\ tasks'[t] = 1
          /\ \A u \in Tasks \ {t} : tasks'[u] = tasks[u]
      BY <1>3, <1>4, <2>1, <2>4
    <3> QED
      BY <1>5, <1>6, <2>1, <2>4, <3>1, ConnectMove DEF ConnectLocked
  <2> QED
    BY <1>6, <2>2, <2>3, <2>4 DEF ConnectLocked
<1>7. CASE PingEnds(t)
  <2>1. run[t].pc = "ping" /\ cancelled' \subseteq Tasks
    BY <1>5, <1>7 DEF PingEnds, At, Delivered
  <2>2. PICK how \in Outcomes(t) :
           \/ /\ connected' = TRUE /\ lock' = [lock EXCEPT ![NULL] = NULL]
              /\ Return(t, "connect", "none", Exited(t))
           \/ /\ run' = [run EXCEPT ![t].pc = "undo", ![t].exc = how]
              /\ tasks' = Exited(t) /\ UNCHANGED <<connected, lock>>
    BY <1>7 DEF PingEnds
  <2>3. CASE /\ connected' = TRUE /\ lock' = [lock EXCEPT ![NULL] = NULL]
             /\ Return(t, "connect", "none", Exited(t))
    <3>1. LetsGo(t)
      BY <1>2, <1>5, <1>7, <2>1, <2>3 DEF LetsGo, PingEnds
    <3>2. OpsIn(t, "connect", Exited(t))
      BY <2>1, OpsFacts
    <3> QED
      BY <1>2, <1>7, <2>1, <2>3, <3>1, <3>2, ReturnMove DEF PingEnds
  <2>4. CASE /\ run' = [run EXCEPT ![t].pc = "undo", ![t].exc = how]
             /\ tasks' = Exited(t) /\ UNCHANGED <<connected, lock>>
    <3>1. /\ tasks' \in [Tasks -> Int] /\ tasks'[t] = 1
          /\ \A u \in Tasks \ {t} : tasks'[u] = tasks[u]
      BY <1>3, <1>4, <2>1, <2>4 DEF Exited
    <3>2. how \in {"none", "error", "cancel"}
      BY <2>2, OutcomeFacts
    <3> QED
      BY <1>5, <1>7, <2>1, <2>4, <3>1, <3>2, ConnectMove DEF PingEnds
  <2> QED
    BY <2>2, <2>3, <2>4
<1>8. CASE UndoEnds(t)
  <2>1. run[t].pc = "undo" /\ cancelled' \subseteq Tasks
    BY <1>5, <1>8 DEF UndoEnds, At, Delivered
  <2>2. PICK exc : Return(t, "connect", exc, tasks)
    BY <1>8 DEF UndoEnds
  <2>3. sockets' \in BOOLEAN
    BY <1>5, <1>8 DEF UndoEnds
  <2>4. LetsGo(t)
    BY <1>2, <1>5, <1>8, <2>1, <2>3 DEF LetsGo, UndoEnds
  <2>5. OpsIn(t, "connect", tasks)
    BY <1>2, <2>1, OpsFacts
  <2> QED
    BY <1>2, <1>8, <2>1, <2>2, <2>4, <2>5, ReturnMove DEF UndoEnds
<1> QED
  BY <1>6, <1>7, <1>8

---------------------------------------------------------------------------

LEMMA HandleFacts ==
    /\ \A t \in Tasks : t \in Agents /\ t \notin Handles
    /\ \A h \in Handles : h \in Agents /\ h \notin Tasks /\ h # NULL /\ (h \in Locks <=> h \in PubSubs)
    /\ \A h \in PubSubs : h \in Protocols /\ h \notin Monitors \cup Pipelines
    /\ \A h \in Monitors : h \in Protocols /\ h \notin PubSubs \cup Pipelines
    /\ \A h \in Pipelines : h \notin Protocols
    /\ PubSubs \subseteq Handles /\ Monitors \subseteq Handles /\ Pipelines \subseteq Handles
BY HandlesAssumption DEF Agents, Handles, Protocols, Locks

\* A task in _get of a subscription, waiting for its lock or making its pool.
LEMMA GetFacts ==
    ASSUME LifetimeInv, NEW t \in Tasks,
           run[t].pc = "get_lock" \/ (run[t].pc = "pool" /\ run[t].on \in PubSubs)
    PROVE  /\ run[t].on \in PubSubs /\ run[t].fn \in {"subscribe", "get_message", "ping"}
           /\ Ops(run[t]) = 1 /\ ~Initiated(run[t])
           /\ Owed(run[t]) <=> run[t].pc = "pool"
           /\ \A l \in Locks : Holds(run[t], l) <=> l = run[t].on /\ run[t].pc = "pool"
<1>1. run[t].on \in PubSubs /\ run[t].fn \in {"subscribe", "get_message", "ping"}
  BY AgentFacts, RunFacts, HandleFacts DEF TaskRun, PubSubRun, OwnedRun
<1> QED
  BY <1>1, HandleFacts DEF Ops, Initiated, Owed, LongFns, Holds

LEMMA GetFailsMove ==
    ASSUME LifetimeInv, NEW t \in Tasks, NEW exc \in {"none", "error", "cancel"},
           run[t].pc = "get_lock" \/ (run[t].pc = "pool" /\ run[t].on \in PubSubs),
           GetFails(t, exc), LetsGo(t)
    PROVE  \E r : Move(t, r)
<1>1. /\ run[t].on \in PubSubs /\ run[t].fn \in {"subscribe", "get_message", "ping"}
      /\ Ops(run[t]) = 1
  BY GetFacts
<1>2. OpsIn(t, run[t].fn, tasks)
  BY <1>1, OpsFacts
<1>3. t \in Agents /\ t \notin Handles /\ run[t].on \in Handles /\ run[t].on \notin Monitors
  BY <1>1, HandleFacts
<1>4. CASE run[t].fn = "subscribe"
  <2>1. BeginAclose(t, run[t].on, "subscribe", exc, tasks)
    BY <1>4 DEF GetFails
  <2>2. MayClose(t, run[t].on, "subscribe") /\ "subscribe" \in Fns
    BY <1>1 DEF MayClose, Fns
  <2> QED
    BY <1>1, <1>2, <1>3, <1>4, <2>1, <2>2, AcloseMove
<1>5. CASE run[t].fn # "subscribe"
  <2>1. Return(t, run[t].fn, exc, tasks) /\ UNCHANGED <<native, resources>>
    BY <1>5 DEF GetFails
  <2> QED
    BY <1>2, <1>3, <2>1, ReturnMove
<1> QED
  BY <1>4, <1>5

LEMMA GetLockedMoves ==
    ASSUME LifetimeInv, NEW t \in Tasks, GetLocked(t)
    PROVE  \E r : Move(t, r)
<1> DEFINE h == run[t].on
<1>1. run[t].pc = "get_lock" /\ lock[h] = NULL /\ UNCHANGED <<closed, closer, connected, cancelled>>
  BY DEF GetLocked, At, lifecycle
<1>2. /\ h \in PubSubs /\ run[t].fn \in {"subscribe", "get_message", "ping"}
      /\ Ops(run[t]) = 1 /\ ~Initiated(run[t]) /\ ~Owed(run[t])
      /\ \A l \in Locks : ~Holds(run[t], l)
  BY <1>1, GetFacts
<1>3. /\ t \in Agents /\ t \notin Handles /\ h \in Handles /\ h \in Locks /\ h \in Protocols
      /\ h # NULL
  BY <1>2, HandleFacts
<1>4. /\ run \in [Agents -> Runs] /\ run[t] \in Runs /\ tasks \in [Tasks -> 0..2]
      /\ tasks[t] = 1
  BY <1>2, <1>3, AgentFacts
<1>5. ASSUME NEW pc \in {"io", "pool"}, Goto(t, pc), UNCHANGED <<tasks, native, resources>>,
             pc = "pool" => h \notin native
      PROVE  LET r == [run[t] EXCEPT !.pc = pc] IN
             /\ Moves(t, r) /\ Ops(r) = 1 /\ r.on = h /\ r.pc = pc /\ (Owed(r) <=> pc = "pool")
  <2> DEFINE r == [run[t] EXCEPT !.pc = pc]
  <2>1. /\ r \in Runs /\ r.pc = pc /\ r.on = h /\ r.fn = run[t].fn
        /\ run' = [run EXCEPT ![t] = r]
    BY <1>3, <1>4, <1>5 DEF Runs, Pcs, Goto
  <2> HIDE DEF r
  <2>2. AgentRun(t, r) /\ Ops(r) = 1 /\ (Owed(r) <=> pc = "pool")
    BY <1>2, <1>3, <1>5, <2>1 DEF AgentRun, TaskRun, PubSubRun, Ops, Owed, LongFns
  <2>3. NativeMove(t, r)
    BY <1>1, <1>5, <2>1 DEF NativeMove
  <2>4. Moves(t, r)
    BY <1>4, <1>5, <2>1, <2>2, <2>3 DEF Moves
  <2> QED
    BY <2>1, <2>2, <2>4 DEF r
<1>6. CASE /\ Goto(t, "io")
           /\ UNCHANGED <<long_in_use, tasks, lock, sockets, native, resources>>
  <2> DEFINE r == [run[t] EXCEPT !.pc = "io"]
  <2>1. Moves(t, r) /\ Ops(r) = 1 /\ r.pc = "io" /\ ~Owed(r)
    BY <1>5, <1>6
  <2> HIDE DEF r
  <2>2. LockMove(t, r)
    BY <1>2, <1>6, <2>1, StateFacts DEF LockMove, Holds
  <2>3. PermitMove(t, r) /\ CloseMove(t, r)
    BY <1>2, <1>3, <1>6, <2>1 DEF PermitMove, CloseMove
  <2> QED
    BY <1>1, <1>6, <2>1, <2>2, <2>3, StateFacts DEF Move
<1>7. CASE /\ CanAcquire /\ h \notin native
           /\ long_in_use' = long_in_use + 1 /\ lock' = [lock EXCEPT ![h] = t] /\ sockets' = TRUE
           /\ Goto(t, "pool") /\ UNCHANGED <<tasks, native, resources>>
  <2> DEFINE r == [run[t] EXCEPT !.pc = "pool"]
  <2>1. Moves(t, r) /\ Ops(r) = 1 /\ r.pc = "pool" /\ r.on = h /\ Owed(r)
    BY <1>5, <1>7
  <2> HIDE DEF r
  <2>2. LockMove(t, r)
    BY <1>1, <1>2, <1>3, <1>7, <2>1, StateFacts DEF LockMove, Holds
  <2>3. PermitMove(t, r) /\ CloseMove(t, r)
    BY <1>2, <1>3, <1>7, <2>1 DEF PermitMove, CloseMove, CanAcquire
  <2> QED
    BY <1>1, <1>7, <2>1, <2>2, <2>3, StateFacts DEF Move
<1>8. CASE GetFails(t, "error") /\ UNCHANGED <<long_in_use, lock, sockets>>
  <2>1. LetsGo(t)
    <3>1. sockets \in BOOLEAN /\ long_in_use \in Nat
      BY StateFacts
    <3> QED
      BY <1>1, <1>2, <1>8, <3>1, LetsGoUnlocked
  <2> QED
    BY <1>1, <1>8, <2>1, GetFailsMove
<1> QED
  BY <1>6, <1>7, <1>8 DEF GetLocked

\* A task whose pool or ready() is on its way.
LEMMA PoolFacts ==
    ASSUME LifetimeInv, NEW t \in Tasks, run[t].pc = "pool"
    PROVE  /\ run[t].on \in Handles /\ run[t].on \notin native
           /\ \/ run[t].on \in PubSubs /\ run[t].fn \in {"subscribe", "get_message", "ping"}
              \/ run[t].on \in Monitors /\ run[t].fn = "enter"
              \/ run[t].on \in Pipelines /\ run[t].fn \in Executes \cup {"watch"}
           /\ run[t].on \notin PubSubs => Owner[run[t].on] = t
           /\ Ops(run[t]) = 1 /\ ~Initiated(run[t])
           /\ Owed(run[t]) <=> run[t].on \in Protocols \/ run[t].fn = "execute_long"
           /\ \A l \in Locks : Holds(run[t], l) <=> l = run[t].on
<1>1. TaskRun(t, run[t])
  BY AgentFacts, HandleFacts
<1>2. PubSubRun(run[t]) \/ OwnedRun(t, run[t])
  BY <1>1, RunFacts DEF TaskRun
<1>3. /\ \/ run[t].on \in PubSubs /\ run[t].fn \in {"subscribe", "get_message", "ping"}
         \/ run[t].on \in Monitors /\ run[t].fn = "enter"
         \/ run[t].on \in Pipelines /\ run[t].fn \in Executes \cup {"watch"}
      /\ run[t].on \notin PubSubs => Owner[run[t].on] = t
  BY <1>2 DEF PubSubRun, OwnedRun
<1>4. run[t].on \in Handles /\ run[t].on \notin native
  BY <1>3, HandleFacts, StateFacts
<1>5. Owed(run[t]) <=> run[t].on \in Protocols \/ run[t].fn = "execute_long"
  BY <1>3, HandleFacts DEF Owed, LongFns, Executes
<1>6. Ops(run[t]) = 1 /\ ~Initiated(run[t])
  BY <1>3 DEF Ops, Initiated, Executes
<1> QED
  BY <1>3, <1>4, <1>5, <1>6 DEF Holds

LEMMA PoolEndsMoves ==
    ASSUME LifetimeInv, NEW t \in Tasks, PoolEnds(t)
    PROVE  \E r : Move(t, r)
<1> DEFINE h == run[t].on
           fn == run[t].fn
<1>1. run[t].pc = "pool" /\ UNCHANGED <<closed, closer, connected>> /\ Delivered(t)
  BY DEF PoolEnds, At, lifecycle
<1>2. /\ h \in Handles /\ h \notin native
      /\ \/ h \in PubSubs /\ fn \in {"subscribe", "get_message", "ping"}
         \/ h \in Monitors /\ fn = "enter"
         \/ h \in Pipelines /\ fn \in Executes \cup {"watch"}
      /\ h \notin PubSubs => Owner[h] = t
      /\ Ops(run[t]) = 1 /\ ~Initiated(run[t])
      /\ Owed(run[t]) <=> h \in Protocols \/ fn = "execute_long"
      /\ \A l \in Locks : Holds(run[t], l) <=> l = h
  BY <1>1, PoolFacts
<1>3. /\ t \in Agents /\ t \notin Handles /\ h # NULL /\ (h \in Locks <=> h \in PubSubs)
      /\ h \in PubSubs \cup Monitors => h \in Protocols
      /\ h \in Pipelines => h \notin Protocols
      /\ h \in PubSubs => h \notin Monitors /\ h \notin Pipelines
      /\ h \in Monitors => h \notin Pipelines
  BY <1>2, HandleFacts
<1>4. /\ run \in [Agents -> Runs] /\ run[t] \in Runs /\ tasks \in [Tasks -> 0..2]
      /\ tasks[t] = 1
  BY <1>2, <1>3, AgentFacts
<1>5. lock' = IF h \in PubSubs THEN [lock EXCEPT ![h] = NULL] ELSE lock
  BY DEF PoolEnds
<1>6. /\ lock' \in [Locks -> Agents \cup {NULL}]
      /\ \A l \in Locks : lock'[l] = IF Holds(run[t], l) THEN NULL ELSE lock[l]
  BY <1>2, <1>3, <1>5, StateFacts
<1>7. PICK how \in Outcomes(t) :
        \/ /\ how = "none" /\ (h \in Protocols => ~closed)
           /\ native' = native \cup {h}
           /\ resources' = IF fn \in {"execute", "execute_long"} THEN resources ELSE resources \cup {h}
           /\ sockets' = TRUE
           /\ Goto(t, "io")
           /\ UNCHANGED <<long_in_use, tasks>>
        \/ /\ how # "none" \/ (h \in Protocols /\ closed)
           /\ long_in_use' = long_in_use - (IF h \in Protocols THEN 1 ELSE Permit(fn))
           /\ LET exc == Raised("error", how) IN
              CASE h \in PubSubs                      -> GetFails(t, exc)
                [] fn \in {"execute", "execute_long"} -> EndExecute(t, exc)
                [] OTHER -> Return(t, fn, exc, tasks) /\ UNCHANGED <<native, resources>>
           /\ UNCHANGED sockets
  BY DEF PoolEnds
<1>8. cancelled' \subseteq Tasks
  BY <1>1, StateFacts DEF Delivered
<1>9. CASE /\ h \in Protocols => ~closed
           /\ native' = native \cup {h}
           /\ resources' = IF fn \in {"execute", "execute_long"} THEN resources ELSE resources \cup {h}
           /\ sockets' = TRUE
           /\ Goto(t, "io")
           /\ UNCHANGED <<long_in_use, tasks>>
  <2> DEFINE r == [run[t] EXCEPT !.pc = "io"]
  <2>1. r \in Runs /\ r.pc = "io" /\ r.on = h /\ r.fn = fn /\ run' = [run EXCEPT ![t] = r]
    BY <1>3, <1>4, <1>9 DEF Runs, Pcs, Goto
  <2>2. NativeMove(t, r)
    BY <1>1, <1>9, <2>1 DEF NativeMove, Executes
  <2> HIDE DEF r
  <2>3. /\ AgentRun(t, r) /\ Ops(r) = 1 /\ (Owed(r) <=> fn = "execute_long")
        /\ \A l \in Locks : ~Holds(r, l)
    BY <1>2, <1>3, <2>1
    DEF AgentRun, TaskRun, PubSubRun, OwnedRun, Ops, Owed, LongFns, Executes, Holds
  <2>4. Moves(t, r)
    BY <1>4, <1>9, <2>1, <2>2, <2>3 DEF Moves
  <2>5. LockMove(t, r)
    BY <1>6, <2>3 DEF LockMove
  <2>6. PermitMove(t, r)
    <3>1. CASE h \in Protocols
      <4>1. ~Owed(r) /\ Owed(run[t])
        BY <1>2, <1>3, <2>3, <3>1 DEF Executes
      <4> QED
        BY <1>2, <1>9, <3>1, <4>1 DEF PermitMove
    <3>2. CASE h \notin Protocols
      BY <1>2, <1>9, <2>3, <3>2 DEF PermitMove
    <3> QED
      BY <3>1, <3>2
  <2>7. CloseMove(t, r)
    BY <1>1, <1>2, <1>3 DEF CloseMove
  <2> QED
    BY <1>1, <1>8, <1>9, <2>4, <2>5, <2>6, <2>7, StateFacts DEF Move
<1>10. CASE /\ long_in_use' = long_in_use - (IF h \in Protocols THEN 1 ELSE Permit(fn))
            /\ LET exc == Raised("error", how) IN
               CASE h \in PubSubs                      -> GetFails(t, exc)
                 [] fn \in {"execute", "execute_long"} -> EndExecute(t, exc)
                 [] OTHER -> Return(t, fn, exc, tasks) /\ UNCHANGED <<native, resources>>
            /\ UNCHANGED sockets
  <2> DEFINE exc == Raised("error", how)
  <2>1. exc \in {"none", "error", "cancel"}
    BY <1>7, OutcomeFacts DEF Raised
  <2>2. Permit(fn) = IF fn = "execute_long" \/ fn = "command_long" THEN 1 ELSE 0
    BY DEF Permit, LongFns
  <2>3. long_in_use' = long_in_use - (IF Owed(run[t]) THEN 1 ELSE 0)
    BY <1>2, <1>10, <2>2 DEF Executes
  <2>4. LetsGo(t)
    BY <1>1, <1>6, <1>8, <1>10, <2>3, StateFacts DEF LetsGo
  <2> HIDE DEF exc
  <2>5. CASE h \in PubSubs
    <3>1. GetFails(t, exc)
      BY <1>2, <1>3, <1>10, <2>5 DEF exc, Executes
    <3> QED
      BY <1>1, <2>1, <2>4, <2>5, <3>1, GetFailsMove
  <2>6. CASE h \notin PubSubs /\ fn \in Executes
    <3>1. BeginAclose(t, h, "aclose", exc, Exited(t))
      BY <1>10, <2>6 DEF EndExecute, exc, Executes
    <3>2. OpsIn(t, "aclose", Exited(t))
      BY <1>1, <2>6, OpsFacts DEF Executes
    <3>3. MayClose(t, h, "aclose") /\ "aclose" \in Fns
      BY <1>2, <2>6 DEF MayClose, Fns, Executes
    <3> QED
      BY <1>1, <1>2, <1>3, <2>1, <2>4, <2>6, <3>1, <3>2, <3>3, AcloseMove
  <2>7. CASE h \notin PubSubs /\ fn \notin Executes
    <3>1. Return(t, fn, exc, tasks) /\ UNCHANGED <<native, resources>>
      BY <1>10, <2>7 DEF exc, Executes
    <3>2. OpsIn(t, fn, tasks)
      BY <1>1, <1>2, OpsFacts DEF Executes
    <3> QED
      BY <1>1, <1>3, <2>4, <3>1, <3>2, ReturnMove
  <2> QED
    BY <2>5, <2>6, <2>7
<1> QED
  BY <1>7, <1>9, <1>10

\* A task in a call on a native object.
LEMMA IoFacts ==
    ASSUME LifetimeInv, NEW t \in Tasks, run[t].pc = "io"
    PROVE  /\ run[t].on \in Handles
           /\ \/ run[t].on \in PubSubs /\ run[t].fn \in {"subscribe", "get_message", "ping"}
              \/ run[t].on \in Monitors /\ run[t].fn \in {"enter", "next_command"}
              \/ run[t].on \in Pipelines /\ run[t].fn \in Executes \cup {"watch", "immediate", "unwatch"}
           /\ run[t].on \notin PubSubs => Owner[run[t].on] = t
           /\ Ops(run[t]) = 1
           /\ Owed(run[t]) <=> run[t].fn = "execute_long"
           /\ \A l \in Locks : ~Holds(run[t], l)
<1>1. TaskRun(t, run[t])
  BY AgentFacts, HandleFacts
<1>2. PubSubRun(run[t]) \/ OwnedRun(t, run[t])
  BY <1>1, RunFacts DEF TaskRun
<1>3. /\ \/ run[t].on \in PubSubs /\ run[t].fn \in {"subscribe", "get_message", "ping"}
         \/ run[t].on \in Monitors /\ run[t].fn \in {"enter", "next_command"}
         \/ run[t].on \in Pipelines /\ run[t].fn \in Executes \cup {"watch", "immediate", "unwatch"}
      /\ run[t].on \notin PubSubs => Owner[run[t].on] = t
  BY <1>2 DEF PubSubRun, OwnedRun
<1>4. run[t].on \in Handles
  BY <1>3, HandleFacts
<1>5. (Owed(run[t]) <=> run[t].fn = "execute_long") /\ Ops(run[t]) = 1
  BY <1>3 DEF Owed, LongFns, Executes, Ops
<1> QED
  BY <1>3, <1>4, <1>5 DEF Holds

LEMMA IoEndsMoves ==
    ASSUME LifetimeInv, NEW t \in Tasks, IoEnds(t)
    PROVE  \E r : Move(t, r)
<1> DEFINE h == run[t].on
           fn == run[t].fn
<1>1. /\ run[t].pc = "io" /\ UNCHANGED <<closed, closer, connected, lock>> /\ Delivered(t)
      /\ long_in_use' = long_in_use - Permit(fn)
  BY DEF IoEnds, At, lifecycle
<1>2. /\ h \in Handles
      /\ \/ h \in PubSubs /\ fn \in {"subscribe", "get_message", "ping"}
         \/ h \in Monitors /\ fn \in {"enter", "next_command"}
         \/ h \in Pipelines /\ fn \in Executes \cup {"watch", "immediate", "unwatch"}
      /\ h \notin PubSubs => Owner[h] = t
      /\ Ops(run[t]) = 1
      /\ Owed(run[t]) <=> fn = "execute_long"
      /\ \A l \in Locks : ~Holds(run[t], l)
  BY <1>1, IoFacts
<1>3. /\ t \in Agents /\ t \notin Handles
      /\ h \in PubSubs => h \notin Monitors /\ h \notin Pipelines
      /\ h \in Monitors => h \notin Pipelines /\ h \notin PubSubs
  BY <1>2, HandleFacts
<1>4. PICK how \in Outcomes(t) :
        /\ CASE fn \in {"execute", "execute_long"} -> EndExecute(t, how)
             [] fn = "unwatch" /\ how = "none"     -> BeginAclose(t, h, "aclose", "none", Exited(t))
             [] fn \in ClosesOnError /\ how # "none" -> BeginAclose(t, h, fn, how, tasks)
             [] OTHER -> Return(t, fn, how, tasks) /\ UNCHANGED <<native, resources>>
        /\ sockets' = (sockets \/ (how = "none" /\ h \in native))
  BY DEF IoEnds
<1>5. how \in {"none", "error", "cancel"}
  BY <1>4, OutcomeFacts
<1>6. LetsGo(t)
  <2>1. Permit(fn) = IF Owed(run[t]) THEN 1 ELSE 0
    BY <1>2 DEF Permit, LongFns, Executes
  <2>2. sockets' \in BOOLEAN /\ (sockets' => sockets \/ native # {})
    BY <1>4, StateFacts
  <2> QED
    BY <1>1, <2>1, <2>2, LetsGoUnlocked
<1>7. OpsIn(t, fn, tasks) /\ OpsIn(t, "aclose", Exited(t))
  BY <1>1, <1>2, OpsFacts DEF Executes
<1>8. CASE fn \in Executes
  <2>1. BeginAclose(t, h, "aclose", how, Exited(t))
    BY <1>4, <1>8 DEF EndExecute, Executes, ClosesOnError
  <2>2. h \in Pipelines
    BY <1>2, <1>8 DEF Executes
  <2>3. MayClose(t, h, "aclose") /\ "aclose" \in Fns /\ h \notin PubSubs /\ h \notin Monitors
    BY <1>2, <1>3, <2>2 DEF MayClose, Fns
  <2> QED
    BY <1>2, <1>5, <1>6, <1>7, <2>1, <2>3, AcloseMove
<1>9. CASE fn = "unwatch" /\ how = "none"
  <2>1. BeginAclose(t, h, "aclose", "none", Exited(t))
    BY <1>4, <1>9 DEF ClosesOnError
  <2>2. h \in Pipelines /\ fn \notin Executes /\ ~Owed(run[t])
    BY <1>2, <1>9 DEF Executes
  <2>3. MayClose(t, h, "aclose") /\ "aclose" \in Fns
    BY <1>2, <1>3, <2>2 DEF MayClose, Fns
  <2> QED
    BY <1>2, <1>6, <1>7, <2>1, <2>2, <2>3, AcloseMove
<1>10. CASE fn \in ClosesOnError /\ how # "none"
  <2>1. BeginAclose(t, h, fn, how, tasks) /\ fn \notin Executes /\ ~Owed(run[t])
    BY <1>2, <1>4, <1>10 DEF ClosesOnError, Executes
  <2>2. MayClose(t, h, fn) /\ fn \in Fns
    BY <1>2, <1>3, <1>10 DEF MayClose, Fns, ClosesOnError, Executes
  <2> QED
    BY <1>2, <1>5, <1>6, <1>7, <2>1, <2>2, AcloseMove
<1>11. CASE /\ fn \notin Executes /\ ~(fn = "unwatch" /\ how = "none")
            /\ ~(fn \in ClosesOnError /\ how # "none")
  <2>1. Return(t, fn, how, tasks) /\ UNCHANGED <<native, resources>>
    BY <1>4, <1>11 DEF Executes
  <2> QED
    BY <1>3, <1>6, <1>7, <1>11, <2>1, ReturnMove
<1> QED
  BY <1>8, <1>9, <1>10, <1>11

LEMMA AcloseCallMoves ==
    ASSUME LifetimeInv, NEW t \in Tasks,
           \/ \E h \in Pipelines \cap Owned(t), fn \in Executes : ExecuteRefused(t, h, fn)
           \/ \E h \in PubSubs \cup Owned(t) : Aclose(t, h)
    PROVE  \E r : Move(t, r)
<1>1. PICK h \in PubSubs \cup Owned(t), exc \in {"none", "error", "cancel"} :
         BeginAclose(t, h, "aclose", exc, tasks)
  <2>1. run[t].exc \in {"none", "error", "cancel"}
    BY AgentFacts, HandleFacts
  <2> QED
    BY <2>1 DEF ExecuteRefused, Aclose
<1>2. /\ run[t].pc \in {"idle", "unwind"}
      /\ UNCHANGED <<connected, long_in_use, lock, sockets, cancelled>>
  BY DEF ExecuteRefused, Aclose, At, lifecycle
<1>3. /\ run[t] \in {Idle, Unwind, Ended} /\ ~Owed(run[t])
  BY <1>2, AppFacts
<1>4. h \in Handles /\ MayClose(t, h, "aclose") /\ "aclose" \in Fns
  BY HandleFacts DEF Owned, MayClose, Fns
<1>5. LetsGo(t)
  BY <1>2, <1>3, StateFacts, LetsGoUnlocked
<1>6. OpsIn(t, "aclose", tasks)
  BY <1>2, <1>3, RunFacts, OpsFacts
<1> QED
  BY <1>1, <1>2, <1>3, <1>4, <1>5, <1>6, AcloseMove

\* An agent that waits for the lock of a subscription, or for the native
\* object it took to be closed.
LEMMA ClosingFacts ==
    ASSUME LifetimeInv, NEW a \in Agents, run[a].pc \in {"aclose_lock", "closing_native"}
    PROVE  /\ run[a].on \in Handles /\ MayClose(a, run[a].on, run[a].fn)
           /\ run[a].pc = "aclose_lock" => run[a].on \in PubSubs
           /\ OpsIn(a, run[a].fn, tasks)
           /\ Owed(run[a]) <=> run[a].pc = "closing_native" /\ run[a].on \in Protocols
           /\ \A l \in Locks : Holds(run[a], l) <=> run[a].pc = "closing_native" /\ l = run[a].on
           /\ a \in Handles => /\ run[a].on = a /\ run[a].fn = "aclose"
                               /\ run[a] \notin {Idle, Ended}
<1>1. CASE a \in Tasks
  <2>1. PubSubRun(run[a]) \/ OwnedRun(a, run[a])
    BY <1>1, AgentFacts, RunFacts DEF TaskRun
  <2>2. /\ run[a].on \in Handles /\ MayClose(a, run[a].on, run[a].fn)
        /\ run[a].pc = "aclose_lock" => run[a].on \in PubSubs
        /\ run[a].fn \in {"subscribe", "get_message", "aclose", "enter", "watch"}
    BY <1>1, <2>1, HandleFacts DEF PubSubRun, OwnedRun, MayClose
  <2>3. OpsIn(a, run[a].fn, tasks)
    BY <1>1, <2>2, OpsFacts
  <2> QED
    BY <1>1, <2>2, <2>3, HandleFacts DEF Owed, LongFns, Holds
<1>2. CASE a \notin Tasks
  <2>1. /\ a \in Handles /\ run[a].on = a /\ run[a].fn = "aclose"
        /\ run[a].pc = "aclose_lock" => a \in PubSubs
    BY <1>2, AgentFacts, RunFacts DEF HandleRun
  <2>2. OpsIn(a, run[a].fn, tasks)
    BY <1>2, AgentFacts DEF OpsIn
  <2> QED
    BY <1>2, <2>1, <2>2, RunFacts DEF Owed, LongFns, Holds, MayClose
<1> QED
  BY <1>1, <1>2

LEMMA AcloseLockedMoves ==
    ASSUME LifetimeInv, NEW a \in Agents, AcloseLocked(a)
    PROVE  \E r : Move(a, r)
<1> DEFINE h == run[a].on
           r == TakenRun(a, h, run[a].fn, run[a].exc)
<1>1. /\ run[a].pc = "aclose_lock" /\ lock[h] = NULL
      /\ TakeNative(a, h, run[a].fn, run[a].exc, tasks)
      /\ lock' = IF h \in native THEN [lock EXCEPT ![h] = a] ELSE lock
      /\ UNCHANGED <<closed, closer, connected, long_in_use, sockets, cancelled>>
  BY DEF AcloseLocked, At, lifecycle
<1>2. /\ h \in Handles /\ MayClose(a, h, run[a].fn) /\ h \in PubSubs
      /\ OpsIn(a, run[a].fn, tasks) /\ ~Owed(run[a])
      /\ \A l \in Locks : ~Holds(run[a], l)
      /\ a \in Handles => h = a /\ run[a].fn = "aclose" /\ run[a] \notin {Idle, Ended}
  BY <1>1, ClosingFacts
<1>3. run[a].fn \in Fns /\ run[a].exc \in {"none", "error", "cancel"}
  BY AgentFacts
<1>4. h \in Locks /\ h \in Protocols
  BY <1>2, HandleFacts
<1>5. /\ Moves(a, r)
      /\ \/ h \in native /\ native' = native \ {h} /\ UNCHANGED resources
         \/ h \notin native /\ UNCHANGED native /\ resources' = resources \ {h}
  BY <1>1, <1>2, <1>3, TakeNativeMoves
<1>6. /\ Initiated(r) /\ (Owed(r) <=> h \in native)
      /\ h \in native => r.on = h
      /\ \A l \in Locks : Holds(r, l) <=> l = h /\ h \in native
      /\ run[a].fn = "aclose" => Ops(r) = 0
  BY <1>2, <1>3, <1>4, AcloseRunFacts
<1>7. a \in Handles => r # Idle /\ (r = Ended => a \notin resources')
  <2>1. CASE h \in native
    <3>1. r.pc = "closing_native"
      BY <2>1 DEF TakenRun
    <3> QED
      BY <3>1, RunFacts
  <2>2. CASE h \notin native
    <3>1. a \in Handles => r = Ended
      BY <2>2, AfterFacts DEF TakenRun
    <3> QED
      BY <1>2, <1>5, <2>2, <3>1, RunFacts
  <2> QED
    BY <2>1, <2>2
<1> HIDE DEF r
<1>8. LockMove(a, r)
  BY <1>1, <1>2, <1>4, <1>6, StateFacts DEF LockMove
<1>9. PermitMove(a, r)
  BY <1>1, <1>2, <1>4, <1>5, <1>6 DEF PermitMove
<1>10. CloseMove(a, r)
  <2>1. Ops(run[a]) = 0 => Ops(r) = 0
    <3>1. Ops(run[a]) = 0 => run[a].fn = "aclose"
      BY <1>1, <1>2 DEF Ops, MayClose
    <3> QED
      BY <1>6, <3>1
  <2> QED
    BY <1>1, <1>2, <1>6, <1>7, <2>1 DEF CloseMove
<1> QED
  BY <1>1, <1>5, <1>8, <1>9, <1>10, StateFacts DEF Move

LEMMA NativeClosedMoves ==
    ASSUME LifetimeInv, NEW a \in Agents, NativeClosed(a)
    PROVE  \E r : Move(a, r)
<1> DEFINE h == run[a].on
<1>1. /\ run[a].pc = "closing_native"
      /\ long_in_use' = long_in_use - (IF h \in Protocols THEN 1 ELSE 0)
      /\ resources' = resources \ {h}
      /\ lock' = IF h \in PubSubs THEN [lock EXCEPT ![h] = NULL] ELSE lock
      /\ Delivered(a) /\ UNCHANGED <<closed, closer, connected, native, sockets>>
  BY DEF NativeClosed, At, lifecycle
<1>2. PICK exc : Return(a, run[a].fn, exc, tasks)
  BY DEF NativeClosed
<1>3. /\ h \in Handles /\ OpsIn(a, run[a].fn, tasks)
      /\ Owed(run[a]) <=> h \in Protocols
      /\ \A l \in Locks : Holds(run[a], l) <=> l = h
      /\ a \in Handles => h = a /\ run[a].fn = "aclose" /\ run[a] \notin {Idle, Ended}
  BY <1>1, ClosingFacts
<1>4. h \notin native /\ (h \in Locks <=> h \in PubSubs)
  BY <1>1, <1>3, HandleFacts, StateFacts
<1>5. LetsGo(a)
  BY <1>1, <1>3, <1>4, StateFacts DEF LetsGo, Delivered
<1> QED
  BY <1>1, <1>2, <1>3, <1>4, <1>5, ReturnMove

LEMMA LockCancelledMoves ==
    ASSUME LifetimeInv, NEW t \in Tasks, LockCancelled(t)
    PROVE  \E r : Move(t, r)
<1>1. /\ run[t].pc \in {"connect_lock", "get_lock", "aclose_lock"} /\ Delivered(t)
      /\ UNCHANGED <<closed, closer, connected, long_in_use, lock, sockets>>
  BY DEF LockCancelled, lifecycle
<1>2. t \in Agents /\ t \notin Handles
  BY HandleFacts
<1>3. ~Owed(run[t]) /\ run[t].fn # "none" /\ OpsIn(t, run[t].fn, tasks)
  <2>1. CASE run[t].pc = "connect_lock"
    BY <2>1, ConnectFacts, OpsFacts
  <2>2. CASE run[t].pc = "get_lock"
    BY <2>2, GetFacts, OpsFacts
  <2>3. CASE run[t].pc = "aclose_lock"
    BY <1>2, <2>3, ClosingFacts DEF MayClose
  <2> QED
    BY <1>1, <2>1, <2>2, <2>3
<1>4. LetsGo(t)
  BY <1>1, <1>3, StateFacts, LetsGoUnlocked
<1>5. CASE run[t].pc = "get_lock"
  BY <1>4, <1>5, GetFailsMove DEF LockCancelled, At
<1>6. CASE run[t].pc # "get_lock"
  BY <1>1, <1>2, <1>3, <1>4, <1>6, ReturnMove DEF LockCancelled, At
<1> QED
  BY <1>5, <1>6

\* A task goes on without a lock, a permit or a native object in its hands.
LEMMA PlainMove ==
    ASSUME LifetimeInv, NEW t \in Tasks, NEW r \in Runs,
           run' = [run EXCEPT ![t] = r], TaskRun(t, r), Ops(r) = Ops(run[t]),
           run[t].pc \in {"idle", "unwind", "closing"}
              \/ (run[t].pc = "io" /\ run[t].fn = "get_message"),
           r.pc \in {"idle", "ended", "closing"} \/ (r.pc = "io" /\ r.fn = "get_message"),
           r.fn = run[t].fn,
           UNCHANGED <<tasks, native, resources, long_in_use, lock, sockets, connected>>,
           cancelled' \subseteq Tasks
    PROVE  Move(t, r)
<1>1. t \in Agents /\ t \notin Handles
  BY HandleFacts
<1>2. tasks \in [Tasks -> 0..2] /\ tasks[t] = Ops(run[t])
  BY <1>1, AgentFacts
<1>3. ~Owed(run[t]) /\ ~Owed(r) /\ \A l : ~Holds(run[t], l) /\ ~Holds(r, l)
  <2>1. run[t].fn \notin LongFns
    <3>1. CASE run[t].pc = "closing"
      BY <1>1, <3>1, AgentFacts, RunFacts DEF TaskRun, PubSubRun, OwnedRun, LongFns
    <3>2. CASE run[t].pc \in {"idle", "unwind"}
      BY <3>2, AppFacts, RunFacts DEF LongFns
    <3> QED
      BY <3>1, <3>2 DEF LongFns
  <2> QED
    BY <2>1 DEF Owed, Holds
<1>4. NativeMove(t, r)
  BY DEF NativeMove, Executes
<1>5. Moves(t, r)
  BY <1>1, <1>2, <1>4 DEF Moves, AgentRun
<1>6. LockMove(t, r)
  BY <1>3, StateFacts DEF LockMove
<1>7. PermitMove(t, r)
  BY <1>3 DEF PermitMove
<1>8. CloseMove(t, r)
  BY <1>1 DEF CloseMove, Initiated
<1> QED
  BY <1>5, <1>6, <1>7, <1>8, StateFacts DEF Move

\* A task that waits for _close.
LEMMA WaiterFacts ==
    ASSUME LifetimeInv, NEW t \in Tasks, run[t].pc = "closing"
    PROVE  \/ run[t].on = NULL /\ run[t].fn = "none"
           \/ run[t].on \in PubSubs /\ run[t].fn = "get_message"
BY AgentFacts, RunFacts, HandleFacts DEF TaskRun, PubSubRun, OwnedRun

LEMMA TaskEndsMoves ==
    ASSUME LifetimeInv, NEW t \in Tasks, TaskEnds(t)
    PROVE  \E r : Move(t, r)
<1>1. PICK r \in {Idle, Ended} : run' = [run EXCEPT ![t] = r]
  BY DEF TaskEnds
<1>2. /\ run[t].pc \in {"idle", "unwind"}
      /\ UNCHANGED <<tasks, native, resources, long_in_use, lock, sockets, connected, cancelled>>
  BY DEF TaskEnds, At
<1>3. run[t] \in {Idle, Unwind, Ended} /\ Ops(run[t]) = 0
  BY <1>2, AppFacts
<1>4. /\ r \in Runs /\ TaskRun(t, r) /\ Ops(r) = 0 /\ r.pc \in {"idle", "ended"}
      /\ r.fn = "none" /\ run[t].fn = "none"
  BY <1>3, RunFacts DEF TaskRun, Ops
<1> QED
  BY <1>1, <1>2, <1>3, <1>4, PlainMove, StateFacts

LEMMA CloseReturnsMoves ==
    ASSUME LifetimeInv, NEW t \in Tasks, CloseReturns(t)
    PROVE  \E r : Move(t, r)
<1>1. /\ run[t].pc = "closing" /\ Delivered(t)
      /\ UNCHANGED <<closed, closer, connected, long_in_use, lock, sockets>>
  BY DEF CloseReturns, At, lifecycle
<1>2. PICK how \in Outcomes(t) :
        IF run[t].fn = "get_message"
        THEN \/ how = "none" /\ Goto(t, "io") /\ UNCHANGED <<tasks, native, resources>>
             \/ how # "none" /\ BeginAclose(t, run[t].on, "get_message", how, tasks)
        ELSE Return(t, "aclose", Raised(run[t].exc, how), tasks) /\ UNCHANGED <<native, resources>>
  BY DEF CloseReturns
<1>3. t \in Agents /\ t \notin Handles /\ how \in {"none", "error", "cancel"}
  BY <1>2, HandleFacts, OutcomeFacts
<1>4. \/ run[t].on = NULL /\ run[t].fn = "none"
      \/ run[t].on \in PubSubs /\ run[t].fn = "get_message"
  BY <1>1, WaiterFacts
<1>5. ~Owed(run[t])
  BY <1>1, <1>4 DEF Owed, LongFns
<1>6. LetsGo(t)
  BY <1>1, <1>5, StateFacts, LetsGoUnlocked
<1>7. CASE run[t].fn = "get_message" /\ Goto(t, "io") /\ UNCHANGED <<tasks, native, resources>>
  <2> DEFINE r == [run[t] EXCEPT !.pc = "io"]
  <2>1. run[t] \in Runs /\ run \in [Agents -> Runs]
    BY <1>3, AgentFacts
  <2>2. /\ r \in Runs /\ r.pc = "io" /\ r.on = run[t].on /\ r.fn = run[t].fn
        /\ run' = [run EXCEPT ![t] = r]
    BY <1>3, <1>7, <2>1 DEF Runs, Pcs, Goto
  <2> HIDE DEF r
  <2>3. TaskRun(t, r) /\ Ops(r) = Ops(run[t])
    BY <1>1, <1>4, <1>7, <2>2 DEF TaskRun, PubSubRun, Ops
  <2> QED
    BY <1>1, <1>6, <1>7, <2>2, <2>3, PlainMove DEF LetsGo
<1>8. CASE run[t].fn = "get_message" /\ BeginAclose(t, run[t].on, "get_message", how, tasks)
  <2>1. OpsIn(t, "get_message", tasks) /\ run[t].on \in Handles /\ "get_message" \in Fns
    BY <1>1, <1>4, <1>8, OpsFacts, HandleFacts DEF Fns
  <2>2. MayClose(t, run[t].on, "get_message") /\ Ops(run[t]) # 0
    BY <1>1, <1>4, <1>8 DEF MayClose, Ops
  <2> QED
    BY <1>1, <1>3, <1>5, <1>6, <1>8, <2>1, <2>2, AcloseMove
<1>9. CASE /\ run[t].fn # "get_message" /\ UNCHANGED <<native, resources>>
           /\ Return(t, "aclose", Raised(run[t].exc, how), tasks)
  <2>1. OpsIn(t, "aclose", tasks)
    BY <1>1, <1>4, <1>9, OpsFacts
  <2> QED
    BY <1>1, <1>3, <1>6, <1>9, <2>1, ReturnMove
<1> QED
  BY <1>2, <1>7, <1>8, <1>9

\* Close is the move of its caller to the wait for _close.
LEMMA CloseMoves ==
    ASSUME LifetimeInv, NEW t \in Tasks, Close(t)
    PROVE  \E r : Move(t, r) /\ r.pc = "closing"
<1> DEFINE r == [run[t] EXCEPT !.pc = "closing"]
<1>1. /\ run[t].pc \in {"idle", "unwind"} \/ (run[t].pc = "io" /\ run[t].fn = "get_message")
      /\ Goto(t, "closing")
      /\ UNCHANGED <<long_in_use, tasks, resources, native, lock, connected, sockets, cancelled>>
  BY DEF Close, At
<1>2. t \in Agents /\ run[t] \in Runs /\ run \in [Agents -> Runs]
  BY HandleFacts, AgentFacts
<1>3. /\ r \in Runs /\ r.pc = "closing" /\ r.on = run[t].on /\ r.fn = run[t].fn
      /\ run' = [run EXCEPT ![t] = r]
  BY <1>1, <1>2 DEF Runs, Pcs, Goto
<1> HIDE DEF r
<1>4. TaskRun(t, r) /\ Ops(r) = Ops(run[t])
  <2>1. CASE run[t].pc \in {"idle", "unwind"}
    <3>1. run[t].on = NULL /\ run[t].fn = "none"
      BY <2>1, AppFacts, RunFacts
    <3> QED
      BY <1>3, <2>1, <3>1 DEF TaskRun, Ops
  <2>2. CASE run[t].pc = "io" /\ run[t].fn = "get_message"
    <3>1. run[t].on \in PubSubs
      BY <2>2, IoFacts DEF Executes
    <3> QED
      BY <1>3, <2>2, <3>1 DEF TaskRun, PubSubRun, Ops
  <2> QED
    BY <1>1, <2>1, <2>2
<1>5. Move(t, r)
  BY <1>1, <1>3, <1>4, PlainMove, StateFacts
<1> QED
  BY <1>3, <1>5

---------------------------------------------------------------------------
(* A move keeps the invariant. *)

\* The actions of one agent, but for Close, Cancel and those of _close.
AgentAction(a) ==
    \/ a \in Tasks /\ (ServerStep(a) \/ LocalStep(a) \/ (CallStep(a) /\ ~Close(a) /\ ~Cancel(a)))
    \/ AcloseStep(a)

LEMMA ActionsMove ==
    ASSUME LifetimeInv, NEW a \in Agents, AgentAction(a)
    PROVE  (\E r : Move(a, r)) /\ UNCHANGED <<closed, closer>>
<1>1. CASE a \in Tasks /\ ServerStep(a)
  BY <1>1, CommandEndsMoves, IoEndsMoves DEF ServerStep, CommandEnds, IoEnds, lifecycle
<1>2. CASE a \in Tasks /\ LocalStep(a)
  <2>1. UNCHANGED <<closed, closer>>
    BY <1>2 DEF LocalStep, ConnectLocked, PingEnds, UndoEnds, GetLocked, PoolEnds,
       LockCancelled, CloseReturns, TaskEnds, lifecycle
  <2> QED
    BY <1>2, <2>1, ConnectMoves, GetLockedMoves, PoolEndsMoves, LockCancelledMoves,
       CloseReturnsMoves, TaskEndsMoves
    DEF LocalStep
<1>3. CASE a \in Tasks /\ CallStep(a) /\ ~Close(a) /\ ~Cancel(a)
  <2>1. UNCHANGED <<closed, closer>>
    BY <1>3 DEF CallStep, Command, Connect, PubSubCall, MonitorEnter, NativeCall,
       PipelineReady, ExecuteRefused, Aclose, lifecycle
  <2>2. \E r : Move(a, r)
    BY <1>3, CallMoves, AcloseCallMoves DEF CallStep, Executes
  <2> QED
    BY <2>1, <2>2
<1>4. CASE AcloseStep(a)
  BY <1>4, AcloseLockedMoves, NativeClosedMoves DEF AcloseStep, AcloseLocked, NativeClosed, lifecycle
<1> QED
  BY <1>1, <1>2, <1>3, <1>4 DEF AgentAction

\* Once resources are being closed, a task in an operation is the initiator,
\* in the get_message that it called close from.
LEMMA LateFacts ==
    ASSUME LifetimeInv, closer.pc \in {"resources", "backend", "done"}, NEW t \in Tasks
    PROVE  Ops(run[t]) # 0 => Initiated(run[t])
<1>1. Tracked \subseteq {closer.initiator} /\ closed /\ Initiated(run[closer.initiator])
  BY DEF LifetimeInv, Barrier, Phases
<1>2. tasks[t] = Ops(run[t]) /\ Ops(run[t]) \in Nat
  BY AgentFacts, HandleFacts DEF Ops
<1> QED
  BY <1>1, <1>2 DEF Tracked

\* A handle has an aclose() of its own only while _close closes resources.
LEMMA HandlePhase ==
    ASSUME LifetimeInv, NEW h \in Handles, run[h] \notin {Idle, Ended}
    PROVE  closer.pc = "resources"
BY DEF LifetimeInv, TypeOK, Phases

LEMMA MoveRuns ==
    ASSUME LifetimeInv, NEW a \in Agents, NEW r, Move(a, r)
    PROVE  /\ run' \in [Agents -> Runs] /\ run'[a] = r /\ r \in Runs /\ AgentRun(a, r)
           /\ \A b \in Agents \ {a} : run'[b] = run[b]
           /\ RunsInPlace'
           /\ tasks' \in [Tasks -> 0..2] /\ OpsExact' /\ LocksExact'
           /\ native' \subseteq Handles /\ resources' \subseteq Handles
<1>1. /\ run \in [Agents -> Runs] /\ run' = [run EXCEPT ![a] = r] /\ r \in Runs
      /\ AgentRun(a, r) /\ tasks' \in [Tasks -> Int]
      /\ \A t \in Tasks : tasks'[t] = IF t = a THEN Ops(r) ELSE tasks[t]
  BY AgentFacts DEF Move, Moves
<1>2. run' \in [Agents -> Runs] /\ run'[a] = r /\ \A b \in Agents \ {a} : run'[b] = run[b]
  BY <1>1
<1>3. RunsInPlace'
  BY <1>1, <1>2, HandleFacts DEF RunsInPlace, LifetimeInv, AgentRun
<1>4. OpsExact'
  BY <1>1, <1>2, HandleFacts DEF OpsExact, LifetimeInv
<1>5. tasks' \in [Tasks -> 0..2]
  BY <1>1, <1>4 DEF OpsExact, Ops
<1>6. LocksExact'
  <2> SUFFICES ASSUME NEW l \in Locks, NEW b \in Agents
               PROVE  lock'[l] = b <=> Holds(run'[b], l)
    BY DEF LocksExact, Holds
  <2>1. /\ lock'[l] = IF Holds(r, l) THEN a ELSE IF Holds(run[a], l) THEN NULL ELSE lock[l]
        /\ Holds(r, l) /\ ~Holds(run[a], l) => lock[l] = NULL
    BY DEF Move, LockMove
  <2>2. (lock[l] = b <=> Holds(run[b], l)) /\ (lock[l] = a <=> Holds(run[a], l))
    BY StateFacts
  <2>3. a # NULL /\ b # NULL
    BY HandlesAssumption
  <2> QED
    BY <1>2, <2>1, <2>2, <2>3
<1>7. native' \subseteq Handles /\ resources' \subseteq Handles
  <2>1. CASE /\ run[a].pc = "pool" /\ r = [run[a] EXCEPT !.pc = "io"]
             /\ native' = native \cup {r.on}
             /\ resources' = IF r.fn \in Executes THEN resources ELSE resources \cup {r.on}
    <3>1. a \in Tasks
      BY <2>1, AgentFacts, RunFacts DEF HandleRun
    <3>2. run[a].on \in Handles /\ r.on = run[a].on
      BY <2>1, <3>1, PoolFacts, AgentFacts DEF Runs
    <3> QED
      BY <2>1, <3>2, StateFacts
  <2> QED
    BY <2>1, StateFacts DEF Move, Moves, NativeMove
<1> QED
  BY <1>1, <1>2, <1>3, <1>4, <1>5, <1>6, <1>7

\* A native object is made by the only agent that works on its handle.
LEMMA MoveNative ==
    ASSUME LifetimeInv, NEW a \in Agents, NEW r, Move(a, r)
    PROVE  /\ NativeFree'
           /\ \/ native' \subseteq native /\ resources' \subseteq resources
              \/ /\ a \in Tasks /\ run[a].pc = "pool" /\ r.pc = "io" /\ r.on = run[a].on
                 /\ r.fn = run[a].fn /\ native' = native \cup {r.on}
                 /\ resources' = IF r.fn \in Executes THEN resources ELSE resources \cup {r.on}
<1>1. run'[a] = r /\ \A b \in Agents \ {a} : run'[b] = run[b]
  BY MoveRuns
<1>2. NativeMove(a, r)
  BY DEF Move, Moves
<1>3. CASE native' \subseteq native /\ resources' \subseteq resources
  BY <1>1, <1>2, <1>3, StateFacts DEF NativeMove, NativeFree
<1>4. CASE /\ run[a].pc = "pool" /\ r = [run[a] EXCEPT !.pc = "io"]
           /\ native' = native \cup {r.on}
           /\ resources' = IF r.fn \in Executes THEN resources ELSE resources \cup {r.on}
  <2> DEFINE h == run[a].on
  <2>1. a \in Tasks
    BY <1>4, AgentFacts, RunFacts DEF HandleRun
  <2>2. r.pc = "io" /\ r.on = h /\ r.fn = run[a].fn
    BY <1>4, AgentFacts DEF Runs
  <2>3. /\ h \in Handles /\ (h \notin PubSubs => Owner[h] = a)
        /\ ~Initiated(run[a]) /\ Ops(run[a]) = 1
    BY <1>4, <2>1, PoolFacts
  <2>4. ASSUME NEW b \in Agents \ {a}, run[b].pc \in {"pool", "closing_native"}, run[b].on = h
        PROVE  FALSE
    <3>1. CASE h \in PubSubs
      <4>1. Holds(run[a], h) /\ Holds(run[b], h) /\ h \in Locks
        BY <1>4, <2>4, <3>1, HandleFacts DEF Holds
      <4> QED
        BY <4>1, StateFacts
    <3>2. CASE h \notin PubSubs /\ b \in Tasks
      <4>1. OwnedRun(b, run[b])
        BY <2>4, <3>2, AgentFacts, RunFacts DEF TaskRun, PubSubRun
      <4> QED
        BY <2>3, <2>4, <3>2, <4>1 DEF OwnedRun
    <3>3. CASE b \notin Tasks
      <4>1. b \in Handles /\ run[b] \notin {Idle, Ended}
        BY <2>4, <3>3, AgentFacts, RunFacts
      <4>2. closer.pc = "resources"
        BY <4>1, HandlePhase
      <4> QED
        BY <2>1, <2>3, <4>2, LateFacts
    <3> QED
      BY <3>1, <3>2, <3>3
  <2>5. NativeFree'
    BY <1>1, <1>4, <2>2, <2>4, StateFacts DEF NativeFree
  <2> QED
    BY <1>4, <2>1, <2>2, <2>5
<1> QED
  BY <1>2, <1>3, <1>4 DEF NativeMove

---------------------------------------------------------------------------
(* Permits. *)

\* PermitOwners, one agent or native object at a time.
Owners == {a \in Agents : Owed(run[a])} \cup (native \cap Protocols)

LEMMA OwnersFacts ==
    ASSUME RunsInPlace, native \subseteq Handles
    PROVE  PermitOwners = Owners /\ Owners \subseteq Agents
<1>1. \A h \in Handles : run[h].fn \notin LongFns
  BY RunFacts DEF RunsInPlace, HandleRun, LongFns
<1> QED
  BY <1>1 DEF PermitOwners, Owners, Owed, Agents

LEMMA AgentsFinite == IsFiniteSet(Agents)
BY FiniteAssumption, FS_Union DEF Agents

\* A permit that changes hands.
LEMMA SwapCardinality ==
    ASSUME NEW S, IsFiniteSet(S), NEW x \in S, NEW y, y \notin S
    PROVE  Cardinality((S \ {x}) \cup {y}) = Cardinality(S)
<1>1. IsFiniteSet(S \ {x}) /\ Cardinality(S \ {x}) = Cardinality(S) - 1
  BY FS_RemoveElement
<1>2. Cardinality((S \ {x}) \cup {y}) = Cardinality(S \ {x}) + 1
  BY <1>1, FS_AddElement
<1> QED
  BY <1>1, <1>2, FS_CardinalityType

LEMMA MovePermits ==
    ASSUME LifetimeInv, NEW a \in Agents, NEW r, Move(a, r)
    PROVE  PermitsExact' /\ long_in_use' \in 0..Maximum
<1>1. /\ run'[a] = r /\ \A b \in Agents \ {a} : run'[b] = run[b]
      /\ RunsInPlace' /\ native' \subseteq Handles /\ AgentRun(a, r)
  BY MoveRuns
<1>2. PermitOwners = Owners /\ Owners \subseteq Agents /\ IsFiniteSet(Owners)
  <2>1. PermitOwners = Owners /\ Owners \subseteq Agents
    BY StateFacts, OwnersFacts DEF LifetimeInv
  <2> QED
    BY <2>1, AgentsFinite, FS_Subset
<1>3. PermitOwners' = Owners'
  <2>1. \A h \in Handles : run'[h].fn \notin LongFns
    BY <1>1, RunFacts DEF RunsInPlace, HandleRun, LongFns
  <2> QED
    BY <1>1, <2>1 DEF PermitOwners, Owners, Owed, Agents
<1>4. long_in_use = Cardinality(Owners) /\ long_in_use \in 0..Maximum /\ Maximum \in Nat
  BY <1>2, StateFacts DEF LifetimeInv, PermitsExact
<1>5. SUFFICES long_in_use' = Cardinality(Owners') /\ long_in_use' \in 0..Maximum
  BY <1>3 DEF PermitsExact
<1>6. \A b \in Agents : b \in Owners <=> Owed(run[b]) \/ b \in native \cap Protocols
  BY DEF Owners
<1>7. Owners' \subseteq Agents
      /\ \A b \in Agents : b \in Owners' <=> Owed(run'[b]) \/ b \in native' \cap Protocols
  BY <1>1 DEF Owners, Owed, Agents
\* A handle that owns a permit has no native object beside it.
<1>8. \A b \in Handles : Owed(run[b]) => b \notin native
  <2> SUFFICES ASSUME NEW b \in Handles, Owed(run[b]) PROVE b \notin native
    OBVIOUS
  <2>1. b \in Agents /\ HandleRun(b, run[b])
    BY AgentFacts, HandleFacts
  <2>2. run[b].pc = "closing_native" /\ run[b].on = b
    BY <2>1, RunFacts, HandleFacts DEF HandleRun, Owed, LongFns
  <2> QED
    BY <2>1, <2>2, StateFacts
<1>9. \A b \in Handles : Owed(run'[b]) => b \notin native' /\ (b = a => r.on = b)
  <2> SUFFICES ASSUME NEW b \in Handles, Owed(run'[b]) PROVE b \notin native' /\ (b = a => r.on = b)
    OBVIOUS
  <2>1. b \in Agents /\ HandleRun(b, run'[b])
    BY <1>1, HandleFacts DEF RunsInPlace, HandleRun
  <2>2. run'[b].pc = "closing_native" /\ run'[b].on = b
    BY <2>1, RunFacts, HandleFacts DEF HandleRun, Owed, LongFns
  <2> QED
    BY <1>1, <2>1, <2>2, MoveNative DEF NativeFree
<1>10. a \in Handles \/ a \notin native \cup native'
  BY <1>1, StateFacts
<1>11. CASE native' \cap Protocols = native \cap Protocols
  <2>1. \A b \in Agents \ {a} : b \in Owners' <=> b \in Owners
    BY <1>1, <1>6, <1>7, <1>11
  <2>2. CASE (Owed(r) <=> Owed(run[a])) /\ long_in_use' = long_in_use
    <3>1. Owners' = Owners
      BY <1>1, <1>2, <1>6, <1>7, <1>11, <2>1, <2>2
    <3> QED
      BY <1>4, <2>2, <3>1
  <2>3. CASE Owed(r) /\ ~Owed(run[a]) /\ long_in_use < Maximum /\ long_in_use' = long_in_use + 1
    <3>1. a \in Owners' /\ a \notin Owners
      BY <1>1, <1>6, <1>7, <1>9, <1>10, <1>11, <2>3
    <3>2. Owners' = Owners \cup {a}
      BY <1>2, <1>7, <2>1, <3>1
    <3>3. Cardinality(Owners') = Cardinality(Owners) + 1
      BY <1>2, <3>1, <3>2, FS_AddElement
    <3> QED
      BY <1>4, <2>3, <3>3
  <2>4. CASE ~Owed(r) /\ Owed(run[a]) /\ long_in_use' = long_in_use - 1
    <3>1. a \notin Owners' /\ a \in Owners
      BY <1>1, <1>6, <1>7, <1>8, <1>10, <1>11, <2>4
    <3>2. Owners' = Owners \ {a}
      BY <1>2, <1>7, <2>1, <3>1
    <3>3. Cardinality(Owners') = Cardinality(Owners) - 1 /\ IsFiniteSet(Owners')
      BY <1>2, <3>1, <3>2, FS_RemoveElement
    <3>4. Cardinality(Owners') \in Nat
      BY <3>3, FS_CardinalityType
    <3> QED
      BY <1>4, <2>4, <3>3, <3>4
  <2> QED
    BY <1>11, <2>2, <2>3, <2>4 DEF Move, PermitMove
<1>12. ASSUME NEW h \in Protocols, long_in_use' = long_in_use, h \in native,
              native' = native \ {h}, Owed(r), ~Owed(run[a]), r.on = h
       PROVE  long_in_use' = Cardinality(Owners') /\ long_in_use' \in 0..Maximum
  <2>1. h \in Agents /\ h \in Handles
    BY <1>12, StateFacts, HandleFacts
  <2>2. CASE a = h
    <3>1. \A b \in Agents : b \in Owners' <=> b \in Owners
      BY <1>1, <1>6, <1>7, <1>12, <2>2
    <3>2. Owners' = Owners
      BY <1>2, <1>7, <3>1
    <3> QED
      BY <1>4, <1>12, <3>2
  <2>3. CASE a # h
    <3>1. a \notin Owners /\ h \in Owners
      BY <1>1, <1>6, <1>9, <1>10, <1>12, <2>1, <2>3
    <3>2. a \in Owners' /\ h \notin Owners'
      BY <1>1, <1>7, <1>8, <1>12, <2>1, <2>3
    <3>3. \A b \in Agents \ {a, h} : b \in Owners' <=> b \in Owners
      BY <1>1, <1>6, <1>7, <1>12
    <3>4. Owners' = (Owners \ {h}) \cup {a}
      BY <1>2, <1>7, <3>1, <3>2, <3>3
    <3> QED
      BY <1>2, <1>4, <1>12, <3>1, <3>4, SwapCardinality
  <2> QED
    BY <2>2, <2>3
<1>13. ASSUME NEW h \in Protocols, long_in_use' = long_in_use, h \notin native,
              native' = native \cup {h}, ~Owed(r), Owed(run[a])
       PROVE  long_in_use' = Cardinality(Owners') /\ long_in_use' \in 0..Maximum
  <2>1. h \in Agents /\ h \in Handles
    BY <1>1, <1>13, HandleFacts
  <2>2. CASE a = h
    <3>1. \A b \in Agents : b \in Owners' <=> b \in Owners
      BY <1>1, <1>6, <1>7, <1>13, <2>2
    <3>2. Owners' = Owners
      BY <1>2, <1>7, <3>1
    <3> QED
      BY <1>4, <1>13, <3>2
  <2>3. CASE a # h
    <3>1. a \in Owners /\ h \notin Owners
      BY <1>1, <1>6, <1>9, <1>13, <2>1, <2>3
    <3>2. a \notin Owners' /\ h \in Owners'
      BY <1>1, <1>7, <1>8, <1>10, <1>13, <2>1, <2>3
    <3>3. \A b \in Agents \ {a, h} : b \in Owners' <=> b \in Owners
      BY <1>1, <1>6, <1>7, <1>13
    <3>4. Owners' = (Owners \ {a}) \cup {h}
      BY <1>2, <1>7, <2>1, <3>1, <3>2, <3>3
    <3> QED
      BY <1>2, <1>4, <1>13, <3>1, <3>4, SwapCardinality
  <2> QED
    BY <2>2, <2>3
<1> QED
  BY <1>11, <1>12, <1>13 DEF Move, PermitMove

---------------------------------------------------------------------------
(* Phases and the barrier. *)

\* After close, tasks leave operations and enter none.
LEMMA MoveTracked ==
    ASSUME LifetimeInv, closed, NEW a \in Agents, NEW r, Move(a, r)
    PROVE  Tracked' \subseteq Tracked
<1>1. tasks \in [Tasks -> 0..2] /\ (Ops(run[a]) = 0 => Ops(r) = 0)
  BY AgentFacts DEF Move, CloseMove
<1>2. \A t \in Tasks : tasks'[t] = IF t = a THEN Ops(r) ELSE tasks[t]
  BY DEF Move, Moves
<1>3. a \in Tasks => tasks[a] = Ops(run[a])
  BY AgentFacts
<1> QED
  BY <1>1, <1>2, <1>3 DEF Tracked, Ops

LEMMA MoveUntracked ==
    ASSUME LifetimeInv, NEW a \in Agents, NEW r, Move(a, r)
    PROVE  NothingUntracked'
<1> SUFFICES ASSUME NEW h \in native' \ resources'
             PROVE  \E t \in Tasks : run'[t].pc = "io" /\ run'[t].on = h /\ run'[t].fn \in Executes
  BY DEF NothingUntracked, At, Executes
<1>1. run'[a] = r /\ \A b \in Agents \ {a} : run'[b] = run[b]
  BY MoveRuns
<1>2. NativeMove(a, r)
  BY DEF Move, Moves
<1>3. CASE h \in native \ resources
  <2>1. PICK t \in Tasks : run[t].pc = "io" /\ run[t].on = h /\ run[t].fn \in Executes
    BY <1>3 DEF LifetimeInv, Barrier, NothingUntracked, At, Executes
  <2>2. t # a
    BY <1>2, <2>1 DEF NativeMove
  <2> QED
    BY <1>1, <2>1, <2>2, HandleFacts
<1>4. CASE h \notin native \ resources
  <2>1. CASE native' = native /\ \E k \in Handles \ native : resources' = resources \ {k}
    BY <1>4, <2>1
  <2>2. CASE native' \subseteq native /\ resources' = resources
    BY <1>4, <2>2
  <2>3. CASE /\ a \in Tasks /\ r.pc = "io" /\ native' = native \cup {r.on}
             /\ resources' = IF r.fn \in Executes THEN resources ELSE resources \cup {r.on}
    BY <1>1, <1>4, <2>3
  <2> QED
    BY <1>2, <2>1, <2>2, <2>3, MoveNative DEF NativeMove
<1> QED
  BY <1>3, <1>4

\* Once resources are being closed, no move opens anything.
LEMMA MoveLate ==
    ASSUME LifetimeInv, closer.pc \in {"resources", "backend", "done"},
           NEW a \in Agents, NEW r, Move(a, r)
    PROVE  /\ native' \subseteq native /\ resources' \subseteq resources
           /\ a \in Tasks => run[a].pc \notin {"command", "pool", "undo"}
<1>1. ASSUME a \in Tasks PROVE run[a].pc \notin {"command", "pool", "undo"}
  <2>1. CASE run[a].pc = "command"
    <3>1. run[a].fn \in {"command", "command_long"}
      BY <1>1, <2>1, AgentFacts, RunFacts DEF TaskRun, PubSubRun, OwnedRun
    <3> QED
      BY <1>1, <2>1, <3>1, LateFacts DEF Ops, Initiated
  <2>2. CASE run[a].pc = "pool"
    BY <1>1, <2>2, PoolFacts, LateFacts
  <2>3. CASE run[a].pc = "undo"
    BY <1>1, <2>3, ConnectFacts, LateFacts
  <2> QED
    BY <2>1, <2>2, <2>3
<1> QED
  BY <1>1, MoveNative

LEMMA MovePhases ==
    ASSUME LifetimeInv, NEW a \in Agents, NEW r, Move(a, r), UNCHANGED <<closed, closer>>
    PROVE  Phases' /\ Barrier'
<1>1. /\ run'[a] = r /\ AgentRun(a, r) /\ \A b \in Agents \ {a} : run'[b] = run[b]
  BY MoveRuns
<1>2. CloseMove(a, r)
  BY DEF Move
<1>3. Phases /\ Barrier
  BY DEF LifetimeInv
<1>4. closed => Tracked' \subseteq Tracked
  BY MoveTracked
<1>5. a \in Handles => closer.pc = "resources"
  BY <1>2, HandlePhase DEF CloseMove
<1>6. closer.pc \in {"resources", "backend", "done"} => native' \subseteq native /\ resources' \subseteq resources
  BY MoveLate
<1>7. closed' => closer'.initiator \in Tasks /\ Initiated(run'[closer'.initiator])
  <2>1. closed => closer.initiator \in Tasks /\ Initiated(run[closer.initiator])
    BY <1>3 DEF Phases
  <2>2. closed => (Initiated(run[a]) => Initiated(r))
    BY <1>2 DEF CloseMove
  <2> QED
    BY <1>1, <2>1, <2>2, HandleFacts
<1>8. closer.pc = "resources" =>
         \A h \in resources' : run'[h].pc \in {"aclose_lock", "closing_native"}
  <2> SUFFICES ASSUME closer.pc = "resources", NEW h \in resources'
               PROVE  run'[h].pc \in {"aclose_lock", "closing_native"}
    OBVIOUS
  <2>1. h \in resources /\ h \in Handles /\ h \in Agents
    BY <1>6, StateFacts, HandleFacts
  <2>2. CASE h = a
    <3>1. HandleRun(a, r) /\ r # Idle /\ r # Ended
      BY <1>1, <1>2, <2>1, <2>2, HandleFacts DEF AgentRun, CloseMove
    <3> QED
      BY <1>1, <2>2, <3>1 DEF HandleRun
  <2>3. CASE h # a
    BY <1>1, <1>3, <2>1, <2>3 DEF Phases
  <2> QED
    BY <2>2, <2>3
<1>9. closer.pc # "resources" => \A h \in Handles : run'[h] = run[h]
  BY <1>1, <1>5, HandleFacts
<1>10. closed <=> closer.pc # "none"
  BY <1>3 DEF Phases
<1>11. Phases'
  BY <1>3, <1>4, <1>7, <1>8, <1>9, <1>10 DEF Phases, Initiated
<1>12. closer.pc = "done" => ~sockets'
  <2> SUFFICES ASSUME closer.pc = "done" PROVE ~sockets'
    OBVIOUS
  <2>1. ~sockets /\ native = {} /\ closed
    BY <1>3, <1>10 DEF Barrier
  <2>2. a \in Tasks
    BY <1>5, AgentFacts
  <2>3. run[a].pc \notin {"command", "pool", "undo"}
    BY <2>2, MoveLate
  <2> QED
    BY <1>2, <2>1, <2>3 DEF CloseMove
<1>13. Barrier'
  BY <1>3, <1>4, <1>6, <1>10, <1>12, MoveUntracked DEF Barrier
<1> QED
  BY <1>11, <1>13

LEMMA MoveStep ==
    ASSUME LifetimeInv, NEW a \in Agents, NEW r, Move(a, r), UNCHANGED <<closed, closer>>
    PROVE  LifetimeInv'
<1>1. TypeOK'
  BY MoveRuns, MovePermits DEF LifetimeInv, TypeOK, Runs, Move, LockMove
<1> QED
  BY <1>1, MoveRuns, MoveNative, MovePermits, MovePhases DEF LifetimeInv

LEMMA CloseStep ==
    ASSUME LifetimeInv, NEW t \in Tasks, Close(t)
    PROVE  LifetimeInv'
<1>1. PICK r : Move(t, r) /\ r.pc = "closing"
  BY CloseMoves
<1>2. /\ t \in Agents /\ t \notin Handles /\ closer.pc # "done" /\ closed' = TRUE
      /\ closer' = IF closer.pc = "none" THEN [closer EXCEPT !.pc = "created", !.initiator = t] ELSE closer
      /\ UNCHANGED <<native, resources, sockets, tasks>>
  BY HandleFacts DEF Close
<1>3. closer \in [pc : {"none", "created", "tasks", "resources", "backend", "done"},
                  initiator : Tasks \cup {NULL}, awaited : SUBSET Tasks]
  BY DEF LifetimeInv, TypeOK
<1>4. CASE closer.pc # "none"
  <2>1. UNCHANGED <<closed, closer>>
    BY <1>2, <1>4 DEF LifetimeInv, Phases
  <2> QED
    BY <1>1, <1>2, <2>1, MoveStep
<1>5. CASE closer.pc = "none"
  <2>1. /\ closer' \in [pc : {"none", "created", "tasks", "resources", "backend", "done"},
                        initiator : Tasks \cup {NULL}, awaited : SUBSET Tasks]
        /\ closer'.pc = "created" /\ closer'.initiator = t
    BY <1>2, <1>3, <1>5
  <2>2. TypeOK'
    BY <1>1, <1>2, <2>1, MoveRuns, MovePermits DEF LifetimeInv, TypeOK, Runs, Move, LockMove
  <2>3. run'[t] = r /\ \A b \in Agents \ {t} : run'[b] = run[b]
    BY <1>1, <1>2, MoveRuns
  <2>4. \A h \in Handles : run'[h] = Idle
    BY <1>2, <1>5, <2>3, HandleFacts DEF LifetimeInv, Phases
  <2>5. Phases'
    BY <1>1, <1>2, <2>1, <2>3, <2>4 DEF Phases, Initiated
  <2>6. Barrier'
    BY <1>1, <1>2, <2>1, MoveUntracked DEF Barrier
  <2> QED
    BY <1>1, <1>2, <2>2, <2>5, <2>6, MoveRuns, MoveNative, MovePermits DEF LifetimeInv
<1> QED
  BY <1>4, <1>5

---------------------------------------------------------------------------
(* The steps of _close, and the invariant. *)

\* A step that moves nobody and changes neither handles nor permits.
LEMMA FrameStep ==
    ASSUME LifetimeInv,
           UNCHANGED <<long_in_use, tasks, resources, native, lock, run>>,
           TypeOK', Phases', Barrier'
    PROVE  LifetimeInv'
<1>1. RunsInPlace' /\ OpsExact' /\ LocksExact' /\ NativeFree' /\ PermitsExact'
  BY DEF LifetimeInv, RunsInPlace, OpsExact, LocksExact, NativeFree, PermitsExact, PermitOwners,
     Holds
<1> QED
  BY <1>1 DEF LifetimeInv

LEMMA CloserTypes ==
    ASSUME LifetimeInv
    PROVE  closer \in [pc : {"none", "created", "tasks", "resources", "backend", "done"},
                       initiator : Tasks \cup {NULL}, awaited : SUBSET Tasks]
BY DEF LifetimeInv, TypeOK

LEMMA CancelStep ==
    ASSUME LifetimeInv, NEW t \in Tasks, Cancel(t)
    PROVE  LifetimeInv'
<1>1. /\ UNCHANGED <<closed, long_in_use, tasks, resources, native, lock, connected,
                     sockets, run, closer>>
      /\ cancelled' \subseteq Tasks
  BY StateFacts DEF Cancel
<1>2. TypeOK'
  BY <1>1 DEF LifetimeInv, TypeOK
<1>3. Phases'
  BY <1>1 DEF LifetimeInv, Phases, Tracked
<1>4. Barrier'
  BY <1>1 DEF LifetimeInv, Barrier, NothingUntracked, At, Tracked
<1> QED
  BY <1>1, <1>2, <1>3, <1>4, FrameStep

LEMMA CancelTasksStep ==
    ASSUME LifetimeInv, CancelTasks
    PROVE  LifetimeInv'
<1> DEFINE victims == Tracked \ {closer.initiator}
<1>1. /\ closer.pc = "created" /\ cancelled' = cancelled \cup victims
      /\ closer' = [closer EXCEPT !.pc = "tasks", !.awaited = victims]
      /\ UNCHANGED <<closed, long_in_use, tasks, resources, native, lock, connected, sockets, run>>
  BY DEF CancelTasks
<1>2. victims \subseteq Tasks
  BY DEF Tracked
<1>3. /\ closer' \in [pc : {"none", "created", "tasks", "resources", "backend", "done"},
                      initiator : Tasks \cup {NULL}, awaited : SUBSET Tasks]
      /\ closer'.pc = "tasks" /\ closer'.initiator = closer.initiator /\ closer'.awaited = victims
  BY <1>1, <1>2, CloserTypes
<1>4. TypeOK'
  BY <1>1, <1>2, <1>3 DEF LifetimeInv, TypeOK
<1>5. Tracked' = Tracked
  BY <1>1 DEF Tracked
<1>6. Phases'
  BY <1>1, <1>3, <1>5 DEF LifetimeInv, Phases
<1>7. Barrier'
  BY <1>1, <1>3 DEF LifetimeInv, Barrier, NothingUntracked, At
<1> QED
  BY <1>1, <1>4, <1>6, <1>7, FrameStep

LEMMA CloseBackendStep ==
    ASSUME LifetimeInv, CloseBackend \/ BackendClosed
    PROVE  LifetimeInv'
<1>1. /\ UNCHANGED <<closed, long_in_use, tasks, resources, native, lock, connected, run, cancelled>>
      /\ closer.pc \in {"resources", "backend"}
      /\ \/ closer.pc = "resources" /\ closer' = [closer EXCEPT !.pc = "backend"]
            /\ \A h \in Handles : run[h] \in {Idle, Ended}
            /\ sockets' = sockets
         \/ closer.pc = "backend" /\ closer' = [closer EXCEPT !.pc = "done"] /\ sockets' = FALSE
  BY DEF CloseBackend, BackendClosed
<1>2. /\ closer' \in [pc : {"none", "created", "tasks", "resources", "backend", "done"},
                      initiator : Tasks \cup {NULL}, awaited : SUBSET Tasks]
      /\ closer'.pc = IF closer.pc = "resources" THEN "backend" ELSE "done"
      /\ closer'.initiator = closer.initiator /\ closer'.awaited = closer.awaited
  BY <1>1, CloserTypes
<1>3. TypeOK'
  <2>1. sockets' \in BOOLEAN
    <3>1. CASE CloseBackend
      BY <3>1, StateFacts DEF CloseBackend
    <3>2. CASE BackendClosed
      BY <3>2 DEF BackendClosed
    <3> QED
      BY <3>1, <3>2
  <2> QED
    BY <1>1, <1>2, <2>1 DEF LifetimeInv, TypeOK
<1>4. Tracked' = Tracked
  BY <1>1 DEF Tracked
<1>5. \A h \in Handles : run[h] \in {Idle, Ended}
  BY <1>1 DEF LifetimeInv, Phases
<1>6. Phases'
  BY <1>1, <1>2, <1>4, <1>5 DEF LifetimeInv, Phases
<1>7. native = {} /\ resources = {}
  <2>1. CASE closer.pc = "backend"
    BY <2>1 DEF LifetimeInv, Barrier
  <2>2. CASE closer.pc = "resources"
    <3>1. resources = {}
      BY <1>5, <2>2, RunFacts, StateFacts DEF LifetimeInv, Phases
    <3>2. ASSUME NEW h \in native PROVE FALSE
      <4>1. PICK t \in Tasks : run[t].pc = "io" /\ run[t].fn \in Executes
        BY <3>1, <3>2 DEF LifetimeInv, Barrier, NothingUntracked, At, Executes
      <4> QED
        BY <2>2, <4>1, IoFacts, LateFacts DEF Initiated, Executes
    <3> QED
      BY <3>1, <3>2
  <2> QED
    BY <1>1, <2>1, <2>2
<1>8. Barrier'
  <2>1. closer'.pc = "done" => ~sockets'
    BY <1>1, <1>2
  <2>2. Tracked \subseteq {closer.initiator}
    BY <1>1 DEF LifetimeInv, Barrier
  <2>3. native' = {} /\ resources' = {}
    BY <1>1, <1>7
  <2> QED
    BY <1>2, <1>4, <2>1, <2>2, <2>3 DEF Barrier, NothingUntracked
<1> QED
  BY <1>1, <1>3, <1>6, <1>8, FrameStep

\* gather of the tasks returned: every resource gets an aclose() at once, and
\* a permit of a native object goes to the aclose() that took it.
LEMMA CloseResourcesStep ==
    ASSUME LifetimeInv, CloseResources
    PROVE  LifetimeInv'
<1>1. /\ closer.pc = "tasks" /\ closer' = [closer EXCEPT !.pc = "resources"]
      /\ native' = native \ (resources \ PubSubs)
      /\ resources' = resources \cap (native \cup PubSubs)
      /\ UNCHANGED <<closed, long_in_use, tasks, lock, connected, sockets, cancelled>>
  BY DEF CloseResources
<1>2. /\ closer' \in [pc : {"none", "created", "tasks", "resources", "backend", "done"},
                      initiator : Tasks \cup {NULL}, awaited : SUBSET Tasks]
      /\ closer'.pc = "resources" /\ closer'.initiator = closer.initiator
      /\ closer'.awaited = closer.awaited
  BY <1>1, CloserTypes
<1>3. /\ resources \subseteq Handles /\ native \subseteq Handles
      /\ run \in [Agents -> Runs] /\ tasks \in [Tasks -> 0..2]
  BY StateFacts DEF LifetimeInv, TypeOK, Runs
<1>4. \A h \in Handles : run[h] = Idle
  BY <1>1 DEF LifetimeInv, Phases
<1>5. Tracked \subseteq {closer.initiator} /\ Tracked' = Tracked
  <2>1. Tracked \subseteq closer.awaited \cup {closer.initiator}
    BY <1>1 DEF LifetimeInv, Phases
  <2>2. ASSUME NEW t \in closer.awaited PROVE t \notin Tracked
    <3>1. t \in Tasks /\ run[t].pc = "ended"
      BY <2>2, CloserTypes DEF CloseResources, At
    <3>2. tasks[t] = 0
      BY <3>1, AppFacts
    <3> QED
      BY <3>2 DEF Tracked
  <2> QED
    BY <1>1, <2>1, <2>2 DEF Tracked
<1>6. \A t \in Tasks : Ops(run[t]) # 0 => Initiated(run[t])
  <2>1. Initiated(run[closer.initiator])
    BY <1>1 DEF LifetimeInv, Phases
  <2>2. \A t \in Tasks : tasks[t] = Ops(run[t]) /\ Ops(run[t]) \in Nat
    BY DEF LifetimeInv, OpsExact, Ops
  <2> QED
    BY <1>5, <2>1, <2>2 DEF Tracked
<1>7. native \subseteq resources
  <2> SUFFICES ASSUME NEW h \in native \ resources PROVE FALSE
    OBVIOUS
  <2>1. PICK t \in Tasks : run[t].pc = "io" /\ run[t].fn \in Executes
    BY DEF LifetimeInv, Barrier, NothingUntracked, At, Executes
  <2> QED
    BY <1>6, <2>1, IoFacts DEF Initiated, Executes
<1> DEFINE lk(a) == [pc |-> "aclose_lock", on |-> a, fn |-> "aclose", exc |-> "none"]
           cn(a) == [pc |-> "closing_native", on |-> a, fn |-> "aclose", exc |-> "none"]
<1>8. /\ run' = [a \in Agents |->
                    IF a \notin resources THEN run[a]
                    ELSE IF a \in PubSubs THEN lk(a)
                    ELSE IF a \in native THEN cn(a)
                    ELSE Ended]
      /\ resources \subseteq Agents
  BY <1>3, HandleFacts DEF CloseResources
<1>9. \A a \in Handles : lk(a) \in Runs /\ cn(a) \in Runs
  BY DEF Runs, Pcs, Fns
<1>10. /\ \A a \in Agents \ resources : run'[a] = run[a]
       /\ \A h \in resources : h \in PubSubs => run'[h] = lk(h)
       /\ \A h \in resources : h \notin PubSubs /\ h \in native => run'[h] = cn(h)
       /\ \A h \in resources : h \notin PubSubs /\ h \notin native => run'[h] = Ended
       /\ run' \in [Agents -> Runs]
  BY <1>3, <1>8, <1>9, RunFacts
<1> HIDE DEF lk, cn
<1>11. /\ \A h : lk(h).pc = "aclose_lock" /\ lk(h).on = h /\ lk(h).fn = "aclose"
       /\ \A h : cn(h).pc = "closing_native" /\ cn(h).on = h /\ cn(h).fn = "aclose"
  BY DEF lk, cn
<1>12. \A t \in Tasks : t \in Agents /\ t \notin resources /\ run'[t] = run[t]
  BY <1>3, <1>10, HandleFacts
\* What became of a handle.
<1>13. ASSUME NEW h \in Handles
       PROVE  \/ run'[h] = Idle /\ h \notin resources
              \/ run'[h] = Ended /\ h \notin native /\ h \notin PubSubs
              \/ run'[h] = lk(h) /\ h \in PubSubs
              \/ run'[h] = cn(h) /\ h \notin PubSubs /\ h \in native /\ h \in resources
  BY <1>4, <1>10, HandleFacts
<1>14. native' \subseteq native /\ native' \subseteq PubSubs /\ native' \subseteq resources'
       /\ resources' \subseteq resources
  BY <1>1, <1>7
<1>15. TypeOK'
  BY <1>1, <1>2, <1>3, <1>10, <1>14 DEF LifetimeInv, TypeOK, Runs
<1>16. RunsInPlace'
  <2>1. \A h \in Handles : HandleRun(h, run'[h])
    BY <1>11, <1>13 DEF HandleRun
  <2> QED
    BY <1>12, <2>1 DEF LifetimeInv, RunsInPlace
<1>17. OpsExact'
  BY <1>1, <1>12 DEF LifetimeInv, OpsExact
<1>18. LocksExact'
  <2> SUFFICES ASSUME NEW l \in Locks, NEW a \in Agents
               PROVE  lock[l] = a <=> Holds(run'[a], l)
    BY <1>1 DEF LocksExact, Holds
  <2>1. CASE a \in Tasks
    BY <1>12, <2>1, StateFacts
  <2>2. CASE a \in Handles
    <3>1. ~Holds(run[a], l)
      BY <1>4, <2>2, RunFacts DEF Holds
    <3>2. ~Holds(run'[a], l)
      BY <1>11, <1>13, <2>2, RunFacts, HandleFacts DEF Holds
    <3> QED
      BY <3>1, <3>2, StateFacts
  <2> QED
    BY <2>1, <2>2 DEF Agents
<1>19. NativeFree'
  <2> SUFFICES ASSUME NEW a \in Agents, run'[a].pc \in {"pool", "closing_native"}
               PROVE  run'[a].on \notin native'
    BY DEF NativeFree
  <2>1. CASE a \in Tasks
    BY <1>12, <1>14, <2>1, StateFacts
  <2>2. CASE a \in Handles
    BY <1>11, <1>13, <1>14, <2>2, RunFacts
  <2> QED
    BY <2>1, <2>2 DEF Agents
<1>20. PermitsExact'
  <2>1. PermitOwners = Owners /\ Owners \subseteq Agents
    BY StateFacts, OwnersFacts DEF LifetimeInv
  <2>2. PermitOwners' = Owners' /\ Owners' \subseteq Agents
    <3>1. \A h \in Handles : run'[h].fn \notin LongFns
      BY <1>16, RunFacts DEF RunsInPlace, HandleRun, LongFns
    <3>2. native' \subseteq Handles
      BY <1>3, <1>14
    <3> QED
      BY <3>1, <3>2 DEF PermitOwners, Owners, Owed, Agents
  <2>3. /\ \A b \in Agents : b \in Owners <=> Owed(run[b]) \/ b \in native \cap Protocols
        /\ \A b \in Agents : b \in Owners' <=> Owed(run'[b]) \/ b \in native' \cap Protocols
    BY DEF Owners, Owed
  <2>4. \A b \in Tasks : b \in Owners' <=> b \in Owners
    BY <1>3, <1>12, <1>14, <2>3, HandleFacts
  <2>5. ASSUME NEW h \in Handles PROVE h \in Owners' <=> h \in Owners
    <3>1. ~Owed(run[h])
      BY <1>4, RunFacts DEF Owed, LongFns
    <3>2. Owed(run'[h]) <=> h \notin PubSubs /\ h \in native /\ h \in Protocols
      BY <1>4, <1>7, <1>10, <1>11, <1>13, RunFacts, HandleFacts DEF Owed, LongFns
    <3>3. h \in native' <=> h \in native /\ h \in PubSubs
      BY <1>1, <1>7
    <3> QED
      BY <2>3, <3>1, <3>2, <3>3, HandleFacts
  <2>6. Owners' = Owners
    BY <2>1, <2>2, <2>4, <2>5 DEF Agents
  <2> QED
    BY <1>1, <2>1, <2>2, <2>6 DEF LifetimeInv, PermitsExact
<1>21. Phases'
  <2>1. closed /\ closer.initiator \in Tasks /\ Initiated(run[closer.initiator])
    BY <1>1 DEF LifetimeInv, Phases
  <2>2. \A h \in resources' : run'[h].pc \in {"aclose_lock", "closing_native"}
    BY <1>1, <1>10, <1>11
  <2>3. run'[closer.initiator] = run[closer.initiator]
    BY <1>12, <2>1
  <2> QED
    BY <1>1, <1>2, <1>5, <2>1, <2>2, <2>3 DEF Phases
<1>22. Barrier'
  BY <1>2, <1>5, <1>14 DEF Barrier, NothingUntracked
<1> QED
  BY <1>15, <1>16, <1>17, <1>18, <1>19, <1>20, <1>21, <1>22 DEF LifetimeInv

LEMMA LifetimeInit == Init => LifetimeInv
<1> SUFFICES ASSUME Init PROVE LifetimeInv
  OBVIOUS
<1>1. /\ run = [a \in Agents |-> Idle] /\ native = {} /\ resources = {} /\ long_in_use = 0
      /\ lock = [l \in Locks |-> NULL] /\ tasks = [t \in Tasks |-> 0]
      /\ closer = [pc |-> "none", initiator |-> NULL, awaited |-> {}]
      /\ closed = FALSE /\ connected = FALSE /\ sockets = FALSE /\ cancelled = {}
  BY DEF Init
<1>2. TypeOK
  <2>1. closed \in BOOLEAN /\ connected \in BOOLEAN /\ sockets \in BOOLEAN
    BY <1>1
  <2>2. /\ closer \in [pc : {"none", "created", "tasks", "resources", "backend", "done"},
                       initiator : Tasks \cup {NULL}, awaited : SUBSET Tasks]
        /\ long_in_use \in 0..Maximum /\ tasks \in [Tasks -> 0..2]
        /\ lock \in [Locks -> Agents \cup {NULL}]
    BY <1>1, HandlesAssumption
  <2>3. run \in [Agents -> Runs]
    BY <1>1, RunFacts
  <2> QED
    BY <1>1, <2>1, <2>2, <2>3 DEF TypeOK, Runs
<1>3. RunsInPlace /\ OpsExact /\ NativeFree
  BY <1>1, RunFacts, HandleFacts DEF RunsInPlace, TaskRun, HandleRun, OpsExact, Ops, NativeFree
<1>4. LocksExact
  BY <1>1, RunFacts, HandlesAssumption DEF LocksExact, Holds
<1>5. Phases /\ Barrier
  BY <1>1, HandleFacts DEF Phases, Barrier, NothingUntracked
<1>6. PermitsExact
  <2>1. PermitOwners = {}
    BY <1>1, RunFacts, HandleFacts DEF PermitOwners, LongFns
  <2> QED
    BY <1>1, <2>1, FS_EmptySet DEF PermitsExact
<1> QED
  BY <1>2, <1>3, <1>4, <1>5, <1>6 DEF LifetimeInv

LEMMA LifetimeStep == LifetimeInv /\ [Next]_vars => LifetimeInv'
<1> SUFFICES ASSUME LifetimeInv, [Next]_vars PROVE LifetimeInv'
  OBVIOUS
<1>1. ASSUME NEW a \in Agents, AgentAction(a) PROVE LifetimeInv'
  BY <1>1, ActionsMove, MoveStep
<1>2. ASSUME NEW t \in Tasks, CallStep(t) \/ ServerStep(t) \/ LocalStep(t) PROVE LifetimeInv'
  BY <1>1, <1>2, CloseStep, CancelStep, HandleFacts DEF AgentAction
<1>3. ASSUME NEW a \in Agents, AcloseStep(a) PROVE LifetimeInv'
  BY <1>1, <1>3 DEF AgentAction
<1>4. CASE CloserStep
  BY <1>4, CancelTasksStep, CloseResourcesStep, CloseBackendStep DEF CloserStep
<1>5. CASE UNCHANGED vars
  <2>1. UNCHANGED <<closed, long_in_use, tasks, resources, native, lock, connected, sockets,
                    run, cancelled, closer>>
    BY <1>5 DEF vars
  <2>2. TypeOK'
    BY <2>1 DEF LifetimeInv, TypeOK
  <2>3. Phases'
    BY <2>1 DEF LifetimeInv, Phases, Tracked
  <2>4. Barrier'
    BY <2>1 DEF LifetimeInv, Barrier, NothingUntracked, At, Tracked
  <2> QED
    BY <2>1, <2>2, <2>3, <2>4, FrameStep
<1> QED
  BY <1>2, <1>3, <1>4, <1>5 DEF Next

LEMMA LifetimeHolds == Spec => []LifetimeInv
BY LifetimeInit, LifetimeStep, PTL DEF Spec

---------------------------------------------------------------------------
(* Theorems. *)

\* Type correctness.  It says in particular that the permits in use never
\* exceed max_long_connections and never go below zero, and that no task is
\* counted in more than two operations (_lifetime.py).
THEOREM TypeCorrect == Spec => []TypeOK
<1>1. LifetimeInv => TypeOK
  BY DEF LifetimeInv
<1> QED
  BY <1>1, LifetimeHolds, PTL

\* Every long permit of the client has one owner and every owner one permit:
\* acquire and release of _lifetime.py stay balanced through errors and
\* cancellations at every await of commands, subscriptions, monitors and
\* pipelines, and through the aclose() calls of _close.
THEOREM PermitsNeverLeak == Spec => []PermitsExact
<1>1. LifetimeInv => PermitsExact
  BY DEF LifetimeInv
<1> QED
  BY <1>1, LifetimeHolds, PTL

\* The barrier of _close: close finds whatever is open, closes resources and
\* backend only when no task but its initiator is in an operation, and
\* nothing is open when it is done, nor ever after.
THEOREM CloseIsABarrier == Spec => []Barrier
<1>1. LifetimeInv => Barrier
  BY DEF LifetimeInv
<1> QED
  BY <1>1, LifetimeHolds, PTL

---------------------------------------------------------------------------
(* A task that close waits for and that waits for close. *)

\* t was cancelled by _close, has had its CancelledError, and waits for the
\* _close_task that waits for it (_lifetime.py:62 and :70).
WaitsForItself(t) ==
    /\ closer.pc = "tasks" /\ t \in closer.awaited
    /\ At(t, "closing") /\ t \notin cancelled

\* Nothing but a cancellation is left for t to do, and nobody else's step
\* delivers one or takes _close further.
LEMMA SelfWaitAgent ==
    ASSUME LifetimeInv, NEW t \in Tasks, WaitsForItself(t), NEW a \in Agents, AgentAction(a)
    PROVE  WaitsForItself(t)'
<1>1. closer.pc = "tasks" /\ run[t].pc = "closing" /\ t \notin cancelled
  BY DEF WaitsForItself, At
<1>2. a # t
  <2> SUFFICES ASSUME a = t PROVE FALSE
    OBVIOUS
  <2>1. ~ServerStep(t)
    BY <1>1 DEF ServerStep, CommandEnds, IoEnds, At
  <2>2. ~LocalStep(t)
    BY <1>1 DEF LocalStep, ConnectLocked, PingEnds, UndoEnds, GetLocked, PoolEnds, LockCancelled,
       CloseReturns, TaskEnds, At
  <2>3. ~(CallStep(t) /\ ~Close(t) /\ ~Cancel(t))
    BY <1>1 DEF CallStep, Command, Connect, PubSubCall, MonitorEnter, NativeCall, PipelineReady,
       ExecuteRefused, Aclose, At
  <2>4. ~AcloseStep(t)
    BY <1>1 DEF AcloseStep, AcloseLocked, NativeClosed, At
  <2> QED
    BY <2>1, <2>2, <2>3, <2>4 DEF AgentAction
<1>3. run'[t] = run[t] /\ UNCHANGED closer
  BY <1>2, ActionsMove, MoveRuns, HandleFacts
<1>4. cancelled' \subseteq cancelled
  <2>1. CASE ServerStep(a)
    BY <2>1 DEF ServerStep, CommandEnds, IoEnds, Delivered
  <2>2. CASE LocalStep(a)
    BY <2>2 DEF LocalStep, ConnectLocked, PingEnds, UndoEnds, GetLocked, PoolEnds, LockCancelled,
       CloseReturns, TaskEnds, Delivered
  <2>3. CASE CallStep(a) /\ ~Close(a) /\ ~Cancel(a)
    BY <2>3 DEF CallStep, Command, Connect, PubSubCall, MonitorEnter, NativeCall, PipelineReady,
       ExecuteRefused, Aclose
  <2>4. CASE AcloseStep(a)
    BY <2>4 DEF AcloseStep, AcloseLocked, NativeClosed, Delivered
  <2> QED
    BY <2>1, <2>2, <2>3, <2>4 DEF AgentAction
<1> QED
  BY <1>3, <1>4 DEF WaitsForItself, At

LEMMA SelfWaitStep ==
    ASSUME LifetimeInv, NEW t \in Tasks, WaitsForItself(t), [Next]_vars
    PROVE  WaitsForItself(t)' \/ Cancel(t)
<1>1. /\ closer.pc = "tasks" /\ t \in closer.awaited /\ run[t].pc = "closing"
      /\ t \notin cancelled /\ t \in Agents /\ run \in [Agents -> Runs]
  BY HandleFacts, AgentFacts DEF WaitsForItself, At
<1>2. ASSUME NEW u \in Tasks, Close(u) PROVE WaitsForItself(t)'
  <2>1. u # t
    BY <1>1, <1>2 DEF Close, At
  <2> QED
    BY <1>1, <1>2, <2>1 DEF Close, Goto, WaitsForItself, At
<1>3. ASSUME NEW u \in Tasks, Cancel(u), u # t PROVE WaitsForItself(t)'
  BY <1>1, <1>3 DEF Cancel, WaitsForItself, At
<1>4. ASSUME NEW u \in Tasks, CallStep(u) \/ ServerStep(u) \/ LocalStep(u)
      PROVE  WaitsForItself(t)' \/ Cancel(t)
  BY <1>2, <1>3, <1>4, SelfWaitAgent, HandleFacts DEF AgentAction
<1>5. ASSUME NEW a \in Agents, AcloseStep(a) PROVE WaitsForItself(t)'
  BY <1>5, SelfWaitAgent DEF AgentAction
<1>6. ~CloserStep
  BY <1>1 DEF CloserStep, CancelTasks, CloseResources, CloseBackend, BackendClosed, At
<1>7. CASE UNCHANGED vars
  BY <1>7 DEF vars, WaitsForItself, At
<1> QED
  BY <1>4, <1>5, <1>6, <1>7 DEF Next

\* The exception of CloseEnds is a deadlock: once a task waits for the close
\* that waits for it, no step of _close, of that task or of any other ends
\* this, but somebody's further cancellation of that task.
THEOREM SelfWaitLasts ==
    ASSUME NEW t \in Tasks
    PROVE  Spec => [][WaitsForItself(t) => WaitsForItself(t)' \/ Cancel(t)]_vars
<1>1. LifetimeInv /\ [Next]_vars => [WaitsForItself(t) => WaitsForItself(t)' \/ Cancel(t)]_vars
  BY SelfWaitStep
<1> QED
  BY <1>1, LifetimeHolds, PTL DEF Spec
=============================================================================
