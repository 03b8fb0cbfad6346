--------------------------- MODULE TaskRegistry ---------------------------
(***************************************************************************)
(* The module-level registry that the decorators fill while modules are    *)
(* imported (scheduler/decorator.py).  Each decorator is a step: they are  *)
(* applied in any order to any function, and to one function several       *)
(* times, as decorators stack.  A decorator that raises changes nothing.   *)
(***************************************************************************)
EXTENDS Naturals, Sequences, Functions

CONSTANTS
    Names, Funcs,   \* task names and decorated functions
    MaxSchedules    \* bound: nothing in the code limits the ScheduleDefs

ASSUME RegistryAssumption == MaxSchedules \in Nat

VARIABLES
    task_defs,      \* _TASK_DEFS, in the order of its insertions
    schedule_defs,  \* _SCHEDULE_DEFS, _TRIGGER_DEFS and _ONESHOT_DEFS:
    trigger_defs,   \*   the task_name of each definition
    oneshot_defs

registry == <<task_defs, schedule_defs, trigger_defs, oneshot_defs>>

---------------------------------------------------------------------------

RegistryInit ==
    /\ task_defs = <<>>
    /\ schedule_defs = <<>> /\ trigger_defs = <<>> /\ oneshot_defs = <<>>

Registered == {td.name : td \in Range(task_defs)}

\* The TaskDefs of a function; a function may have several names.
DefsOf(f) == {i \in DOMAIN task_defs : task_defs[i].func = f}

\* The first TaskDef whose func is f, which is the one a decorator finds.
TaskOf(f) ==
    task_defs[CHOOSE i \in DefsOf(f) : \A j \in DefsOf(f) : i <= j].name

\* Mutant: a name may be registered again.
AnyName(n) == TRUE

NewName(n) == n \notin Registered

\* @task(name=n) on f.
Task(n, f) ==
    /\ NewName(n)
    /\ task_defs' = Append(task_defs, [name |-> n, func |-> f])
    /\ UNCHANGED <<schedule_defs, trigger_defs, oneshot_defs>>

\* @schedule on f, which looks at no other mode.
Schedule(f) ==
    /\ DefsOf(f) # {}
    /\ Len(schedule_defs) < MaxSchedules
    /\ schedule_defs' = Append(schedule_defs, TaskOf(f))
    /\ UNCHANGED <<task_defs, trigger_defs, oneshot_defs>>

Scheduled(n) == n \in Range(schedule_defs)

is_triggered_task(n) == n \in Range(trigger_defs)

DeclaredOneshot(n) == n \in Range(oneshot_defs)

\* Mutant: the checks of @trigger forget @oneshot.
TriggerOverOneshot(n) == ~Scheduled(n) /\ ~is_triggered_task(n)

\* None of the checks of @trigger raises.
MayTrigger(n) == ~Scheduled(n) /\ ~is_triggered_task(n) /\ ~DeclaredOneshot(n)

\* @trigger on f.
Trigger(f) ==
    /\ DefsOf(f) # {}
    /\ MayTrigger(TaskOf(f))
    /\ trigger_defs' = Append(trigger_defs, TaskOf(f))
    /\ UNCHANGED <<task_defs, schedule_defs, oneshot_defs>>

\* None of the checks of @oneshot raises.
MayOneshot(n) == ~Scheduled(n) /\ ~is_triggered_task(n) /\ ~DeclaredOneshot(n)

\* @oneshot(max_concurrency=...) on f.
Oneshot(f) ==
    /\ DefsOf(f) # {}
    /\ MayOneshot(TaskOf(f))
    /\ oneshot_defs' = Append(oneshot_defs, TaskOf(f))
    /\ UNCHANGED <<task_defs, schedule_defs, trigger_defs>>

RegistryNext ==
    \/ \E n \in Names, f \in Funcs : Task(n, f)
    \/ \E f \in Funcs : Schedule(f) \/ Trigger(f) \/ Oneshot(f)

RegistrySpec == RegistryInit /\ [][RegistryNext]_registry

---------------------------------------------------------------------------
(* Properties. *)

\* The registry is well formed: _TASK_DEFS is a dict, with one definition
\* per name, and every other definition is about a name that is in it, so
\* that task_defs[sd.task_name] in the scheduler does not raise.
WellFormed ==
    /\ task_defs \in Seq([name : Names, func : Funcs])
    /\ \A i, j \in DOMAIN task_defs : task_defs[i].name = task_defs[j].name => i = j
    /\ Range(schedule_defs) \cup Range(trigger_defs) \cup Range(oneshot_defs) \subseteq Registered

\* The modes submit_task chooses from exclude each other: whatever the order
\* of the decorators, a task has at most one TriggerDef or OneshotDef.
OneSubmissionMode == IsInjective(trigger_defs \o oneshot_defs)
=============================================================================
