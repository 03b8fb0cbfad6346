--------------------------- MODULE OneshotSubmit ---------------------------
(***************************************************************************)
(* Submission of oneshot tasks with a biz_name, by environments that share *)
(* one physical store: OneshotRunner.submit (runner/oneshot.py) over       *)
(* NamespacedTaskStore (store/namespaced.py) over the Redis store          *)
(* (store/redis.py) or the SQL store (store/sqlalchemy.py).                *)
(*                                                                         *)
(* Each await of a store command is a step, so the two look-ups and the    *)
(* insert of one submission interleave with those of others and with the   *)
(* removal of tasks that have run.  Names are sequences of tokens, because *)
(* a namespace is a prefix of the stored name.                             *)
(***************************************************************************)
EXTENDS Naturals, Sequences

CONSTANTS
    Envs,           \* environments that share the store
    Prefix,         \* the prefix of each, <<>> for none
    Names,          \* handler names, the same ones in every environment
    BizNames,       \* biz_name of a submission; NULL is a submission without
    Submitters,     \* callers of submit_task, each of which calls it once
    MaxTasks,       \* most tasks ever added
    Stores,         \* the stores to explore: "redis", "sql"
    NULL

\* The uuid of a task, here the order of its insertion.
Ids == 1..MaxTasks

VARIABLES
    store,      \* the store in use; never changes
    task,       \* every task ever added; state "in" is a member or a row
    call        \* the submission of each submitter

submission == <<store, task, call>>

---------------------------------------------------------------------------

to_store_name(e, n) == Prefix[e] \o n

StartsWith(s, p) == Len(p) <= Len(s) /\ SubSeq(s, 1, Len(p)) = p

\* Mutant: a name without the prefix passes as it is.
from_store_name_lax(e, s) ==
    IF StartsWith(s, Prefix[e]) THEN SubSeq(s, Len(Prefix[e]) + 1, Len(s)) ELSE s

\* The name in the environment e of a stored name, NULL if it is not e's.
from_store_name(e, s) ==
    IF StartsWith(s, Prefix[e]) THEN SubSeq(s, Len(Prefix[e]) + 1, Len(s)) ELSE NULL

\* No two environments store a handler under one name.
ASSUME NamespacesAssumption ==
    \A e, f \in Envs, n, m \in Names : to_store_name(e, n) = to_store_name(f, m) => e = f /\ n = m

ASSUME SubmitAssumption ==
    /\ MaxTasks \in Nat /\ NULL \notin Ids /\ NULL \notin Names
    /\ Prefix \in [Envs -> Seq(STRING)] /\ Names \subseteq Seq(STRING)
    /\ Stores \subseteq {"redis", "sql"}

NoTask == [state |-> "new", name |-> NULL, biz |-> NULL, env |-> NULL]

NoCall == [pc |-> "idle", env |-> NULL, name |-> NULL, biz |-> NULL, known |-> {}, result |-> NULL]

Pending == {i \in Ids : task[i].state = "in"}

\* get_oneshot_task_by_biz_name finds one of these.  The rows of the SQL
\* store count whatever their status is.
Matching(name, biz) == {i \in Pending : task[i].name = name /\ task[i].biz = biz}

SubmitInit ==
    /\ store \in Stores
    /\ task = [i \in Ids |-> NoTask]
    /\ call = [s \in Submitters |-> NoCall]

\* Mutant: no look-up before the insert.
BeginSubmitBlind(s, e, n, b) ==
    /\ call[s].pc = "idle"
    /\ LET name == to_store_name(e, n) IN
       call' = [call EXCEPT ![s] =
                   [pc |-> "add", env |-> e, name |-> name, biz |-> b,
                    known |-> IF b = NULL THEN {} ELSE Matching(name, b), result |-> NULL]]
    /\ UNCHANGED <<store, task>>

\* submit: a submission without a biz_name goes straight to the insert.  What
\* the store has of the key now is history, for the properties.
BeginSubmit(s, e, n, b) ==
    /\ call[s].pc = "idle"
    /\ LET name == to_store_name(e, n) IN
       call' = [call EXCEPT ![s] =
                   [pc |-> IF b = NULL THEN "add" ELSE "get", env |-> e, name |-> name, biz |-> b,
                    known |-> IF b = NULL THEN {} ELSE Matching(name, b), result |-> NULL]]
    /\ UNCHANGED <<store, task>>

\* What follows a look-up that found nothing: the runner's is followed by the
\* store's, that by the insert, and the one after a conflict by a raise.
AfterMiss(c) ==
    CASE c.pc = "get"          -> [c EXCEPT !.pc = "get_again"]
      [] c.pc = "get_again"    -> [c EXCEPT !.pc = "add"]
      [] c.pc = "get_conflict" -> [c EXCEPT !.pc = "raised"]

Found(c, i) == [c EXCEPT !.pc = "returned", !.known = {}, !.result = i]

Get(s) ==
    LET c == call[s]
        found == Matching(c.name, c.biz) IN
    /\ c.pc \in {"get", "get_again", "get_conflict"}
    /\ \/ \E i \in found : call' = [call EXCEPT ![s] = Found(c, i)]
       \/ found = {} /\ call' = [call EXCEPT ![s] = AfterMiss(c)]
    /\ UNCHANGED <<store, task>>

\* Mutant: the Redis store refuses a duplicate as well.
ConflictAnyStore(c) == c.biz # NULL /\ Matching(c.name, c.biz) # {}

\* The unique key on (task_name, biz_name) refuses the INSERT; SADD never does.
Conflict(c) == store = "sql" /\ c.biz # NULL /\ Matching(c.name, c.biz) # {}

\* SADD of a new member, INSERT of a new row.
Add(s) ==
    LET c == call[s] IN
    /\ c.pc = "add" /\ ~Conflict(c)
    /\ \E i \in Ids :
        /\ task[i].state = "new" /\ \A j \in Ids : j < i => task[j].state # "new"
        /\ task' = [task EXCEPT ![i] = [state |-> "in", name |-> c.name, biz |-> c.biz, env |-> c.env]]
        /\ call' = [call EXCEPT ![s] = Found(c, i)]
    /\ UNCHANGED store

InsertConflicts(s) ==
    /\ call[s].pc = "add" /\ Conflict(call[s])
    /\ call' = [call EXCEPT ![s].pc = "get_conflict"]
    /\ UNCHANGED <<store, task>>

SubmitStep ==
    \E s \in Submitters :
        \/ \E e \in Envs, n \in Names, b \in BizNames : BeginSubmit(s, e, n, b)
        \/ Get(s) \/ Add(s) \/ InsertConflicts(s)

\* A task that is in the store no more.
Removed(t) == [t EXCEPT !.state = "out"]

---------------------------------------------------------------------------
(* Properties. *)

Tasks == [state : {"new", "in", "out"}, env : Envs \cup {NULL}, biz : BizNames \cup {NULL},
          name : {to_store_name(e, n) : e \in Envs, n \in Names} \cup {NULL}]

SubmitTypeOK ==
    /\ store \in Stores
    /\ task \in [Ids -> Tasks]
    /\ \A s \in Submitters :
        /\ call[s].pc \in {"idle", "get", "get_again", "add", "get_conflict", "returned", "raised"}
        /\ call[s].pc \in {"get_conflict", "raised"} => store = "sql"
        /\ call[s].known \subseteq Ids
        /\ call[s].result \in Ids \cup {NULL}

\* What a submission returns is the id of a task of its own environment, name
\* and biz_name (namespaced.py: another environment's row is out of reach).
ResultsOwn ==
    \A s \in Submitters : call[s].result \in Ids =>
        LET t == task[call[s].result] IN
        t.env = call[s].env /\ t.name = call[s].name /\ t.biz = call[s].biz

\* A submission whose task was there when it began, and still is when it ends,
\* adds nothing (oneshot.py:206), whatever others submit and remove meanwhile.
Deduplicated ==
    [][\A s \in Submitters :
          call[s].pc = "add" /\ call'[s].pc = "returned" => call[s].known \cap Pending' = {}]_submission

=============================================================================
