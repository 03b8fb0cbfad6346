------------------------- MODULE RedisTaggedCache -------------------------
(***************************************************************************)
(* The Redis tagged cache (cache/tagged/redis.py).  An entry carries the   *)
(* generations of the namespace and of its tags that its set read; a get   *)
(* returns it only if it finds the same generations.  Every Redis command  *)
(* is a step of its own, so sets, gets and invalidations of any number of  *)
(* callers interleave between the reads of one operation.                  *)
(*                                                                         *)
(* Entries of different keys share nothing but the generations, so one key *)
(* is modelled.  An expired entry is gone; generation keys have no TTL.    *)
(***************************************************************************)
EXTENDS Naturals

CONSTANTS
    Callers,        \* concurrent operations
    Tags,
    NONE,           \* a missing key; a generation that was not read yet
    MaxWrites, MaxInvalidations     \* bounds of the exploration

ASSUME NoneAssumption == NONE \notin Nat

ASSUME TaggedBounds == MaxWrites \in Nat /\ MaxInvalidations \in Nat

VARIABLES
    entry,          \* the key namespace:entry:key
    namespace_generation,
    tag_generation,
    call,           \* what each caller is doing
    writes,         \* history: number of entries written
    invalidated,    \* history: tag -> number of its invalidations
    cleared         \* history: number of clears

vars == <<entry, namespace_generation, tag_generation, call, writes, invalidated, cleared>>

generations == <<namespace_generation, tag_generation, invalidated, cleared>>

---------------------------------------------------------------------------

\* A missing entry.
NoEntry == [value |-> 0, tags |-> {}, ns |-> NONE, gens |-> [t \in Tags |-> NONE]]

Stored(e) == e.value # 0

\* An operation: its entry is what a get read, or what a set is to write;
\* ns and gens are the generations it has read, NONE where it has not;
\* fresh is history: the entry had the generations of the moment it was read.
Idle == [op |-> "idle", entry |-> NoEntry, ns |-> NONE,
         gens |-> [t \in Tags |-> NONE], fresh |-> FALSE]

\* A get that found its entry stale and is to delete it.
Dropping == [Idle EXCEPT !.op = "drop"]

\* The generations of an entry are the present ones.
Current(e) ==
    /\ Stored(e)
    /\ e.ns = namespace_generation
    /\ \A t \in e.tags : e.gens[t] = tag_generation[t]

Init ==
    /\ entry = NoEntry
    /\ namespace_generation = 0
    /\ tag_generation = [t \in Tags |-> 0]
    /\ call = [c \in Callers |-> Idle]
    /\ writes = 0
    /\ invalidated = [t \in Tags |-> 0]
    /\ cleared = 0

Ends(c) == call' = [call EXCEPT ![c] = Idle]

---------------------------------------------------------------------------
(* set *)

StartSet(c) ==
    /\ call[c].op = "idle"
    /\ \E T \in SUBSET Tags :
          call' = [call EXCEPT ![c] = [Idle EXCEPT !.op = "set", !.entry.tags = T]]
    /\ UNCHANGED <<entry, generations, writes>>

\* Mutant: set does not wait for the generations it asked for.
ReadsUnawaited(o) == o.ns # NONE

\* Both gathers are complete.
AllRead(o) == o.ns # NONE /\ \A t \in o.entry.tags : o.gens[t] # NONE

\* The SET of the entry, with the generations that were read before it.
Write(c) ==
    /\ call[c].op = "set" /\ AllRead(call[c])
    /\ writes < MaxWrites
    /\ entry' = [value |-> writes + 1, tags |-> call[c].entry.tags,
                 ns |-> call[c].ns, gens |-> call[c].gens]
    /\ writes' = writes + 1
    /\ Ends(c)
    /\ UNCHANGED generations

---------------------------------------------------------------------------
(* get *)

\* The GET of the entry; a missing one is a miss.
ReadEntry(c) ==
    /\ call[c].op = "idle" /\ Stored(entry)
    /\ call' = [call EXCEPT ![c] =
                  [Idle EXCEPT !.op = "get", !.entry = entry, !.fresh = Current(entry)]]
    /\ UNCHANGED <<entry, generations, writes>>

\* The GET of the namespace generation, in a set and in a get; a get whose
\* entry has another one goes on to delete the entry.
ReadNamespace(c) ==
    /\ call[c].op \in {"set", "get"} /\ call[c].ns = NONE
    /\ call' = [call EXCEPT ![c] =
                  IF @.op = "get" /\ @.entry.ns # namespace_generation THEN Dropping
                  ELSE [@ EXCEPT !.ns = namespace_generation]]
    /\ UNCHANGED <<entry, generations, writes>>

\* The GET of one tag generation.  A set asks for all at once, a get only
\* after it has seen the namespace generation.
ReadTag(c, t) ==
    /\ \/ call[c].op = "set"
       \/ call[c].op = "get" /\ call[c].ns # NONE
    /\ t \in call[c].entry.tags /\ call[c].gens[t] = NONE
    /\ call' = [call EXCEPT ![c].gens[t] = tag_generation[t]]
    /\ UNCHANGED <<entry, generations, writes>>

\* Mutant: a get looks at the namespace generation only.
SameGenerationsAnyTag(o) == o.ns = o.entry.ns

\* No generation differs from that in the entry.
SameGenerations(o) == \A t \in o.entry.tags : o.gens[t] = o.entry.gens[t]

\* The get is about to return the value.
Hits(c) == call[c].op = "get" /\ AllRead(call[c]) /\ SameGenerations(call[c])

Return(c) == Hits(c) /\ Ends(c) /\ UNCHANGED <<entry, generations, writes>>

\* Some tag was invalidated since: the get goes on to delete the entry.
FindStale(c) ==
    /\ call[c].op = "get" /\ AllRead(call[c]) /\ ~SameGenerations(call[c])
    /\ call' = [call EXCEPT ![c] = Dropping]
    /\ UNCHANGED <<entry, generations, writes>>

\* The DEL of a get that found a stale entry: by now it may be another one.
DropStale(c) ==
    /\ call[c].op = "drop"
    /\ entry' = NoEntry
    /\ Ends(c)
    /\ UNCHANGED <<generations, writes>>

---------------------------------------------------------------------------

\* Mutant: clear deletes the generation key instead of counting it up.
ClearedNamespace == 0

\* The INCR of clear.
NextNamespace == namespace_generation + 1

Clear ==
    /\ cleared < MaxInvalidations
    /\ namespace_generation' = NextNamespace
    /\ cleared' = cleared + 1
    /\ UNCHANGED <<entry, tag_generation, call, writes, invalidated>>

\* The INCR of invalidate_tag.
InvalidateTag(t) ==
    /\ invalidated[t] < MaxInvalidations
    /\ tag_generation' = [tag_generation EXCEPT ![t] = @ + 1]
    /\ invalidated' = [invalidated EXCEPT ![t] = @ + 1]
    /\ UNCHANGED <<entry, namespace_generation, call, writes, cleared>>

\* delete, and the expiry of the entry.
Remove ==
    /\ entry' = NoEntry
    /\ UNCHANGED <<generations, call, writes>>

\* A Redis command raises or the caller is cancelled.
Fail(c) ==
    /\ call[c].op # "idle"
    /\ Ends(c)
    /\ UNCHANGED <<entry, generations, writes>>

---------------------------------------------------------------------------

SetStep(c) == StartSet(c) \/ Write(c)

GetStep(c) == ReadEntry(c) \/ Return(c) \/ FindStale(c) \/ DropStale(c)

ReadStep(c) == ReadNamespace(c) \/ \E t \in Tags : ReadTag(c, t)

Next ==
    \/ \E c \in Callers : SetStep(c) \/ GetStep(c) \/ ReadStep(c) \/ Fail(c)
    \/ \E t \in Tags : InvalidateTag(t)
    \/ Clear \/ Remove

Spec == Init /\ [][Next]_vars

---------------------------------------------------------------------------
(* Properties. *)

Gens == [Tags -> Nat \cup {NONE}]

Entries == [value : Nat, tags : SUBSET Tags, ns : Nat \cup {NONE}, gens : Gens]

\* An entry in Redis has a number for every generation its reader compares.
Complete(e) == Stored(e) => e.ns \in Nat /\ \A t \in e.tags : e.gens[t] \in Nat

\* The shape of the state; a stored entry has all its generations.
TypeOK ==
    /\ entry \in Entries /\ Complete(entry)
    /\ namespace_generation \in Nat
    /\ tag_generation \in [Tags -> Nat]
    /\ call \in [Callers -> [op : {"idle", "set", "get", "drop"}, entry : Entries,
                             ns : Nat \cup {NONE}, gens : Gens, fresh : BOOLEAN]]
    /\ writes \in Nat /\ cleared \in Nat /\ invalidated \in [Tags -> Nat]

\* A value that a get returns was valid at the moment the get read it,
\* although its generations are read one by one afterwards, with
\* invalidations in between: a get after an invalidation never returns what
\* was set before it.
HitIsCurrent == \A c \in Callers : Hits(c) => call[c].fresh

\* What a get of the key returns if nothing comes in between.
Visible ==
    IF Current(entry) THEN [value |-> entry.value, tags |-> entry.tags] ELSE NONE

Contract == INSTANCE TaggedCache WITH
    Keys <- {"key"},
    cached <- [k \in {"key"} |-> Visible]

\* The cache keeps the contract of TaggedCache: an invalidation makes every
\* entry with its tag miss, and an entry that became stale stays so.
KeepsContract == Contract!ContractSpec

---------------------------------------------------------------------------
(* The inductive invariant behind them. *)

\* No generation in x is later than the present one, nor in y.
NsNotAhead(x) == x # NONE => x <= namespace_generation

TagsNotAhead(y) == \A t \in Tags : y[t] # NONE => y[t] <= tag_generation[t]

EntryNotAhead == NsNotAhead(entry.ns) /\ TagsNotAhead(entry.gens)

\* What an operation has read is not ahead either, and a get has an entry.
CallOK(o) ==
    /\ NsNotAhead(o.ns) /\ TagsNotAhead(o.gens)
    /\ NsNotAhead(o.entry.ns) /\ TagsNotAhead(o.entry.gens)
    /\ o.op = "get" => Stored(o.entry) /\ Complete(o.entry)

\* A get whose entry was stale when it was read has a generation yet to
\* read, or read already, that tells.
StaleShows(o) ==
    o.op = "get" /\ ~o.fresh =>
        \/ o.ns = NONE /\ o.entry.ns < namespace_generation
        \/ \E t \in o.entry.tags : /\ o.entry.gens[t] < tag_generation[t]
                                  /\ o.gens[t] # o.entry.gens[t]

CallsOK == \A c \in Callers : CallOK(call[c]) /\ StaleShows(call[c])
=============================================================================
