--------------------------- MODULE TaggedProofs ---------------------------
(***************************************************************************)
(* Proofs about RedisTaggedCache for any number of callers and tags.       *)
(*                                                                         *)
(* The argument: generations only grow, and an entry or an operation never *)
(* holds one that is ahead of the present one.  So an entry that has lost  *)
(* currency never regains it (which gives the contract), and the first     *)
(* generation by which an entry is behind when a get reads it is still     *)
(* behind when the get comes to compare it (which gives HitIsCurrent).     *)
(***************************************************************************)
EXTENDS RedisTaggedCache, TLAPS

Inv == TypeOK /\ EntryNotAhead /\ CallsOK

Ops == [op : {"idle", "set", "get", "drop"}, entry : Entries,
        ns : Nat \cup {NONE}, gens : Gens, fresh : BOOLEAN]

\* An operation that does nothing, and one that is to delete the entry,
\* satisfy whatever the invariant asks of an operation.
LEMMA IdleFacts ==
    /\ NoEntry \in Entries /\ ~Stored(NoEntry)
    /\ Idle \in Ops /\ CallOK(Idle) /\ StaleShows(Idle)
    /\ Dropping \in Ops /\ CallOK(Dropping) /\ StaleShows(Dropping)
<1>1. NoEntry \in Entries /\ ~Stored(NoEntry)
  BY DEF NoEntry, Entries, Gens, Stored
<1>2. Idle \in Ops /\ Dropping \in Ops
  BY <1>1 DEF Idle, Dropping, Ops, Gens
<1>3. CallOK(Idle) /\ StaleShows(Idle)
  BY DEF Idle, NoEntry, CallOK, StaleShows, NsNotAhead, TagsNotAhead
<1>4. CallOK(Dropping) /\ StaleShows(Dropping)
  BY DEF Dropping, Idle, NoEntry, CallOK, StaleShows, NsNotAhead, TagsNotAhead
<1> QED  BY <1>1, <1>2, <1>3, <1>4

\* The invariant holds initially.
LEMMA InitInv == Init => Inv
<1> SUFFICES ASSUME Init PROVE Inv
  OBVIOUS
<1>1. TypeOK
  BY IdleFacts DEF Init, TypeOK, Complete, Ops
<1>2. EntryNotAhead
  BY DEF Init, EntryNotAhead, NoEntry, NsNotAhead, TagsNotAhead
<1>3. CallsOK
  BY IdleFacts DEF Init, CallsOK
<1> QED  BY <1>1, <1>2, <1>3 DEF Inv

\* A step in which only the caller c moves, and the new operation of c is
\* fine, keeps the part of the invariant that is about operations.
LEMMA OneCall ==
    ASSUME Inv, NEW c \in Callers, NEW o \in Ops, CallOK(o), StaleShows(o),
           call' = [call EXCEPT ![c] = o], UNCHANGED <<namespace_generation, tag_generation>>
    PROVE  CallsOK' /\ call' \in [Callers -> Ops]
<1>1. call' \in [Callers -> Ops]
  BY DEF Inv, TypeOK, Ops
<1>2. ASSUME NEW d \in Callers PROVE CallOK(call[d])' /\ StaleShows(call[d])'
  <2>1. call'[d] = o \/ call'[d] = call[d]
    BY DEF Inv, TypeOK
  <2>2. CallOK(call[d]) /\ StaleShows(call[d])
    BY DEF Inv, CallsOK
  <2> QED  BY <2>1, <2>2 DEF CallOK, StaleShows, NsNotAhead, TagsNotAhead
<1> QED  BY <1>1, <1>2 DEF CallsOK

\* Every step keeps the invariant.
LEMMA NextInv == Inv /\ [Next]_vars => Inv'
<1> SUFFICES ASSUME Inv, [Next]_vars PROVE Inv'
  OBVIOUS
<1> USE IdleFacts
<1>0. /\ entry \in Entries /\ Complete(entry)
      /\ namespace_generation \in Nat /\ tag_generation \in [Tags -> Nat]
      /\ \A d \in Callers : call[d] \in Ops /\ CallOK(call[d]) /\ StaleShows(call[d])
  BY DEF Inv, TypeOK, CallsOK, Ops
\* A step that leaves entry and generations alone and gives c a good operation.
<1>a. ASSUME NEW c \in Callers, NEW o \in Ops, CallOK(o), StaleShows(o),
             call' = [call EXCEPT ![c] = o], UNCHANGED <<entry, generations, writes>>
      PROVE  Inv'
  <2>1. CallsOK' /\ call' \in [Callers -> Ops]
    BY <1>a, OneCall DEF generations
  <2>2. TypeOK'
    BY <1>a, <2>1 DEF Inv, TypeOK, generations, Complete, Stored, Ops
  <2>3. EntryNotAhead'
    BY <1>a DEF Inv, EntryNotAhead, generations, NsNotAhead, TagsNotAhead
  <2> QED  BY <2>1, <2>2, <2>3 DEF Inv
<1>1. ASSUME NEW c \in Callers, StartSet(c) PROVE Inv'
  <2>1. PICK T \in SUBSET Tags :
          call' = [call EXCEPT ![c] = [Idle EXCEPT !.op = "set", !.entry.tags = T]]
    BY <1>1 DEF StartSet
  <2> DEFINE o == [Idle EXCEPT !.op = "set", !.entry.tags = T]
  <2>2. o \in Ops /\ CallOK(o) /\ StaleShows(o)
    BY DEF Idle, NoEntry, Ops, Entries, Gens, CallOK, StaleShows, NsNotAhead, TagsNotAhead
  <2> QED  BY <1>1, <1>a, <2>1, <2>2 DEF StartSet
<1>2. ASSUME NEW c \in Callers, Write(c) PROVE Inv'
  <2>1. CallsOK' /\ call' \in [Callers -> Ops]
    BY <1>2, OneCall DEF Write, Ends, generations
  <2>2. entry' \in Entries /\ Complete(entry)'
    BY <1>0, <1>2, NoneAssumption
    DEF Write, Ops, Entries, Gens, Complete, AllRead, Inv, TypeOK
  <2>3. TypeOK'
    BY <1>2, <2>1, <2>2 DEF Inv, TypeOK, Write, generations, Ops
  <2>4. EntryNotAhead'
    BY <1>0, <1>2 DEF Write, EntryNotAhead, CallOK, NsNotAhead, TagsNotAhead, generations
  <2> QED  BY <2>1, <2>3, <2>4 DEF Inv
<1>3. ASSUME NEW c \in Callers, ReadEntry(c) PROVE Inv'
  <2> DEFINE o == [Idle EXCEPT !.op = "get", !.entry = entry, !.fresh = Current(entry)]
  <2>1. o \in Ops
    BY <1>0 DEF Ops, Idle, Gens, Current
  <2>2. CallOK(o)
    BY <1>0, <1>3 DEF Inv, EntryNotAhead, CallOK, Idle, NsNotAhead, TagsNotAhead, ReadEntry
  <2>3. StaleShows(o)
    <3>1. ASSUME ~Current(entry)
          PROVE  \/ entry.ns < namespace_generation
                 \/ \E t \in entry.tags : entry.gens[t] < tag_generation[t]
      BY <1>0, <1>3, <3>1, NoneAssumption
      DEF ReadEntry, Current, Complete, Inv, EntryNotAhead, NsNotAhead, TagsNotAhead,
          Entries, Gens
    <3> QED  BY <1>0, <1>3, <3>1, NoneAssumption
             DEF StaleShows, Idle, ReadEntry, Complete, Entries, Gens
  <2> QED  BY <1>3, <1>a, <2>1, <2>2, <2>3 DEF ReadEntry
<1>4. ASSUME NEW c \in Callers, ReadNamespace(c) PROVE Inv'
  <2> DEFINE o == [call[c] EXCEPT !.ns = namespace_generation]
  <2>1. CASE call[c].op = "get" /\ call[c].entry.ns # namespace_generation
    BY <1>0, <1>4, <1>a, <2>1 DEF ReadNamespace, Inv, TypeOK
  <2>2. CASE ~(call[c].op = "get" /\ call[c].entry.ns # namespace_generation)
    <3>1. o \in Ops /\ CallOK(o)
      BY <1>0 DEF Ops, CallOK, NsNotAhead, TagsNotAhead
    <3>2. StaleShows(o)
      BY <1>0, <2>2 DEF StaleShows, Ops
    <3> QED  BY <1>4, <1>a, <2>2, <3>1, <3>2 DEF ReadNamespace, Inv, TypeOK
  <2> QED  BY <2>1, <2>2
<1>5. ASSUME NEW c \in Callers, NEW t \in Tags, ReadTag(c, t) PROVE Inv'
  <2> DEFINE o == [call[c] EXCEPT !.gens[t] = tag_generation[t]]
  <2>1. o \in Ops /\ CallOK(o)
    <3>1. /\ o \in Ops /\ o.op = call[c].op /\ o.ns = call[c].ns /\ o.entry = call[c].entry
          /\ \A u \in Tags : o.gens[u] = IF u = t THEN tag_generation[t] ELSE call[c].gens[u]
      BY <1>0 DEF Ops, Gens
    <3>2. CallOK(call[c]) /\ tag_generation[t] \in Nat
      BY <1>0
    <3>3. TagsNotAhead(o.gens)
      <4> HIDE DEF o
      <4> QED  BY <3>1, <3>2 DEF CallOK, TagsNotAhead
    <3> HIDE DEF o
    <3> QED  BY <3>1, <3>2, <3>3 DEF CallOK
  <2>2. StaleShows(o)
    <3>1. SUFFICES ASSUME call[c].op = "get", ~call[c].fresh, call[c].ns # NONE
                   PROVE  \E u \in call[c].entry.tags :
                             /\ call[c].entry.gens[u] < tag_generation[u]
                             /\ o.gens[u] # call[c].entry.gens[u]
      BY <1>0, <1>5 DEF StaleShows, ReadTag, Ops
    <3>2. PICK u \in call[c].entry.tags :
             /\ call[c].entry.gens[u] < tag_generation[u]
             /\ call[c].gens[u] # call[c].entry.gens[u]
      BY <1>0, <3>1 DEF StaleShows
    <3>3. u \in Tags /\ call[c].entry.gens[u] \in Nat
      BY <1>0, <3>1 DEF Ops, Entries, CallOK, Complete
    <3>4. o.gens[u] # call[c].entry.gens[u]
      BY <1>0, <3>2, <3>3 DEF Ops, Gens
    <3> QED  BY <3>2, <3>4
  <2> QED  BY <1>5, <1>a, <2>1, <2>2 DEF ReadTag, Inv, TypeOK
<1>6. ASSUME NEW c \in Callers, Return(c) \/ FindStale(c) \/ Fail(c) PROVE Inv'
  BY <1>6, <1>a DEF Return, FindStale, Fail, Ends
<1>7. ASSUME NEW c \in Callers, DropStale(c) PROVE Inv'
  <2>1. CallsOK' /\ call' \in [Callers -> Ops]
    BY <1>7, OneCall DEF DropStale, Ends, generations
  <2>2. TypeOK'
    BY <1>7, <2>1 DEF Inv, TypeOK, DropStale, generations, Ops, Complete
  <2>3. EntryNotAhead'
    BY <1>7 DEF DropStale, EntryNotAhead, NoEntry, NsNotAhead, TagsNotAhead
  <2> QED  BY <2>1, <2>2, <2>3 DEF Inv
<1>8. CASE Remove
  <2>1. TypeOK'
    BY <1>8 DEF Inv, TypeOK, Remove, generations, Complete
  <2>2. EntryNotAhead'
    BY <1>8 DEF Remove, EntryNotAhead, NoEntry, NsNotAhead, TagsNotAhead
  <2>3. CallsOK'
    BY <1>8 DEF Inv, CallsOK, CallOK, StaleShows, NsNotAhead, TagsNotAhead, Remove, generations
  <2> QED  BY <2>1, <2>2, <2>3 DEF Inv
\* Generations that grow keep everything that is not ahead, not ahead.
<1>b. ASSUME UNCHANGED <<entry, call, writes>>,
             namespace_generation' \in Nat, tag_generation' \in [Tags -> Nat],
             cleared' \in Nat, invalidated' \in [Tags -> Nat],
             namespace_generation <= namespace_generation',
             \A t \in Tags : tag_generation[t] <= tag_generation'[t]
      PROVE  Inv'
  <2>1. TypeOK'
    BY <1>b DEF Inv, TypeOK, Complete, Stored
  <2>2. EntryNotAhead'
    BY <1>0, <1>b DEF Inv, EntryNotAhead, NsNotAhead, TagsNotAhead, Entries, Gens
  <2>3. ASSUME NEW d \in Callers PROVE CallOK(call[d])' /\ StaleShows(call[d])'
    <3>1. CallOK(call[d])'
      BY <1>0, <1>b DEF CallOK, NsNotAhead, TagsNotAhead, Ops, Entries, Gens, Complete, Stored
    <3>2. StaleShows(call[d])'
      <4>1. SUFFICES ASSUME call[d].op = "get", ~call[d].fresh
                     PROVE  \/ call[d].ns = NONE /\ call[d].entry.ns < namespace_generation'
                            \/ \E t \in call[d].entry.tags :
                                  /\ call[d].entry.gens[t] < tag_generation'[t]
                                  /\ call[d].gens[t] # call[d].entry.gens[t]
        BY <1>b DEF StaleShows
      <4>2. Complete(call[d].entry) /\ Stored(call[d].entry) /\ call[d].entry.tags \subseteq Tags
        BY <1>0, <4>1 DEF CallOK, Ops, Entries
      <4> QED  BY <1>0, <1>b, <4>1, <4>2 DEF StaleShows, Complete
    <3> QED  BY <3>1, <3>2
  <2> QED  BY <2>1, <2>2, <2>3 DEF Inv, CallsOK
<1>9. CASE Clear
  BY <1>0, <1>9, <1>b DEF Clear, NextNamespace, Inv, TypeOK
<1>10. ASSUME NEW t \in Tags, InvalidateTag(t) PROVE Inv'
  BY <1>0, <1>10, <1>b DEF InvalidateTag, Inv, TypeOK
<1>11. CASE UNCHANGED vars
  BY <1>0, <1>11, <1>b DEF vars, Inv, TypeOK
<1> QED
  BY <1>1, <1>2, <1>3, <1>4, <1>5, <1>6, <1>7, <1>8, <1>9, <1>10, <1>11
  DEF Next, SetStep, GetStep, ReadStep

\* Every reachable state of the cache has its type, and every stored entry
\* all the generations that a get compares.
THEOREM TaggedTypes == Spec => []TypeOK
<1>1. Inv => TypeOK
  BY DEF Inv
<1> QED  BY InitInv, NextInv, <1>1, PTL DEF Spec

\* For any number of callers and tags, a value that a get returns was valid
\* when the get read it, whatever was invalidated between its reads.
THEOREM HitsAreCurrent == Spec => []HitIsCurrent
<1>1. Inv => HitIsCurrent
  <2> SUFFICES ASSUME Inv, NEW c \in Callers, Hits(c), ~call[c].fresh PROVE FALSE
    BY DEF HitIsCurrent
  <2>1. StaleShows(call[c])
    BY DEF Inv, CallsOK
  <2> QED  BY <2>1 DEF StaleShows, Hits, AllRead, SameGenerations
<1> QED  BY InitInv, NextInv, <1>1, PTL DEF Spec

\* What the contract sees is determined by the entry and the generations.
LEMMA SameVisible ==
    ASSUME UNCHANGED <<entry, namespace_generation, tag_generation>>
    PROVE  Visible' = Visible
BY DEF Visible, Current, Stored

\* A step that changes the entry only by removing it is a Lose of the
\* contract, and one that changes neither entry nor generations stutters.
LEMMA RemovalLoses ==
    ASSUME entry' = entry \/ entry' = NoEntry, UNCHANGED <<generations, writes>>
    PROVE  Contract!Lose
<1>1. Visible' \in {Visible, NONE}
  BY IdleFacts, SameVisible DEF Visible, Current, Stored, NoEntry, generations
<1> QED  BY <1>1 DEF Contract!Lose, Contract!KeepOrLose, generations

\* The Redis cache implements the contract of a tagged cache: entries only
\* appear by a set, an invalidation makes every entry with its tag miss, and
\* what has become stale never comes back.
THEOREM RedisKeepsContract == Spec => KeepsContract
<1>1. Init => Contract!ContractInit
  BY IdleFacts DEF Init, Contract!ContractInit, Visible, Current
<1>2. Inv /\ [Next]_vars => [Contract!ContractNext]_(Contract!contract)
  <2> SUFFICES ASSUME Inv, [Next]_vars
               PROVE  Contract!ContractNext \/ UNCHANGED Contract!contract
    OBVIOUS
  <2>0. /\ entry \in Entries /\ namespace_generation \in Nat
        /\ tag_generation \in [Tags -> Nat] /\ writes \in Nat /\ EntryNotAhead
        /\ Complete(entry)
    BY DEF Inv, TypeOK
  <2>1. ASSUME NEW c \in Callers, Write(c) PROVE Contract!Set("key")
    <3>1. call[c].entry.tags \in SUBSET Tags
      BY DEF Inv, TypeOK, Entries
    <3>2. Visible' \in {[value |-> writes + 1, tags |-> call[c].entry.tags], NONE}
      BY <2>1 DEF Write, Visible
    <3> QED  BY <2>1, <3>1, <3>2 DEF Write, Contract!Set, Contract!KeepOrLose, generations
  <2>2. ASSUME NEW c \in Callers,
               \/ StartSet(c) \/ GetStep(c) \/ ReadStep(c) \/ Fail(c)
        PROVE  Contract!Lose
    BY <2>2, RemovalLoses
    DEF StartSet, GetStep, ReadStep, Fail, ReadEntry, Return, FindStale, DropStale,
        ReadNamespace, ReadTag
  <2>3. ASSUME Remove PROVE Contract!Lose
    BY <2>3, RemovalLoses DEF Remove
  <2>4. ASSUME NEW t \in Tags, InvalidateTag(t) PROVE Contract!InvalidateTag(t)
    <3>1. Stored(entry) /\ t \in entry.tags => Visible' = NONE
      BY <2>0, <2>4, NoneAssumption
      DEF InvalidateTag, Visible, Current, Stored, EntryNotAhead, TagsNotAhead,
          Complete, Entries, Gens
    <3>2. Visible' \in {Visible, NONE}
      <4>1. Current(entry)' => Current(entry)
        BY <2>0, <2>4, NoneAssumption
        DEF InvalidateTag, Current, Stored, EntryNotAhead, TagsNotAhead, Complete, Entries, Gens
      <4> QED  BY <2>4, <4>1 DEF Visible, InvalidateTag
    <3>3. Visible' # NONE => t \notin Visible'.tags
      BY <2>4, <3>1 DEF Visible, Current, Stored, InvalidateTag
    <3> QED  BY <2>4, <3>2, <3>3
             DEF InvalidateTag, Contract!InvalidateTag, Contract!KeepOrLose
  <2>5. ASSUME Clear PROVE Contract!Clear
    <3>1. Visible' = NONE
      BY <2>0, <2>5, NoneAssumption
      DEF Clear, NextNamespace, Visible, Current, Stored, EntryNotAhead, NsNotAhead,
          Complete, Entries
    <3> QED  BY <2>5, <3>1 DEF Clear, Contract!Clear
  <2>6. CASE UNCHANGED vars
    <3>1. Visible' = Visible
      BY <2>6, SameVisible DEF vars
    <3> QED  BY <2>6, <3>1 DEF vars, Contract!contract
  <2> QED
    BY <2>1, <2>2, <2>3, <2>4, <2>5, <2>6 DEF Next, SetStep, Contract!ContractNext
<1> QED  BY InitInv, NextInv, <1>1, <1>2, PTL DEF Spec, KeepsContract, Contract!ContractSpec
=============================================================================
