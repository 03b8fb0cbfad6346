------------------------- MODULE MemoryTaggedCache -------------------------
(***************************************************************************)
(* The in-process tagged cache (cache/tagged/memory.py): a TTLCache of     *)
(* cachetools, and two maps that bind keys to tags and tags to keys.  No   *)
(* method awaits anything, so each is one step.  The clock does not stop   *)
(* for it: the TTLCache looks at it in every call and throws out what has  *)
(* expired, without the maps being told.                                   *)
(*                                                                         *)
(* TTLCache is external.  An entry expires at any time.  What the code     *)
(* does not rely on is left open: which entry popitem takes, and whether   *)
(* pop(key, None) raises if the key expires inside it (it does if it reads *)
(* the clock more than once).                                              *)
(***************************************************************************)
EXTENDS Naturals, FiniteSets

CONSTANTS
    Keys, Tags,
    NONE,           \* a miss
    MaxSize,        \* max_size
    MaxWrites, MaxInvalidations     \* bounds of the exploration

ASSUME MemoryAssumption ==
    MaxSize \in Nat \ {0} /\ MaxWrites \in Nat /\ MaxInvalidations \in Nat

VARIABLES
    cache,          \* _cache: key -> the number of the set that wrote it, or 0
    dead,           \* keys still in _cache whose TTL is over
    key_tags,       \* _key_tags; a missing key has the empty set
    tag_keys,       \* _tag_keys; a missing tag has the empty set
    tags_of,        \* history: the tags of the latest set of each key
    writes,         \* history: number of sets
    invalidated,    \* history: tag -> number of its invalidations
    cleared         \* history: number of clears

vars == <<cache, dead, key_tags, tag_keys, tags_of, writes, invalidated, cleared>>

index == <<key_tags, tag_keys>>
history == <<writes, invalidated, cleared>>

---------------------------------------------------------------------------

Present == {k \in Keys : cache[k] # 0}

\* Mutant: whatever did not expire counts as cached.
LiveUnlessDead == Keys \ dead

\* The keys that _cache.get finds.
Live == Present \ dead

Init ==
    /\ cache = [k \in Keys |-> 0]
    /\ dead = {}
    /\ key_tags = [k \in Keys |-> {}]
    /\ tag_keys = [t \in Tags |-> {}]
    /\ tags_of = [k \in Keys |-> {}]
    /\ writes = 0
    /\ invalidated = [t \in Tags |-> 0]
    /\ cleared = 0

\* The clock passes the end of the TTL of k.
Age(k) ==
    /\ k \in Live
    /\ dead' = dead \cup {k}
    /\ UNCHANGED <<cache, index, tags_of, history>>

\* _cache without the keys of S.
Without(S) == [k \in Keys |-> IF k \in S THEN 0 ELSE cache[k]]

\* Mutant: the tags of an unbound key lose their other keys as well.
UnboundWholeTags(S) ==
    [t \in Tags |-> IF \E k \in S : t \in key_tags[k] THEN {} ELSE tag_keys[t]]

\* _tag_keys after _remove_tag_bindings of every key of S: it goes by the
\* tags that _key_tags has.
UnboundTagKeys(S) == [t \in Tags |-> tag_keys[t] \ {k \in S : t \in key_tags[k]}]

\* _remove_tag_bindings of every key of S.
Unbind(S) ==
    /\ key_tags' = [k \in Keys |-> IF k \in S THEN {} ELSE key_tags[k]]
    /\ tag_keys' = UnboundTagKeys(S)

\* _expire; then the keys of S are popped from _cache and the bindings of
\* those of R removed.  A key that is over before its pop is absent to it and
\* stays in _cache.
ExpireAndPop(S, R) ==
    /\ \E late \in SUBSET (S \cap Live) :
          /\ cache' = Without(dead \cup (S \ late))
          /\ dead' = late
    /\ Unbind(dead \cup R)

---------------------------------------------------------------------------

\* get changes nothing but what _expire does.
Get ==
    /\ ExpireAndPop({}, {})
    /\ UNCHANGED <<tags_of, history>>

Delete(k) ==
    /\ ExpireAndPop({k}, {k})
    /\ UNCHANGED <<tags_of, history>>

\* The pop raises, with or without the entry.
DeleteRaises(k) ==
    /\ k \in Live
    /\ ExpireAndPop({k}, {})
    /\ UNCHANGED <<tags_of, history>>

InvalidateTag(t) ==
    /\ invalidated[t] < MaxInvalidations
    /\ LET tagged == UnboundTagKeys(dead)[t] IN ExpireAndPop(tagged, tagged)
    /\ invalidated' = [invalidated EXCEPT ![t] = @ + 1]
    /\ UNCHANGED <<tags_of, writes, cleared>>

\* The pop of k raises; the keys of done were removed before it.
InvalidateRaises(t) ==
    LET tagged == UnboundTagKeys(dead)[t] IN
    /\ \E k \in tagged \cap Live : \E done \in SUBSET (tagged \ {k}) :
          ExpireAndPop(done \cup {k}, done)
    /\ UNCHANGED <<tags_of, history>>

Clear ==
    /\ cleared < MaxInvalidations
    /\ cache' = [k \in Keys |-> 0]
    /\ dead' = {}
    /\ key_tags' = [k \in Keys |-> {}]
    /\ tag_keys' = [t \in Tags |-> {}]
    /\ cleared' = cleared + 1
    /\ UNCHANGED <<tags_of, writes, invalidated>>

---------------------------------------------------------------------------
(* set: after its _expire, the TTLCache looks at the clock again in "in"   *)
(* and len, when the keys of soon are over, and in popitem and the         *)
(* assignment, when those of late are.                                     *)

\* Mutant: the cache makes room one entry too late.
FullOverfilled(k, soon) == k \notin Live \ soon /\ Cardinality(Live \ soon) > MaxSize

\* key not in _cache and len(_cache) >= maxsize.
Full(k, soon) == k \notin Live \ soon /\ Cardinality(Live \ soon) >= MaxSize

\* Mutant: the bindings of the key's previous set are left behind.
SetUnbindsVictim(k, victim) == dead \cup victim

\* The keys whose bindings set removes: expired, evicted, its own.
SetUnbinds(k, victim) == dead \cup victim \cup {k}

\* The rest of set: the entry, and the bindings of its tags.
Store(k, T, victim, late) ==
    /\ cache' = [Without(dead \cup late \cup victim) EXCEPT ![k] = writes + 1]
    /\ dead' = {}
    /\ key_tags' = [j \in Keys |-> IF j = k THEN T
                                   ELSE IF j \in SetUnbinds(k, victim) THEN {}
                                   ELSE key_tags[j]]
    /\ tag_keys' = [t \in Tags |-> UnboundTagKeys(SetUnbinds(k, victim))[t]
                                       \cup (IF t \in T THEN {k} ELSE {})]
    /\ tags_of' = [tags_of EXCEPT ![k] = T]
    /\ writes' = writes + 1
    /\ UNCHANGED <<invalidated, cleared>>

\* set of a key that is there, or for which there is room.
SetInPlace(k, T) ==
    /\ writes < MaxWrites
    /\ \E soon \in SUBSET Live : \E late \in SUBSET Live :
          /\ soon \subseteq late
          /\ ~Full(k, soon)
          /\ Store(k, T, {}, late)

\* set with an eviction.
SetEvicting(k, T) ==
    /\ writes < MaxWrites
    /\ \E soon \in SUBSET Live : \E late \in SUBSET Live :
          /\ soon \subseteq late
          /\ Full(k, soon)
          /\ \E v \in Live \ late : Store(k, T, {v}, late)

\* All entries expire between len and popitem, which raises KeyError.
SetRaises(k) ==
    /\ Full(k, {})
    /\ cache' = [j \in Keys |-> 0]
    /\ dead' = {}
    /\ Unbind(dead)
    /\ UNCHANGED <<tags_of, history>>

SetStep(k) == SetRaises(k) \/ \E T \in SUBSET Tags : SetInPlace(k, T) \/ SetEvicting(k, T)

Next ==
    \/ \E k \in Keys : SetStep(k) \/ Delete(k) \/ DeleteRaises(k) \/ Age(k)
    \/ \E t \in Tags : InvalidateTag(t) \/ InvalidateRaises(t)
    \/ Get \/ Clear

Spec == Init /\ [][Next]_vars

---------------------------------------------------------------------------
(* Properties. *)

\* The shape of the state; only entries that are there can be expired.
TypeOK ==
    /\ cache \in [Keys -> Nat]
    /\ dead \in SUBSET Present
    /\ key_tags \in [Keys -> SUBSET Tags]
    /\ tag_keys \in [Tags -> SUBSET Keys]
    /\ tags_of \in [Keys -> SUBSET Tags]
    /\ writes \in Nat /\ cleared \in Nat /\ invalidated \in [Tags -> Nat]

\* However sets, evictions, expiries and invalidations follow each other,
\* the cache holds no more than max_size entries: set makes the room itself,
\* and the assignment never has to evict past the maps.
SizeBounded == Cardinality(Present) <= MaxSize

\* The two maps are inverse to each other and give every entry that a get
\* finds the tags of its latest set, although the TTLCache throws out, or
\* keeps, expired entries without them.
IndexExact ==
    /\ \A k \in Keys, t \in Tags : k \in tag_keys[t] <=> t \in key_tags[k]
    /\ \A k \in Live : key_tags[k] = tags_of[k]

\* What a get of k returns.
Visible(k) == IF k \in Live THEN [value |-> cache[k], tags |-> tags_of[k]] ELSE NONE

Contract == INSTANCE TaggedCache WITH cached <- [k \in Keys |-> Visible(k)]

\* The cache keeps the contract of TaggedCache: an invalidation makes every
\* entry with its tag miss, and what is gone stays gone until the next set.
KeepsContract == Contract!ContractSpec
=============================================================================
