---------------------------- MODULE TaggedCache ----------------------------
(***************************************************************************)
(* What a tagged cache promises (cache/tagged/_base.py): a key has the     *)
(* value and the tags of its latest set, or nothing.  A cache may lose an  *)
(* entry at any step, by expiry, eviction or a set that fails halfway; it  *)
(* must lose those that an invalidation names, and nothing it lost comes   *)
(* back except by another set.                                             *)
(*                                                                         *)
(* The value of an entry is the number of the set that wrote it, so two    *)
(* sets never write the same one.                                          *)
(***************************************************************************)
EXTENDS Naturals

CONSTANTS
    Keys, Tags,
    NONE            \* a miss

VARIABLES
    cached,         \* key -> what a get of it returns now, with its tags
    writes,         \* number of sets that took effect
    invalidated,    \* tag -> number of its invalidations
    cleared         \* number of clears

contract == <<cached, writes, invalidated, cleared>>

ContractInit ==
    /\ cached = [k \in Keys |-> NONE]
    /\ writes = 0
    /\ invalidated = [t \in Tags |-> 0]
    /\ cleared = 0

\* Every key of S keeps what it has or loses it.
KeepOrLose(S) == \A k \in S : cached'[k] \in {cached[k], NONE}

\* "Store one value and replace its tag associations."
Set(k) ==
    /\ \E T \in SUBSET Tags : cached'[k] \in {[value |-> writes + 1, tags |-> T], NONE}
    /\ KeepOrLose(Keys \ {k})
    /\ writes' = writes + 1
    /\ UNCHANGED <<invalidated, cleared>>

\* delete, expiry and eviction.
Lose ==
    /\ KeepOrLose(Keys)
    /\ UNCHANGED <<writes, invalidated, cleared>>

\* "Invalidate every entry associated with tag."
InvalidateTag(t) ==
    /\ KeepOrLose(Keys)
    /\ \A k \in Keys : cached'[k] # NONE => t \notin cached'[k].tags
    /\ invalidated' = [invalidated EXCEPT ![t] = @ + 1]
    /\ UNCHANGED <<writes, cleared>>

\* "Invalidate all entries owned by this cache."
Clear ==
    /\ cached' = [k \in Keys |-> NONE]
    /\ cleared' = cleared + 1
    /\ UNCHANGED <<writes, invalidated>>

ContractNext ==
    \/ \E k \in Keys : Set(k)
    \/ \E t \in Tags : InvalidateTag(t)
    \/ Lose
    \/ Clear

ContractSpec == ContractInit /\ [][ContractNext]_contract
=============================================================================
