------------------------ MODULE TaggedMemoryProofs ------------------------
(***************************************************************************)
(* Proofs about MemoryTaggedCache for any keys and tags and any max_size.  *)
(*                                                                         *)
(* The argument: the two maps are inverse to each other, so removing the   *)
(* bindings of a key by its own tags removes all of them, and a key that   *)
(* a get finds has the tags of its latest set in both.  Then what an       *)
(* invalidation finds by the tag is all it has to remove, and a key that   *)
(* expires before its pop needs no removal to miss.                        *)
(***************************************************************************)
EXTENDS MemoryTaggedCache, FiniteSetTheorems, TLAPS

Inv == TypeOK /\ IndexExact

\* Unbinding keys keeps the two maps inverse to each other.
LEMMA UnboundInverse ==
    ASSUME Inv, NEW S
    PROVE  /\ UnboundTagKeys(S) \in [Tags -> SUBSET Keys]
           /\ \A k \in Keys, t \in Tags :
                 k \in UnboundTagKeys(S)[t] <=> (k \notin S /\ t \in key_tags[k])
BY DEF Inv, TypeOK, IndexExact, UnboundTagKeys

\* A step that expires what is over, pops the keys of S and removes the
\* bindings of those of R keeps the invariant, if every key of R is popped:
\* then it is not found any more, though it may be there.
LEMMA RemovalInv ==
    ASSUME Inv, NEW S, NEW R, R \subseteq S, ExpireAndPop(S, R), tags_of' = tags_of,
           writes' \in Nat, cleared' \in Nat, invalidated' \in [Tags -> Nat]
    PROVE  Inv'
<1>1. PICK late \in SUBSET (S \cap Live) : cache' = Without(dead \cup (S \ late)) /\ dead' = late
  BY DEF ExpireAndPop
<1>2. UnboundTagKeys(dead \cup R) \in [Tags -> SUBSET Keys]
  BY UnboundInverse
<1>3. TypeOK'
  BY <1>1, <1>2 DEF Inv, TypeOK, ExpireAndPop, Unbind, Without, Present, Live
<1>4. \A k \in Keys, t \in Tags : k \in tag_keys'[t] <=> t \in key_tags'[k]
  BY UnboundInverse DEF ExpireAndPop, Unbind
<1>5. ASSUME NEW k \in Live' PROVE key_tags'[k] = tags_of'[k]
  <2>1. k \in Live /\ k \notin S
    BY <1>1 DEF Live, Present, Without
  <2>2. k \in Keys /\ k \notin dead \cup R
    BY <2>1 DEF Live, Present
  <2> QED  BY <2>1, <2>2 DEF Inv, IndexExact, ExpireAndPop, Unbind
<1> QED  BY <1>3, <1>4, <1>5 DEF Inv, IndexExact

\* So does the end of a set, whatever was evicted or expired before it.
LEMMA StoreInv ==
    ASSUME Inv, NEW k \in Keys, NEW T \in SUBSET Tags, NEW victim, NEW late,
           victim \subseteq Keys, Store(k, T, victim, late)
    PROVE  Inv'
<1> DEFINE U == SetUnbinds(k, victim)
<1>0. /\ UnboundTagKeys(U) \in [Tags -> SUBSET Keys]
      /\ \A j \in Keys, t \in Tags :
            j \in UnboundTagKeys(U)[t] <=> (j \notin U /\ t \in key_tags[j])
  BY UnboundInverse
<1>1. k \in U
  BY DEF SetUnbinds
<1>2. TypeOK'
  <2>1. tag_keys' \in [Tags -> SUBSET Keys]
    BY <1>0 DEF Store
  <2> QED  BY <2>1 DEF Inv, TypeOK, Store, Without, Present
<1>3. ASSUME NEW j \in Keys, NEW t \in Tags PROVE j \in tag_keys'[t] <=> t \in key_tags'[j]
  <2>1. key_tags'[j] = IF j = k THEN T ELSE IF j \in U THEN {} ELSE key_tags[j]
    BY DEF Store
  <2>2. tag_keys'[t] = UnboundTagKeys(U)[t] \cup (IF t \in T THEN {k} ELSE {})
    BY DEF Store
  <2> QED  BY <1>0, <1>1, <2>1, <2>2
<1>4. ASSUME NEW j \in Live' PROVE key_tags'[j] = tags_of'[j]
  <2>1. j \in Keys /\ cache'[j] # 0
    BY DEF Live, Present
  <2>2. CASE j = k
    BY <2>2 DEF Store, Inv, TypeOK
  <2>3. CASE j # k
    <3>1. cache'[j] = IF j \in dead \cup late \cup victim THEN 0 ELSE cache[j]
      BY <2>1, <2>3 DEF Store, Without
    <3>2. j \in Live /\ j \notin U
      BY <2>1, <2>3, <3>1 DEF Live, Present, SetUnbinds
    <3> QED  BY <2>1, <2>3, <3>2 DEF Store, Inv, TypeOK, IndexExact
  <2> QED  BY <2>2, <2>3
<1> QED  BY <1>2, <1>3, <1>4 DEF Inv, IndexExact

\* The invariant holds initially.
LEMMA InitInv == Init => Inv
BY DEF Init, Inv, TypeOK, IndexExact, Live, Present

\* Every step keeps the invariant.
LEMMA NextInv == Inv /\ [Next]_vars => Inv'
<1> SUFFICES ASSUME Inv, [Next]_vars PROVE Inv'
  OBVIOUS
<1>1. ASSUME NEW k \in Keys, Age(k) PROVE Inv'
  BY <1>1 DEF Age, Inv, TypeOK, IndexExact, Present, Live, index, history
<1>2. ASSUME NEW k \in Keys, Delete(k) \/ DeleteRaises(k) PROVE Inv'
  BY <1>2, RemovalInv DEF Delete, DeleteRaises, history, Inv, TypeOK
<1>3. ASSUME NEW t \in Tags, InvalidateTag(t) \/ InvalidateRaises(t) PROVE Inv'
  <2>1. CASE InvalidateTag(t)
    BY <2>1, RemovalInv DEF InvalidateTag, Inv, TypeOK
  <2>2. CASE InvalidateRaises(t)
    <3>1. PICK S, R : R \subseteq S /\ ExpireAndPop(S, R)
      BY <2>2 DEF InvalidateRaises
    <3> QED  BY <2>2, <3>1, RemovalInv DEF InvalidateRaises, history, Inv, TypeOK
  <2> QED  BY <1>3, <2>1, <2>2
<1>4. CASE Clear
  BY <1>4 DEF Clear, Inv, TypeOK, IndexExact, Live, Present
<1>5. ASSUME NEW k \in Keys, NEW T \in SUBSET Tags, SetInPlace(k, T) \/ SetEvicting(k, T)
      PROVE  Inv'
  <2>1. \E victim, late : victim \subseteq Keys /\ Store(k, T, victim, late)
    BY <1>5 DEF SetInPlace, SetEvicting, Live, Present
  <2> QED  BY <2>1, StoreInv
<1>6. ASSUME NEW k \in Keys, SetRaises(k) PROVE Inv'
  BY <1>6, UnboundInverse
  DEF SetRaises, Unbind, Inv, TypeOK, IndexExact, Live, Present, history
<1>7. CASE UNCHANGED vars
  BY <1>7 DEF vars, Inv, TypeOK, IndexExact, Live, Present
<1>8. CASE Get
  BY <1>8, RemovalInv DEF Get, history, Inv, TypeOK
<1> QED
  BY <1>1, <1>2, <1>3, <1>4, <1>5, <1>6, <1>7, <1>8 DEF Next, SetStep

\* Every reachable state of the in-process cache has its type.
THEOREM MemoryTypes == Spec => []TypeOK
<1>1. Inv => TypeOK
  BY DEF Inv
<1> QED  BY InitInv, NextInv, <1>1, PTL DEF Spec

\* For any keys and tags, the two maps stay inverse to each other and give
\* every entry that a get finds the tags of its latest set, whatever expires
\* between _expire and a pop.
THEOREM IndexIsExact == Spec => []IndexExact
<1>1. Inv => IndexExact
  BY DEF Inv
<1> QED  BY InitInv, NextInv, <1>1, PTL DEF Spec

\* A key that is cached after a step that wrote nothing to it was cached
\* before, with the same value and tags.
LEMMA Remains ==
    ASSUME NEW k \in Keys, k \in Live' => k \in Live /\ cache'[k] = cache[k],
           tags_of'[k] = tags_of[k]
    PROVE  Visible(k)' \in {Visible(k), NONE}
BY DEF Visible

\* Expiring what is over and popping keys loses entries, those of the popped
\* keys among them, and changes none.
LEMMA RemovalLoses ==
    ASSUME NEW S, NEW R, ExpireAndPop(S, R), tags_of' = tags_of
    PROVE  Contract!KeepOrLose(Keys) /\ \A k \in Live' : k \in Live /\ k \notin S
<1>1. PICK late \in SUBSET (S \cap Live) : cache' = Without(dead \cup (S \ late)) /\ dead' = late
  BY DEF ExpireAndPop
<1>2. ASSUME NEW k \in Live' PROVE k \in Live /\ k \notin S /\ cache'[k] = cache[k]
  BY <1>1 DEF Live, Present, Without
<1>3. ASSUME NEW k \in Keys PROVE Visible(k)' \in {Visible(k), NONE}
  BY <1>2, Remains
<1> QED  BY <1>2, <1>3 DEF Contract!KeepOrLose

\* The end of a set is a set of the contract.
LEMMA StoreIsSet ==
    ASSUME Inv, NEW k \in Keys, NEW T \in SUBSET Tags, NEW victim, NEW late,
           Store(k, T, victim, late)
    PROVE  Contract!Set(k)
<1>1. Visible(k)' \in {[value |-> writes + 1, tags |-> T], NONE}
  BY DEF Store, Visible, Inv, TypeOK, Without
<1>2. ASSUME NEW j \in Keys \ {k} PROVE Visible(j)' \in {Visible(j), NONE}
  <2>1. j \in Live' => j \in Live /\ cache'[j] = cache[j]
    BY DEF Live, Present, Store, Without
  <2>2. tags_of'[j] = tags_of[j]
    BY DEF Store, Inv, TypeOK
  <2> QED  BY <2>1, <2>2, Remains
<1> QED  BY <1>1, <1>2 DEF Contract!Set, Contract!KeepOrLose, Store

\* The in-process cache implements the contract of a tagged cache, with the
\* evictions and expiries that go past its index.
THEOREM MemoryKeepsContract == Spec => KeepsContract
<1>1. Init => Contract!ContractInit
  BY DEF Init, Contract!ContractInit, Visible, Live, Present
<1>2. Inv /\ [Next]_vars => [Contract!ContractNext]_(Contract!contract)
  <2> SUFFICES ASSUME Inv, [Next]_vars
               PROVE  Contract!ContractNext \/ UNCHANGED Contract!contract
    OBVIOUS
  <2>1. ASSUME NEW k \in Keys, Age(k) PROVE Contract!Lose
    <3>1. ASSUME NEW j \in Keys PROVE Visible(j)' \in {Visible(j), NONE}
      BY <2>1, Remains DEF Age, Live, Present
    <3> QED  BY <2>1, <3>1 DEF Age, history, Contract!Lose, Contract!KeepOrLose
  <2>2. ASSUME NEW k \in Keys, Delete(k) \/ DeleteRaises(k) PROVE Contract!Lose
    BY <2>2, RemovalLoses DEF Delete, DeleteRaises, history, Contract!Lose
  <2>3. ASSUME Get PROVE Contract!Lose
    BY <2>3, RemovalLoses DEF Get, history, Contract!Lose
  <2>4. ASSUME NEW t \in Tags, InvalidateTag(t) PROVE Contract!InvalidateTag(t)
    <3>1. Contract!KeepOrLose(Keys)
      BY <2>4, RemovalLoses DEF InvalidateTag
    <3>2. ASSUME NEW k \in Keys, Visible(k)' # NONE PROVE t \notin Visible(k)'.tags
      <4>1. k \in Live' /\ Visible(k)'.tags = tags_of[k]
        BY <2>4, <3>2 DEF Visible, InvalidateTag
      <4>2. k \in Live /\ k \notin UnboundTagKeys(dead)[t]
        BY <2>4, <4>1, RemovalLoses DEF InvalidateTag
      <4>3. t \notin key_tags[k]
        BY <4>2, UnboundInverse DEF Live, Present
      <4> QED  BY <4>1, <4>2, <4>3 DEF Inv, IndexExact
    <3> QED  BY <2>4, <3>1, <3>2 DEF InvalidateTag, Contract!InvalidateTag
  <2>5. ASSUME Clear PROVE Contract!Clear
    BY <2>5 DEF Clear, Contract!Clear, Visible, Live, Present
  <2>6. ASSUME NEW k \in Keys, NEW T \in SUBSET Tags, SetInPlace(k, T) \/ SetEvicting(k, T)
        PROVE  Contract!Set(k)
    BY <2>6, StoreIsSet DEF SetInPlace, SetEvicting
  <2>7. ASSUME NEW k \in Keys, SetRaises(k) PROVE Contract!Lose
    <3>1. ASSUME NEW j \in Keys PROVE Visible(j)' = NONE
      BY <2>7 DEF SetRaises, Visible, Live, Present
    <3> QED  BY <2>7, <3>1 DEF SetRaises, history, Contract!Lose, Contract!KeepOrLose
  <2>8. CASE UNCHANGED vars
    <3>1. ASSUME NEW j \in Keys PROVE Visible(j)' = Visible(j)
      BY <2>8 DEF vars, Visible, Live, Present
    <3> QED  BY <2>8, <3>1 DEF vars, Contract!contract
  <2>9. ASSUME NEW t \in Tags, InvalidateRaises(t) PROVE Contract!Lose
    <3>1. Contract!KeepOrLose(Keys)
      BY <2>9, RemovalLoses DEF InvalidateRaises
    <3> QED  BY <2>9, <3>1 DEF InvalidateRaises, history, Contract!Lose
  <2> QED
    BY <2>1, <2>2, <2>3, <2>4, <2>5, <2>6, <2>7, <2>8, <2>9
    DEF Next, SetStep, Contract!ContractNext
<1> QED  BY InitInv, NextInv, <1>1, <1>2, PTL DEF Spec, KeepsContract, Contract!ContractSpec

---------------------------------------------------------------------------

\* The cache holds finitely many entries, as many as max_size at most.
SizeInv == IsFiniteSet(Present) /\ SizeBounded

\* A step after which there is no new entry keeps to the size.
LEMMA Shrinks ==
    ASSUME SizeInv, Present' \subseteq Present
    PROVE  SizeInv'
<1>1. IsFiniteSet(Present') /\ Cardinality(Present') <= Cardinality(Present)
  BY FS_Subset DEF SizeInv
<1>2. Cardinality(Present') \in Nat /\ Cardinality(Present) \in Nat
  BY <1>1, FS_CardinalityType DEF SizeInv
<1> QED  BY <1>1, <1>2, MemoryAssumption DEF SizeInv, SizeBounded

\* Popping adds no entry.
LEMMA PopShrinks ==
    ASSUME NEW S, NEW R, ExpireAndPop(S, R)
    PROVE  Present' \subseteq Present
BY DEF ExpireAndPop, Without, Present

\* One more entry on top of a set of entries with room for it keeps to it.
LEMMA Grows ==
    ASSUME SizeInv, NEW S \in SUBSET Present, Cardinality(S) < MaxSize,
           NEW k, Present' \subseteq S \cup {k}
    PROVE  SizeInv'
<1>1. IsFiniteSet(S)
  BY FS_Subset DEF SizeInv
<1>2. Cardinality(S) \in Nat
  BY <1>1, FS_CardinalityType
<1>3. IsFiniteSet(S \cup {k}) /\ Cardinality(S \cup {k}) <= MaxSize
  BY <1>1, <1>2, FS_AddElement, MemoryAssumption
<1>4. IsFiniteSet(Present') /\ Cardinality(Present') <= Cardinality(S \cup {k})
  BY <1>3, FS_Subset
<1>5. Cardinality(Present') \in Nat /\ Cardinality(S \cup {k}) \in Nat
  BY <1>3, <1>4, FS_CardinalityType
<1> QED  BY <1>3, <1>4, <1>5, MemoryAssumption DEF SizeInv, SizeBounded

\* For any keys and any max_size, no sequence of sets, evictions, expiries
\* and invalidations gets more than max_size entries into the cache.
THEOREM SizeIsBounded == Spec => []SizeBounded
<1>1. Init => SizeInv
  <2> SUFFICES ASSUME Init PROVE SizeInv
    OBVIOUS
  <2>1. Present = {}
    BY DEF Init, Present
  <2> QED  BY <2>1, FS_EmptySet, MemoryAssumption DEF SizeInv, SizeBounded
<1>2. SizeInv /\ [Next]_vars => SizeInv'
  <2> SUFFICES ASSUME SizeInv, [Next]_vars PROVE SizeInv'
    OBVIOUS
  <2>1. ASSUME NEW k \in Keys, NEW T, SetInPlace(k, T) PROVE SizeInv'
    <3>1. PICK soon \in SUBSET Live, late \in SUBSET Live :
            soon \subseteq late /\ ~Full(k, soon) /\ Store(k, T, {}, late)
      BY <2>1 DEF SetInPlace
    <3>2. Present' \subseteq (Live \ soon) \cup {k}
      BY <3>1 DEF Store, Without, Present, Live
    <3>3. Live \ soon \subseteq Present
      BY DEF Live
    <3>4. CASE k \in Live \ soon
      BY <3>2, <3>3, <3>4, Shrinks
    <3>5. CASE k \notin Live \ soon
      <4>1. Cardinality(Live \ soon) \in Nat
        BY <3>3, FS_Subset, FS_CardinalityType DEF SizeInv
      <4>2. Cardinality(Live \ soon) < MaxSize
        BY <3>1, <3>5, <4>1, MemoryAssumption DEF Full
      <4> QED  BY <3>2, <3>3, <4>2, Grows
    <3> QED  BY <3>4, <3>5
  <2>2. ASSUME NEW k \in Keys, NEW T, SetEvicting(k, T) PROVE SizeInv'
    <3>1. PICK late \in SUBSET Live, v \in Live : v \notin late /\ Store(k, T, {v}, late)
      BY <2>2 DEF SetEvicting
    <3>2. Present' \subseteq (Present \ {v}) \cup {k}
      BY <3>1 DEF Store, Without, Present
    <3>3. v \in Present
      BY <3>1 DEF Live
    <3>4. Cardinality(Present \ {v}) = Cardinality(Present) - 1
      BY <3>3, FS_RemoveElement DEF SizeInv
    <3>5. Cardinality(Present \ {v}) < MaxSize
      BY <3>4, FS_CardinalityType, MemoryAssumption DEF SizeInv, SizeBounded
    <3> QED  BY <3>2, <3>5, Grows
  <2>3. ASSUME NEW k \in Keys, SetRaises(k) \/ Delete(k) \/ DeleteRaises(k) \/ Age(k)
        PROVE  SizeInv'
    <3>1. Present' \subseteq Present
      BY <2>3, PopShrinks DEF SetRaises, Delete, DeleteRaises, Age, Present
    <3> QED  BY <3>1, Shrinks
  <2>4. ASSUME NEW t \in Tags, InvalidateTag(t) \/ InvalidateRaises(t) PROVE SizeInv'
    <3>1. Present' \subseteq Present
      BY <2>4, PopShrinks DEF InvalidateTag, InvalidateRaises
    <3> QED  BY <3>1, Shrinks
  <2>5. CASE Get \/ Clear \/ UNCHANGED vars
    <3>1. Present' \subseteq Present
      BY <2>5, PopShrinks DEF Get, Clear, vars, Present
    <3> QED  BY <3>1, Shrinks
  <2> QED  BY <2>1, <2>2, <2>3, <2>4, <2>5 DEF Next, SetStep
<1>3. SizeInv => SizeBounded
  BY DEF SizeInv
<1> QED  BY <1>1, <1>2, <1>3, PTL DEF Spec
=============================================================================
