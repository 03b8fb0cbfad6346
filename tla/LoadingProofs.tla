--------------------------- MODULE LoadingProofs ---------------------------
(***************************************************************************)
(* Proofs about LoadingCache, for every set of callers, every timeout that *)
(* __init__ accepts and every bound.                                       *)
(***************************************************************************)
EXTENDS LoadingCache, TLAPS

USE TimeoutsAssumption, BoundsAssumption

---------------------------------------------------------------------------
(* Types. *)

LEMMA TypeInit == Init => TypeOK
BY DEF Init, TypeOK, NoLease, NoValue, NoCall, Calls

\* What a command under way at an await may do keeps the types of the keys.
LEMMA TypeEffect ==
    ASSUME TypeOK, NEW c \in Callers, MaybeEffect(c)
    PROVE  /\ lease' \in [state : {"none", "in_progress", "failed"},
                          token : Nat, expire_at : Nat]
           /\ value' \in [by : Nat, expire_at : Nat]
           /\ grants' \in Nat
<1>1. call[c].token \in Nat
  BY DEF TypeOK, Calls
<1>2. CASE UNCHANGED redis
  BY <1>2 DEF redis, TypeOK
<1>3. CASE ACQUIRE_LEASE
  BY <1>3 DEF ACQUIRE_LEASE, LeaseAs, TypeOK
<1>4. CASE PUBLISH_VALUE(call[c].token)
  BY <1>1, <1>4 DEF PUBLISH_VALUE, NoLease, TypeOK
<1>5. CASE PUBLISH_FAILURE(call[c].token)
  BY <1>5 DEF PUBLISH_FAILURE, LeaseAs, TypeOK
<1>6. CASE RELEASE_LEASE(call[c].token)
  BY <1>6 DEF RELEASE_LEASE, NoLease, TypeOK
<1> QED
  BY <1>2, <1>3, <1>4, <1>5, <1>6 DEF MaybeEffect, ScriptEffect

\* Every step of a call is one command at most, and concerns that call only.
LEMMA StepShape ==
    ASSUME TypeOK, NEW c \in Callers, CallStep(c)
    PROVE  /\ MaybeEffect(c)
           /\ now' = now /\ set_after' = set_after
           /\ \A d \in Callers : d # c => call'[d] = call[d]
<1> USE DEF TypeOK, MaybeEffect, ScriptEffect, To, Returns, redis, budgets
<1>1. CASE GetOrLoad(c)
  BY <1>1 DEF GetOrLoad
<1>2. CASE Get(c)
  BY <1>2 DEF Get
<1>3. CASE Acquire(c)
  BY <1>3 DEF Acquire
<1>4. CASE AcquireRefused(c)
  BY <1>4 DEF AcquireRefused
<1>5. CASE Poll(c)
  BY <1>5 DEF Poll
<1>6. CASE Recheck(c)
  BY <1>6 DEF Recheck
<1>7. CASE LoaderReturns(c)
  BY <1>7 DEF LoaderReturns
<1>8. CASE PublishValue(c)
  BY <1>8 DEF PublishValue
<1>9. CASE PublishFailure(c)
  BY <1>9 DEF PublishFailure
<1>10. CASE Release(c)
  BY <1>10 DEF Release
<1>11. CASE CommandFails(c)
  BY <1>11 DEF CommandFails
<1>12. CASE Cancel(c)
  BY <1>12 DEF Cancel
<1>13. CASE Crash(c)
  BY <1>13 DEF Crash
<1> QED
  BY <1>1, <1>2, <1>3, <1>4, <1>5, <1>6, <1>7, <1>8, <1>9, <1>10, <1>11, <1>12, <1>13
  DEF CallStep

\* The steps of a call keep its type.
LEMMA TypeCall ==
    ASSUME TypeOK, NEW c \in Callers, CallStep(c)
    PROVE  call' \in [Callers -> Calls]
<1> DEFINE Updated(k) == [call EXCEPT ![c] = k]
<1>0. now + Lag \in Nat /\ now + LoadTimeout + Lag \in Nat /\ grants + 1 \in Nat
  BY DEF TypeOK
<1>1. call[c] \in Calls
  BY DEF TypeOK
<1>2. ASSUME NEW k \in Calls
      PROVE  Updated(k) \in [Callers -> Calls]
  BY DEF TypeOK
<1>3. ASSUME NEW pc \in {"get", "acquire", "recheck", "publish", "fail", "release"}
      PROVE  To(c, pc) \in [Callers -> Calls]
  <2>1. [call[c] EXCEPT !.pc = pc, !.until = now + Lag] \in Calls
    BY <1>0, <1>1 DEF Calls
  <2> QED
    BY <1>2, <2>1 DEF To
<1>4. ASSUME NEW result \in {"cached", "timeout", "loaded", "error", "released",
                            "cancelled", "crashed"}
      PROVE  Returns(c, result) \in [Callers -> Calls]
  <2>1. [call[c] EXCEPT !.pc = "returned", !.until = 0, !.deadline = 0, !.result = result]
          \in Calls
    BY <1>1 DEF Calls
  <2> QED
    BY <1>2, <2>1 DEF Returns
<1>5. CASE GetOrLoad(c)
  <2>1. [pc |-> "get", token |-> 0, until |-> now + Lag, deadline |-> now + WaitTimeout,
         first |-> grants, result |-> "none"] \in Calls
    BY DEF Calls, TypeOK
  <2> QED
    BY <1>2, <1>5, <2>1 DEF GetOrLoad
<1>6. CASE Acquire(c)
  <2>1. [call[c] EXCEPT !.pc = "recheck", !.token = grants + 1, !.until = now + Lag] \in Calls
    BY <1>0, <1>1 DEF Calls
  <2> QED
    BY <1>2, <1>6, <2>1 DEF Acquire
<1>7. CASE AcquireRefused(c)
  <2>1. WakeAt(c) \in Nat
    BY <1>1 DEF WakeAt, Calls, TypeOK
  <2>2. [call[c] EXCEPT !.pc = "sleep", !.until = WakeAt(c)] \in Calls
    BY <1>1, <2>1 DEF Calls
  <2> QED
    BY <1>2, <1>4, <1>7, <2>2 DEF AcquireRefused
<1>8. CASE Recheck(c)
  <2>1. [call[c] EXCEPT !.pc = "load", !.until = now + LoadTimeout + Lag] \in Calls
    BY <1>0, <1>1 DEF Calls
  <2> QED
    BY <1>2, <1>3, <1>8, <2>1 DEF Recheck
<1> QED
  BY <1>3, <1>4, <1>5, <1>6, <1>7, <1>8
  DEF CallStep, Get, Poll, LoaderReturns, PublishValue, PublishFailure, Release,
      CommandFails, Cancel, Crash

LEMMA TypeStep == TypeOK /\ [Next]_vars => TypeOK'
<1> SUFFICES ASSUME TypeOK, [Next]_vars
             PROVE  TypeOK'
  OBVIOUS
<1>1. ASSUME NEW c \in Callers, CallStep(c)
      PROVE  TypeOK'
  <2>1. /\ lease' \in [state : {"none", "in_progress", "failed"},
                       token : Nat, expire_at : Nat]
        /\ value' \in [by : Nat, expire_at : Nat]
        /\ grants' \in Nat
    BY <1>1, StepShape, TypeEffect
  <2>2. now' \in Nat /\ set_after' \in Nat
    BY <1>1, StepShape DEF TypeOK
  <2>3. call' \in [Callers -> Calls]
    BY <1>1, TypeCall
  <2>4. calls' \in Nat /\ sets' \in Nat /\ faults' \in Nat
    BY <1>1 DEF TypeOK, CallStep, GetOrLoad, Get, Acquire, AcquireRefused, Poll, Recheck,
                LoaderReturns, PublishValue, PublishFailure, Release, CommandFails,
                Cancel, Crash, budgets
  <2> QED
    BY <2>1, <2>2, <2>3, <2>4 DEF TypeOK
<1>2. CASE Set
  BY <1>2 DEF Set, TypeOK
<1>3. CASE Advance
  BY <1>3 DEF Advance, TypeOK, redis, budgets
<1>4. CASE UNCHANGED vars
  BY <1>4 DEF vars, TypeOK
<1> QED
  BY <1>1, <1>2, <1>3, <1>4 DEF Next

\* The shape of the state is kept: every lease and value has an expiry.
THEOREM LoadingTypes == Spec => []TypeOK
BY TypeInit, TypeStep, PTL DEF Spec

---------------------------------------------------------------------------
(* The lease: fencing of superseded owners, and no stale load. *)

\* While a set value outlives the leases it overtook, a cached value that
\* was loaded is newer than the latest set.
FreshInv ==
    /\ TypeOK
    /\ LeaseOK
    /\ ValueTTL >= LeaseTTL => SetOutlivesLease
    /\ NoStaleLoad

LEMMA FreshInit == Init => FreshInv
<1> SUFFICES ASSUME Init
             PROVE  FreshInv
  OBVIOUS
<1>1. TypeOK
  BY TypeInit
<1> QED
  BY <1>1 DEF Init, FreshInv, LeaseOK, SetOutlivesLease, NoStaleLoad, NoLease, NoValue, Cached

\* A command keeps the invariant, whatever token its caller has.
LEMMA FreshEffect ==
    ASSUME FreshInv, NEW c \in Callers, MaybeEffect(c), now' = now, set_after' = set_after
    PROVE  /\ LeaseOK'
           /\ ValueTTL >= LeaseTTL => SetOutlivesLease'
           /\ NoStaleLoad'
<1> USE DEF FreshInv, TypeOK, LeaseOK, SetOutlivesLease, NoStaleLoad, Cached
<1>1. call[c].token \in Nat
  BY DEF Calls
<1>2. CASE UNCHANGED redis
  BY <1>2 DEF redis
<1>3. CASE ACQUIRE_LEASE
  BY <1>3 DEF ACQUIRE_LEASE, LeaseAs
<1>4. CASE PUBLISH_VALUE(call[c].token)
  <2>1. CASE Holds(call[c].token)
    BY <1>1, <1>4, <2>1 DEF PUBLISH_VALUE, Holds, LeaseLive, NoLease
  <2>2. CASE ~Holds(call[c].token)
    BY <1>4, <2>2 DEF PUBLISH_VALUE
  <2> QED
    BY <2>1, <2>2
<1>5. CASE PUBLISH_FAILURE(call[c].token)
  BY <1>5 DEF PUBLISH_FAILURE, LeaseAs
<1>6. CASE RELEASE_LEASE(call[c].token)
  BY <1>6 DEF RELEASE_LEASE, NoLease
<1> QED
  BY <1>2, <1>3, <1>4, <1>5, <1>6 DEF MaybeEffect, ScriptEffect

LEMMA FreshStep == FreshInv /\ [Next]_vars => FreshInv'
<1> SUFFICES ASSUME FreshInv, [Next]_vars
             PROVE  FreshInv'
  OBVIOUS
<1> USE DEF FreshInv
<1>1. TypeOK'
  BY TypeStep
<1>2. ASSUME NEW c \in Callers, CallStep(c)
      PROVE  FreshInv'
  BY <1>1, <1>2, StepShape, FreshEffect
<1>3. CASE Set
  BY <1>1, <1>3 DEF Set, TypeOK, LeaseOK, SetOutlivesLease, NoStaleLoad, Cached
<1>4. CASE Advance
  BY <1>1, <1>4 DEF Advance, TypeOK, LeaseOK, SetOutlivesLease, NoStaleLoad, Cached, redis
<1>5. CASE UNCHANGED vars
  BY <1>1, <1>5 DEF vars, TypeOK, LeaseOK, SetOutlivesLease, NoStaleLoad, Cached
<1> QED
  BY <1>2, <1>3, <1>4, <1>5 DEF Next

\* Where ttl is at least lease_ttl, a load that began before a set never
\* puts its value into the cache after it, however late it publishes.
THEOREM LoadsAreFresh == Spec => []NoStaleLoad
<1>1. FreshInv => NoStaleLoad
  BY DEF FreshInv
<1> QED
  BY FreshInit, FreshStep, <1>1, PTL DEF Spec

\* The token of a superseded owner matches no lease, so its commands
\* change neither key.
LEMMA SupersededStep ==
    ASSUME FreshInv, [Next]_vars, NEW c \in Callers, Superseded(c),
           call[c].pc \in {"publish", "fail", "release"}, call'[c] # call[c]
    PROVE  UNCHANGED <<lease, value>>
<1> USE DEF FreshInv
<1>1. PICK d \in Callers : CallStep(d)
  BY DEF Next, Set, Advance, vars
<1>2. MaybeEffect(c)
  BY <1>1, StepShape
<1>3. ~Holds(call[c].token)
  BY DEF Superseded, Holds, LeaseOK, TypeOK, Calls
<1> QED
  BY <1>2, <1>3 DEF MaybeEffect, ScriptEffect, PUBLISH_VALUE, PUBLISH_FAILURE,
                    RELEASE_LEASE, redis

\* A loader that finishes, fails or is cancelled after its lease went to a
\* successor changes neither the successor's lease nor the value.
THEOREM OwnersAreFenced == Spec => SupersededIsHarmless
<1>1. FreshInv /\ [Next]_vars =>
        [\A c \in Callers : Superseded(c) /\ call[c].pc \in {"publish", "fail", "release"}
                            /\ call'[c] # call[c] => UNCHANGED <<lease, value>>]_vars
  BY SupersededStep
<1> QED
  BY FreshInit, FreshStep, <1>1, PTL DEF Spec, SupersededIsHarmless

---------------------------------------------------------------------------
(* The calls: waiting, handover and ownership. *)

\* What a step leaves of the call's other fields.
Same(c) ==
    /\ call'[c].token = call[c].token /\ call'[c].deadline = call[c].deadline
    /\ call'[c].first = call[c].first /\ call'[c].result = call[c].result

\* A step of a call, by where it leads.
Started(c) ==
    /\ call'[c].pc = "get" /\ call'[c].token = 0 /\ call'[c].until = now + Lag
    /\ call'[c].deadline = now + WaitTimeout /\ call'[c].first = grants
    /\ call'[c].result = "none"
    /\ UNCHANGED redis
WaitsOn(c) ==
    /\ \/ call[c].pc = "get" /\ call'[c].pc = "acquire" /\ call'[c].until = now + Lag
       \/ call[c].pc = "sleep" /\ call'[c].pc = "get" /\ call'[c].until = now + Lag
       \/ /\ call[c].pc = "acquire" /\ call'[c].pc = "sleep"
          /\ call[c].deadline > now /\ call'[c].until = WakeAt(c)
    /\ Same(c) /\ UNCHANGED redis
Owns(c) ==
    /\ call[c].pc = "acquire" /\ call'[c].pc = "recheck"
    /\ call'[c].token = grants + 1 /\ call'[c].until = now + Lag
    /\ call'[c].first = call[c].first /\ call'[c].result = call[c].result
    /\ ACQUIRE_LEASE
Loads(c) ==
    /\ call[c].pc = "recheck" /\ call'[c].pc = "load" /\ ~Cached
    /\ call'[c].until = now + LoadTimeout + Lag
    /\ Same(c) /\ UNCHANGED redis
Settles(c) ==
    /\ call[c].pc # "returned"
    /\ call'[c].pc \in {"publish", "fail", "release"} /\ call'[c].until = now + Lag
    /\ Same(c)
Ends(c) ==
    /\ call[c].pc # "returned"
    /\ call'[c].pc = "returned" /\ call'[c].result # "timeout"
    /\ call'[c].token = call[c].token /\ call'[c].first = call[c].first
TimesOut(c) ==
    /\ call[c].pc = "acquire" /\ call'[c].pc = "returned" /\ call'[c].result = "timeout"
    /\ call[c].deadline <= now /\ LeaseLive /\ lease.state # "failed"
    /\ call'[c].token = call[c].token /\ call'[c].first = call[c].first
    /\ UNCHANGED redis

LEMMA CallCases ==
    ASSUME TypeOK, NEW c \in Callers, CallStep(c)
    PROVE  \/ Started(c) \/ WaitsOn(c) \/ Owns(c) \/ Loads(c) \/ Settles(c)
           \/ Ends(c) \/ TimesOut(c)
<1> USE DEF TypeOK, Calls, Same
<1>1. CASE GetOrLoad(c)
  BY <1>1 DEF GetOrLoad, Started
<1>2. CASE Get(c)
  BY <1>2 DEF Get, To, Returns, WaitsOn, Ends
<1>3. CASE Acquire(c)
  BY <1>3 DEF Acquire, Owns
<1>4. CASE AcquireRefused(c)
  <2>1. CASE Expired(c)
    BY <1>4, <2>1 DEF AcquireRefused, Expired, MayAcquire, Returns, TimesOut
  <2>2. CASE ~Expired(c)
    BY <1>4, <2>2 DEF AcquireRefused, Expired, WaitsOn
  <2> QED
    BY <2>1, <2>2
<1>5. CASE Poll(c)
  BY <1>5 DEF Poll, To, WaitsOn
<1>6. CASE Recheck(c)
  BY <1>6 DEF Recheck, CachedAtRecheck, To, Loads, Settles
<1>7. CASE LoaderReturns(c)
  BY <1>7 DEF LoaderReturns, To, Settles
<1>8. CASE PublishValue(c)
  BY <1>8 DEF PublishValue, Returns, Ends
<1>9. CASE PublishFailure(c)
  BY <1>9 DEF PublishFailure, Returns, Ends
<1>10. CASE Release(c)
  BY <1>10 DEF Release, Returns, Ends
<1>11. CASE CommandFails(c)
  BY <1>11 DEF CommandFails, To, Returns, Settles, Ends
<1>12. CASE Cancel(c)
  BY <1>12 DEF Cancel, To, Returns, Settles, Ends
<1>13. CASE Crash(c)
  BY <1>13 DEF Crash, Returns, Ends
<1> QED
  BY <1>1, <1>2, <1>3, <1>4, <1>5, <1>6, <1>7, <1>8, <1>9, <1>10, <1>11, <1>12, <1>13
  DEF CallStep

\* What a command of c does to the lease, as another call sees it.
LEMMA EffectOnLease ==
    ASSUME TypeOK, NEW c \in Callers, MaybeEffect(c)
    PROVE  \/ grants' = grants + 1
           \/ grants' = grants /\ (lease' = lease \/ lease'.state # "in_progress")
BY DEF TypeOK, MaybeEffect, ScriptEffect, ACQUIRE_LEASE, PUBLISH_VALUE, PUBLISH_FAILURE,
       RELEASE_LEASE, LeaseAs, NoLease, redis

\* The invariant of the waiting loop.
WaitInv ==
    /\ FreshInv
    /\ \A c \in Callers : WaitOK(c)
    /\ WaitTimeout >= LeaseTTL => \A c \in Callers : HandoverOK(c)
    /\ TimeoutAfterHandover

LEMMA WaitInit == Init => WaitInv
BY FreshInit DEF Init, WaitInv, WaitOK, HandoverOK, TimeoutAfterHandover, NoCall

LEMMA WaitStep == WaitInv /\ [Next]_vars => WaitInv'
<1> SUFFICES ASSUME WaitInv, [Next]_vars
             PROVE  WaitInv'
  OBVIOUS
<1>0. FreshInv' /\ TypeOK /\ TypeOK' /\ LeaseOK
  BY FreshStep DEF WaitInv, FreshInv
<1>1. ASSUME NEW c \in Callers, CallStep(c)
      PROVE  WaitInv'
  <2>1. /\ MaybeEffect(c) /\ now' = now
        /\ \A d \in Callers : d # c => call'[d] = call[d]
    BY <1>0, <1>1, StepShape
  <2>2. \/ Started(c) \/ WaitsOn(c) \/ Owns(c) \/ Loads(c) \/ Settles(c)
        \/ Ends(c) \/ TimesOut(c)
    BY <1>0, <1>1, CallCases
  <2>3. \/ grants' = grants + 1
        \/ grants' = grants /\ (lease' = lease \/ lease'.state # "in_progress")
    BY <1>0, <2>1, EffectOnLease
  <2>4. call[c] \in Calls /\ WaitOK(c)
    BY <1>0 DEF TypeOK, WaitInv
  <2>5. WaitOK(c)'
    BY <1>0, <2>1, <2>2, <2>4
    DEF TypeOK, Calls, WaitOK, WakeAt, Same, Started, WaitsOn, Owns, Loads, Settles,
        Ends, TimesOut
  <2>6. ASSUME WaitTimeout >= LeaseTTL
        PROVE  HandoverOK(c)' /\ (call'[c].result = "timeout" => grants' > call'[c].first)
    <3>1. HandoverOK(c) /\ (call[c].result = "timeout" => grants > call[c].first)
      BY <2>6 DEF WaitInv, TimeoutAfterHandover
    <3>2. CASE Started(c)
      BY <1>0, <2>6, <3>2 DEF Started, HandoverOK, LeaseOK, TypeOK, redis
    <3>3. CASE TimesOut(c)
      BY <1>0, <2>4, <3>1, <3>3 DEF TimesOut, HandoverOK, LeaseLive, TypeOK, Calls, redis
    <3>4. CASE WaitsOn(c)
      BY <1>0, <2>4, <3>1, <3>4 DEF WaitsOn, Same, HandoverOK, TypeOK, Calls, redis
    <3>5. CASE Owns(c) \/ Loads(c) \/ Settles(c) \/ Ends(c)
      BY <1>0, <2>3, <2>4, <3>1, <3>5
      DEF Owns, Loads, Settles, Ends, Same, HandoverOK, TypeOK, Calls
    <3> QED
      BY <2>2, <3>2, <3>3, <3>4, <3>5
  <2>7. ASSUME NEW d \in Callers, d # c
        PROVE  /\ WaitOK(d)'
               /\ WaitTimeout >= LeaseTTL =>
                     HandoverOK(d)' /\ (call'[d].result = "timeout" => grants' > call'[d].first)
    <3>1. call'[d] = call[d] /\ call[d] \in Calls
      BY <1>0, <2>1, <2>7 DEF TypeOK
    <3>2. WaitOK(d)'
      BY <2>1, <3>1 DEF WaitInv, WaitOK
    <3>3. ASSUME WaitTimeout >= LeaseTTL
          PROVE  HandoverOK(d)' /\ (call'[d].result = "timeout" => grants' > call'[d].first)
      BY <1>0, <2>3, <3>1, <3>3 DEF WaitInv, HandoverOK, TimeoutAfterHandover, TypeOK, Calls
    <3> QED
      BY <3>2, <3>3
  <2> QED
    BY <1>0, <2>5, <2>6, <2>7 DEF WaitInv, TimeoutAfterHandover
<1>2. CASE Set
  BY <1>0, <1>2 DEF Set, WaitInv, WaitOK, HandoverOK, TimeoutAfterHandover
<1>3. CASE Advance
  BY <1>0, <1>3 DEF Advance, WaitInv, WaitOK, HandoverOK, TimeoutAfterHandover, TypeOK, Calls, redis
<1>4. CASE UNCHANGED vars
  BY <1>0, <1>4 DEF vars, WaitInv, WaitOK, HandoverOK, TimeoutAfterHandover
<1> QED
  BY <1>1, <1>2, <1>3, <1>4 DEF Next

\* No caller stays in the waiting loop past its wait_timeout and the delay
\* of its last round of commands.
THEOREM WaitingIsBounded == Spec => []BoundedWait
<1>1. WaitInv => BoundedWait
  BY DEF WaitInv, FreshInv, WaitOK, BoundedWait, TypeOK, Calls
<1> QED
  BY WaitInit, WaitStep, <1>1, PTL DEF Spec

\* Where wait_timeout is at least lease_ttl, a TimeoutError means that a
\* lease was granted to somebody else during the wait.
THEOREM NoTimeoutWithoutHandover == Spec => []TimeoutAfterHandover
<1>1. WaitInv => TimeoutAfterHandover
  BY DEF WaitInv
<1> QED
  BY WaitInit, WaitStep, <1>1, PTL DEF Spec

---------------------------------------------------------------------------
(* Ownership, where the loader fits into the lease. *)

OwnerInv ==
    /\ WaitInv
    /\ TokensDistinct
    /\ OwnersOK
    /\ LoadedOnce

LEMMA OwnerInit == Init => OwnerInv
BY WaitInit DEF Init, OwnerInv, TokensDistinct, OwnersOK, OwnerOK, LoadedOnce, NoCall

\* Tokens stay distinct: a granted token is larger than all before it.
LEMMA TokensStep ==
    ASSUME TypeOK, TokensDistinct, NEW c \in Callers, CallStep(c)
    PROVE  TokensDistinct'
<1>1. \A d \in Callers : d # c => call'[d] = call[d]
  BY StepShape
<1>2. grants' = grants + 1 \/ grants' = grants
  BY StepShape, EffectOnLease
<1>3. \/ call'[c].token = 0
      \/ call'[c].token = call[c].token
      \/ call'[c].token = grants + 1 /\ grants' = grants + 1
  BY CallCases DEF Started, WaitsOn, Owns, Loads, Settles, Ends, TimesOut, Same, ACQUIRE_LEASE
<1>4. \A d \in Callers : call[d].token \in Nat /\ call[d].token <= grants
  BY DEF TypeOK, Calls, TokensDistinct
<1> QED
  BY <1>1, <1>2, <1>3, <1>4 DEF TokensDistinct, TypeOK

\* While d has the lease until its loader ends, no other call's command
\* touches the lease or publishes a value.
LEMMA OwnerUndisturbed ==
    ASSUME OwnerInv, NEW c \in Callers, MaybeEffect(c), NEW d \in Callers, c # d,
           call[d].pc \in {"recheck", "load"}
    PROVE  lease' = lease /\ value' = value
<1>0. TypeOK /\ LeaseOK /\ WaitOK(d) /\ OwnerOK(d)
  BY DEF OwnerInv, WaitInv, FreshInv, OwnersOK
<1>1. lease.state = "in_progress" /\ lease.token = call[d].token /\ now < lease.expire_at
  BY <1>0 DEF OwnerOK, WaitOK, TypeOK, Calls
<1>2. ~MayAcquire
  BY <1>1 DEF MayAcquire, LeaseLive
<1>3. call[c].token # call[d].token
  BY <1>0, <1>1 DEF OwnerInv, TokensDistinct, LeaseOK, TypeOK, Calls
<1>4. ~Holds(call[c].token)
  BY <1>1, <1>3 DEF Holds
<1> QED
  BY <1>2, <1>4 DEF MaybeEffect, ScriptEffect, ACQUIRE_LEASE, PUBLISH_VALUE,
                    PUBLISH_FAILURE, RELEASE_LEASE, redis

LEMMA OwnerStep ==
    ASSUME NoOverrun
    PROVE  OwnerInv /\ [Next]_vars => OwnerInv'
<1> SUFFICES ASSUME OwnerInv, [Next]_vars
             PROVE  OwnerInv'
  OBVIOUS
<1>0. WaitInv' /\ TypeOK /\ TypeOK' /\ TokensDistinct
  BY WaitStep DEF OwnerInv, WaitInv, FreshInv
<1>1. ASSUME NEW c \in Callers, CallStep(c)
      PROVE  OwnerInv'
  <2>1. /\ MaybeEffect(c) /\ now' = now
        /\ \A d \in Callers : d # c => call'[d] = call[d]
    BY <1>0, <1>1, StepShape
  <2>2. \/ Started(c) \/ WaitsOn(c) \/ Owns(c) \/ Loads(c) \/ Settles(c)
        \/ Ends(c) \/ TimesOut(c)
    BY <1>0, <1>1, CallCases
  <2>3. call[c] \in Calls /\ WaitOK(c) /\ OwnerOK(c)
    BY <1>0 DEF TypeOK, OwnerInv, WaitInv, OwnersOK
  <2>4. OwnerOK(c)' /\ (call'[c].pc = "load" => ~(Cached /\ value.by # 0)')
    <3>1. CASE Owns(c)
      BY <1>0, <2>1, <3>1 DEF Owns, OwnerOK, ACQUIRE_LEASE, LeaseAs, NoOverrun, TypeOK
    <3>2. CASE Loads(c)
      BY <1>0, <2>1, <2>3, <3>2 DEF Loads, Same, OwnerOK, WaitOK, Cached, TypeOK, Calls, redis
    <3>3. CASE Started(c) \/ WaitsOn(c) \/ Settles(c) \/ Ends(c) \/ TimesOut(c)
      BY <3>3 DEF Started, WaitsOn, Settles, Ends, TimesOut, OwnerOK
    <3> QED
      BY <2>2, <3>1, <3>2, <3>3
  <2>5. ASSUME NEW d \in Callers, d # c
        PROVE  OwnerOK(d)' /\ (call'[d].pc = "load" => ~(Cached /\ value.by # 0)')
    <3>1. call'[d] = call[d] /\ OwnerOK(d)
      BY <2>1, <2>5 DEF OwnerInv, OwnersOK
    <3>2. call[d].pc \in {"recheck", "load"} => lease' = lease /\ value' = value
      BY <2>1, <2>5, OwnerUndisturbed
    <3>3. OwnerOK(d)'
      BY <3>1, <3>2 DEF OwnerOK
    <3>4. call'[d].pc = "load" => ~(Cached /\ value.by # 0)'
      BY <2>1, <3>1, <3>2 DEF OwnerInv, LoadedOnce, Cached
    <3> QED
      BY <3>3, <3>4
  <2>6. TokensDistinct'
    BY <1>0, <1>1, TokensStep
  <2> QED
    BY <1>0, <2>4, <2>5, <2>6 DEF OwnerInv, OwnersOK, LoadedOnce
<1>2. CASE Set
  BY <1>0, <1>2 DEF Set, OwnerInv, TokensDistinct, OwnersOK, OwnerOK, LoadedOnce, Cached
<1>3. CASE Advance
  BY <1>0, <1>3 DEF Advance, OwnerInv, TokensDistinct, OwnersOK, OwnerOK, LoadedOnce,
                    Cached, TypeOK, redis
<1>4. CASE UNCHANGED vars
  BY <1>0, <1>4 DEF vars, OwnerInv, TokensDistinct, OwnersOK, OwnerOK, LoadedOnce, Cached
<1> QED
  BY <1>1, <1>2, <1>3, <1>4 DEF Next

\* Where the loader and the delays around it fit into lease_ttl, no two
\* loaders run at once, although owners fail, are cancelled or die.
THEOREM OneLoaderAtATime ==
    ASSUME NoOverrun
    PROVE  Spec => []SingleLoader
<1>1. OwnerInv => SingleLoader
  <2> SUFFICES ASSUME OwnerInv, NEW c \in Callers, NEW d \in Callers,
                      call[c].pc = "load", call[d].pc = "load"
               PROVE  c = d
    BY DEF SingleLoader
  <2>1. lease.state = "in_progress" /\ lease.token = call[c].token /\ lease.token = call[d].token
    BY DEF OwnerInv, OwnersOK, OwnerOK
  <2>2. lease.token # 0
    BY <2>1 DEF OwnerInv, WaitInv, FreshInv, LeaseOK, TypeOK
  <2> QED
    BY <2>1, <2>2 DEF OwnerInv, TokensDistinct
<1> QED
  BY OwnerInit, OwnerStep, <1>1, PTL DEF Spec

\* Under the same assumption nobody loads while a loaded value is cached.
THEOREM LoadsAreReused ==
    ASSUME NoOverrun
    PROVE  Spec => []LoadedOnce
<1>1. OwnerInv => LoadedOnce
  BY DEF OwnerInv
<1> QED
  BY OwnerInit, OwnerStep, <1>1, PTL DEF Spec
=============================================================================
