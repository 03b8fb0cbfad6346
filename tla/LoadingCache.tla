---------------------------- MODULE LoadingCache ----------------------------
(***************************************************************************)
(* RedisLoadingCache (cache/loading/redis.py): callers of get_or_load that *)
(* share the load of a missing key through a lease in Redis.               *)
(*                                                                         *)
(* Every key has a value key and a lease key of its own and keys do not    *)
(* interact, so one key is modelled.  A Redis command or script is atomic  *)
(* and one step of its caller; between two of them the caller awaits and   *)
(* the others run.  An owner token is a fresh UUID: here it is the number  *)
(* of the lease, in the order they were granted.  Keys expire by the       *)
(* clock, the same one the callers' timeouts run on.                       *)
(***************************************************************************)
EXTENDS Naturals

CONSTANTS
    Callers,        \* tasks that call get_or_load for the key
    LoadTimeout,    \* load_timeout
    LeaseTTL,       \* lease_ttl
    WaitTimeout,    \* wait_timeout
    PollInterval,   \* poll_interval
    ValueTTL,       \* ttl of a value
    Lag,            \* most an await is late
    MaxTime, MaxCalls, MaxSets, MaxFaults   \* bounds of the exploration

\* What __init__ checks.
ASSUME TimeoutsAssumption ==
    /\ LoadTimeout \in Nat \ {0} /\ LeaseTTL \in Nat \ {0}
    /\ WaitTimeout \in Nat \ {0} /\ PollInterval \in Nat \ {0}
    /\ ValueTTL \in Nat \ {0}
    /\ LeaseTTL > LoadTimeout

ASSUME BoundsAssumption ==
    /\ Lag \in Nat /\ MaxTime \in Nat
    /\ MaxCalls \in Nat /\ MaxSets \in Nat /\ MaxFaults \in Nat

VARIABLES
    now,        \* the clock
    lease,      \* the lease key
    value,      \* the value key; by is the lease it was loaded under, 0 if set
    call,       \* the latest get_or_load of each caller
    calls, sets, faults,    \* how often each happened, to bound them
    grants,     \* number of leases granted so far
    set_after   \* history: number of leases granted before the latest set

vars == <<now, lease, value, call, calls, sets, faults, grants, set_after>>

redis == <<lease, value, grants>>
budgets == <<calls, sets, faults>>

---------------------------------------------------------------------------

\* A key with an expiry in the past does not exist.
NoLease == [state |-> "none", token |-> 0, expire_at |-> 0]
NoValue == [by |-> 0, expire_at |-> 0]

Cached == now < value.expire_at
LeaseLive == lease.state # "none" /\ now < lease.expire_at

\* GET lease == token
Holds(token) == LeaseLive /\ lease.state = "in_progress" /\ lease.token = token

\* A call is at the await its pc names, or over.
Calls == [pc : {"returned", "get", "acquire", "sleep", "recheck", "load",
                "publish", "fail", "release"},
          token : Nat, until : Nat, deadline : Nat, first : Nat,
          result : {"none", "cached", "timeout", "loaded", "error",
                    "released", "cancelled", "crashed"}]

NoCall == [pc |-> "returned", token |-> 0, until |-> 0, deadline |-> 0,
           first |-> 0, result |-> "none"]

\* Mutant: the lease lives as long as a loader may run, and no longer.
LeaseForLoad(state, token) == [state |-> state, token |-> token, expire_at |-> now + LoadTimeout]

\* SET lease ... PX lease_ttl_ms
LeaseAs(state, token) == [state |-> state, token |-> token, expire_at |-> now + LeaseTTL]

Init ==
    /\ now = 0
    /\ lease = NoLease /\ value = NoValue
    /\ call = [c \in Callers |-> NoCall]
    /\ calls = 0 /\ sets = 0 /\ faults = 0
    /\ grants = 0 /\ set_after = 0

\* The caller goes on to a Redis command, or raises or returns.
To(c, pc) == [call EXCEPT ![c] = [@ EXCEPT !.pc = pc, !.until = now + Lag]]
Returns(c, result) ==
    [call EXCEPT ![c] = [@ EXCEPT !.pc = "returned", !.until = 0, !.deadline = 0,
                                  !.result = result]]

---------------------------------------------------------------------------
(* The scripts: what each does to the two keys. *)

\* Mutant: a failed lease has to expire like any other.
MayAcquireExpired == ~LeaseLive

\* _ACQUIRE_LEASE returns 1: no lease, or a failed one.
MayAcquire == ~LeaseLive \/ lease.state = "failed"

ACQUIRE_LEASE ==
    /\ MayAcquire
    /\ lease' = LeaseAs("in_progress", grants + 1)
    /\ grants' = grants + 1
    /\ UNCHANGED value

\* Mutant: the failure is written without its prefix.
PUBLISH_UNMARKED(token) ==
    /\ lease' = IF Holds(token) THEN LeaseAs("error", 0) ELSE lease
    /\ UNCHANGED <<value, grants>>

PUBLISH_FAILURE(token) ==
    /\ lease' = IF Holds(token) THEN LeaseAs("failed", 0) ELSE lease
    /\ UNCHANGED <<value, grants>>

\* Mutant: delete the lease, whoever holds it.
RELEASE_ANY_LEASE(token) == lease' = NoLease /\ UNCHANGED <<value, grants>>

RELEASE_LEASE(token) ==
    /\ lease' = IF Holds(token) THEN NoLease ELSE lease
    /\ UNCHANGED <<value, grants>>

\* Mutant: the value is written over one that is there.
PUBLISH_OVER_VALUE(token) ==
    /\ IF Holds(token)
       THEN lease' = NoLease /\ value' = [by |-> token, expire_at |-> now + ValueTTL]
       ELSE UNCHANGED <<lease, value>>
    /\ UNCHANGED grants

PUBLISH_VALUE(token) ==
    /\ IF Holds(token)
       THEN /\ lease' = NoLease
            /\ value' = IF Cached THEN value
                        ELSE [by |-> token, expire_at |-> now + ValueTTL]
       ELSE UNCHANGED <<lease, value>>
    /\ UNCHANGED grants

---------------------------------------------------------------------------
(* get_or_load *)

\* The call begins: its deadline, then the first get.
GetOrLoad(c) ==
    /\ calls < MaxCalls
    /\ call[c].pc = "returned"
    /\ call' = [call EXCEPT ![c] =
                  [pc |-> "get", token |-> 0, until |-> now + Lag,
                   deadline |-> now + WaitTimeout, first |-> grants, result |-> "none"]]
    /\ calls' = calls + 1
    /\ UNCHANGED <<now, redis, sets, faults, set_after>>

Get(c) ==
    /\ call[c].pc = "get"
    /\ call' = IF Cached THEN Returns(c, "cached") ELSE To(c, "acquire")
    /\ UNCHANGED <<now, redis, budgets, set_after>>

Acquire(c) ==
    /\ call[c].pc = "acquire"
    /\ ACQUIRE_LEASE
    /\ call' = [call EXCEPT ![c] =
                  [@ EXCEPT !.pc = "recheck", !.token = grants + 1, !.until = now + Lag]]
    /\ UNCHANGED <<now, value, budgets, set_after>>

\* remaining <= 0
Expired(c) == call[c].deadline <= now

\* Mutant: asyncio.sleep(poll_interval)
WakeAfterPoll(c) == now + PollInterval

\* asyncio.sleep(min(poll_interval, remaining))
WakeAt(c) ==
    IF now + PollInterval < call[c].deadline THEN now + PollInterval ELSE call[c].deadline

\* The lease is another's: TimeoutError, or sleep until the next poll.
AcquireRefused(c) ==
    /\ call[c].pc = "acquire"
    /\ ~MayAcquire
    /\ call' = IF Expired(c) THEN Returns(c, "timeout")
               ELSE [call EXCEPT ![c] = [@ EXCEPT !.pc = "sleep", !.until = WakeAt(c)]]
    /\ UNCHANGED <<now, redis, budgets, set_after>>

Poll(c) ==
    /\ call[c].pc = "sleep"
    /\ call[c].until <= now
    /\ call' = To(c, "get")
    /\ UNCHANGED <<now, redis, budgets, set_after>>

\* Mutant: the lease is taken for proof that the value is still missing.
CachedBeforeLoad == FALSE

\* The second get of get_or_load found a value.
CachedAtRecheck == Cached

\* The second get, with the lease: release it again, or call the loader.
Recheck(c) ==
    /\ call[c].pc = "recheck"
    /\ call' = IF CachedAtRecheck THEN To(c, "release")
               ELSE [call EXCEPT ![c] =
                       [@ EXCEPT !.pc = "load", !.until = now + LoadTimeout + Lag]]
    /\ UNCHANGED <<now, redis, budgets, set_after>>

\* The loader returns a value or None, raises or times out.
LoaderReturns(c) ==
    /\ call[c].pc = "load"
    /\ \E next \in {"publish", "release", "fail"} : call' = To(c, next)
    /\ UNCHANGED <<now, redis, budgets, set_after>>

PublishValue(c) ==
    /\ call[c].pc = "publish"
    /\ PUBLISH_VALUE(call[c].token)
    /\ call' = Returns(c, "loaded")
    /\ UNCHANGED <<now, budgets, set_after>>

PublishFailure(c) ==
    /\ call[c].pc = "fail"
    /\ PUBLISH_FAILURE(call[c].token)
    /\ call' = Returns(c, "error")
    /\ UNCHANGED <<now, budgets, set_after>>

\* _release_lease, after a cached value, a None or a cancellation.
Release(c) ==
    /\ call[c].pc = "release"
    /\ RELEASE_LEASE(call[c].token)
    /\ call' = Returns(c, "released")
    /\ UNCHANGED <<now, budgets, set_after>>

---------------------------------------------------------------------------
(* Failures, and the rest of the system. *)

\* The effect of the script under way at the caller's await.
ScriptEffect(c) ==
    \/ call[c].pc = "acquire" /\ ACQUIRE_LEASE
    \/ call[c].pc = "publish" /\ PUBLISH_VALUE(call[c].token)
    \/ call[c].pc = "fail"    /\ PUBLISH_FAILURE(call[c].token)
    \/ call[c].pc = "release" /\ RELEASE_LEASE(call[c].token)

\* A command whose reply is lost had its effect, or not.
MaybeEffect(c) == ScriptEffect(c) \/ UNCHANGED redis

\* A Redis command raises.  A failing publication turns into a published
\* failure; everywhere else the call ends with the exception.
CommandFails(c) ==
    /\ faults < MaxFaults
    /\ call[c].pc \in {"get", "acquire", "recheck", "publish", "fail", "release"}
    /\ MaybeEffect(c)
    /\ call' = IF call[c].pc = "publish" THEN To(c, "fail") ELSE Returns(c, "error")
    /\ faults' = faults + 1
    /\ UNCHANGED <<now, calls, sets, set_after>>

\* The caller is cancelled: _load releases the lease while it loads or
\* publishes, everywhere else the call just ends.
Cancel(c) ==
    /\ faults < MaxFaults
    /\ call[c].pc # "returned"
    /\ MaybeEffect(c)
    /\ call' = IF call[c].pc \in {"load", "publish"} THEN To(c, "release")
               ELSE Returns(c, "cancelled")
    /\ faults' = faults + 1
    /\ UNCHANGED <<now, calls, sets, set_after>>

\* The caller's process dies.
Crash(c) ==
    /\ faults < MaxFaults
    /\ call[c].pc # "returned"
    /\ MaybeEffect(c)
    /\ call' = Returns(c, "crashed")
    /\ faults' = faults + 1
    /\ UNCHANGED <<now, calls, sets, set_after>>

\* LoadingCache.set by somebody.
Set ==
    /\ sets < MaxSets
    /\ value' = [by |-> 0, expire_at |-> now + ValueTTL]
    /\ sets' = sets + 1
    /\ set_after' = grants
    /\ UNCHANGED <<now, lease, grants, call, calls, faults>>

\* Time passes, but not past what is due to happen.
Advance ==
    /\ now < MaxTime
    /\ \A c \in Callers : call[c].pc # "returned" => now < call[c].until
    /\ now' = now + 1
    /\ UNCHANGED <<redis, call, budgets, set_after>>

---------------------------------------------------------------------------

CallStep(c) ==
    \/ GetOrLoad(c) \/ Get(c) \/ Acquire(c) \/ AcquireRefused(c) \/ Poll(c)
    \/ Recheck(c) \/ LoaderReturns(c)
    \/ PublishValue(c) \/ PublishFailure(c) \/ Release(c)
    \/ CommandFails(c) \/ Cancel(c) \/ Crash(c)

Next == (\E c \in Callers : CallStep(c)) \/ Set \/ Advance

Spec == Init /\ [][Next]_vars

---------------------------------------------------------------------------
(* Properties. *)

\* The shape of the state: every lease and every value has an expiry.
TypeOK ==
    /\ now \in Nat
    /\ lease \in [state : {"none", "in_progress", "failed"}, token : Nat, expire_at : Nat]
    /\ value \in [by : Nat, expire_at : Nat]
    /\ call \in [Callers -> Calls]
    /\ calls \in Nat /\ sets \in Nat /\ faults \in Nat
    /\ grants \in Nat /\ set_after \in Nat

\* "One caller owns the lease and invokes the loader" (docs/cache.md): two
\* loaders never run at once.  It needs the lease to outlast the loader
\* and the delays around it (NoOverrun).
SingleLoader ==
    \A c, d \in Callers : call[c].pc = "load" /\ call[d].pc = "load" => c = d

\* "A waiting caller reuses the owner's successful result": nobody loads
\* while a value that a load published is in the cache, although a caller
\* may have missed before the publication and taken the lease after it.
LoadedOnce ==
    \A c \in Callers : call[c].pc = "load" => ~(Cached /\ value.by # 0)

\* "Follower waiting has a bound": a caller is not in the waiting loop for
\* longer than wait_timeout and the delay of its last round of commands.
BoundedWait ==
    \A c \in Callers : call[c].pc \in {"get", "acquire", "sleep"} =>
                          now <= call[c].deadline + Lag + Lag

\* With a wait_timeout of at least lease_ttl, a caller gets a TimeoutError
\* only after a lease changed hands while it waited: it does not wait in
\* vain for one owner that died, nor for a failure marker to go away
\* ("callers never wait for that TTL before retrying").
TimeoutAfterHandover ==
    WaitTimeout >= LeaseTTL =>
        \A c \in Callers : call[c].result = "timeout" => grants > call[c].first

\* The caller has lost its lease to a later owner.
Superseded(c) == call[c].token # 0 /\ call[c].token < grants

\* "A loader that finishes after its lease expires cannot replace a
\* successor's lease, failure marker, or value" (docs/cache.md): no step of
\* a superseded owner, error paths included, changes either key.
SupersededIsHarmless ==
    [][\A c \in Callers : Superseded(c) /\ call[c].pc \in {"publish", "fail", "release"}
                          /\ call'[c] # call[c] => UNCHANGED <<lease, value>>]_vars

\* A load that began before a set never puts its older value into the cache
\* after it: the set value outlives every lease granted before it, as long
\* as ttl is at least lease_ttl.
NoStaleLoad ==
    ValueTTL >= LeaseTTL => (Cached /\ value.by # 0 => value.by > set_after)

---------------------------------------------------------------------------
(* Why these hold: the inductive invariant, in parts. *)

\* The loader and the delays around it fit into the lease.  With no delays
\* this is what __init__ checks.
NoOverrun == Lag + LoadTimeout + Lag < LeaseTTL

\* A lease in progress is the latest one granted and expires in time.
LeaseOK ==
    /\ lease.state = "in_progress" => lease.token = grants /\ lease.token > 0
    /\ lease.expire_at <= now + LeaseTTL

\* A set value outlives the lease it overtook.
SetOutlivesLease ==
    /\ set_after <= grants
    /\ lease.state = "in_progress" /\ lease.token <= set_after =>
          lease.expire_at <= value.expire_at

\* No two calls have the same token.
TokensDistinct ==
    /\ \A c \in Callers : call[c].token <= grants
    /\ \A c, d \in Callers : c # d /\ call[c].token = call[d].token => call[c].token = 0

\* Where a waiting call may be in time.
WaitOK(c) ==
    /\ call[c].pc # "returned" => now <= call[c].until
    /\ call[c].pc = "get" => call[c].until <= call[c].deadline + Lag
    /\ call[c].pc = "acquire" => call[c].until <= call[c].deadline + Lag + Lag
    /\ call[c].pc = "sleep" => call[c].until <= call[c].deadline

\* Until a lease is granted, the one that a call waits for ends before the
\* call's deadline.
HandoverOK(c) ==
    /\ call[c].first <= grants
    /\ call[c].pc \in {"get", "acquire", "sleep"} =>
          \/ grants > call[c].first
          \/ lease.state # "in_progress"
          \/ lease.expire_at <= call[c].deadline

\* An owner on its way to the end of its loader has the lease until then.
OwnerOK(c) ==
    call[c].pc \in {"recheck", "load"} =>
        /\ lease.state = "in_progress" /\ lease.token = call[c].token
        /\ call[c].until + (IF call[c].pc = "recheck" THEN LoadTimeout + Lag ELSE 0)
              < lease.expire_at

OwnersOK == \A c \in Callers : OwnerOK(c)
=============================================================================
