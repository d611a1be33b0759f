----------------------------- MODULE RateLimiter -----------------------------
(***************************************************************************)
(* The limit on one caller's requests: AuthRateLimitGuard for signing in,  *)
(* ApiKeyRateLimitGuard for partners. Redis counts for all processes, in a *)
(* key that the first request of a window creates and gives its time to    *)
(* live in a second call; without Redis each process counts for itself.    *)
(***************************************************************************)
EXTENDS Integers, FiniteSets

CONSTANTS
    Req,        \* slots: requests that may be in flight at once
    Proc,       \* server processes
    Limit,      \* app.rateLimit.limit
    MemLimit,   \* IN_MEMORY_AUTH_LIMIT, IN_MEMORY_API_KEY_LIMIT
    MaxCalls,   \* bound on the calls counted in one window
    MaxFaults   \* bound on lost connections and processes that die

LimiterAssumption == {Limit, MemLimit, MaxCalls} \subseteq Nat \ {0} /\ MaxFaults \in Nat /\ Limit < MaxCalls

VARIABLES
    available,   \* RedisService.isAvailable, of each process
    counter,     \* the key in Redis: its count, 0 when there is none, and whether it expires
    bucket,      \* memoryBuckets: the count of each process, 0 when its window is over
    passed,      \* requests let through in Redis' window, and in each process's
    early,       \* a request was refused before its window was used up
    faults,
    job          \* requests in flight

vars == <<available, counter, bucket, passed, early, faults, job>>

NoKey == [count |-> 0, expires |-> FALSE]
Idle == [at |-> "idle", p |-> "none"]

Init ==
    /\ available = [p \in Proc |-> TRUE]
    /\ counter = NoKey
    /\ bucket = [p \in Proc |-> 0]
    /\ passed = [redis |-> 0, memory |-> [p \in Proc |-> 0]]
    /\ early = FALSE
    /\ faults = 0
    /\ job = [r \in Req |-> Idle]

Fault == faults < MaxFaults /\ faults' = faults + 1

-----------------------------------------------------------------------------
OverLimit(count) == count > Limit
OverMemLimit(p) == bucket[p] >= MemLimit

(* enforceInMemoryLimit, without an await: a new bucket, a full one, or    *)
(* one more.                                                               *)
enforceInMemoryLimit(p) ==
    \/ /\ ~OverMemLimit(p)
       /\ bucket' = [bucket EXCEPT ![p] = @ + 1]
       /\ passed' = [passed EXCEPT !.memory[p] = @ + 1]
       /\ UNCHANGED early
    \/ /\ OverMemLimit(p)
       /\ early' = (early \/ passed.memory[p] < MemLimit)
       /\ UNCHANGED <<bucket, passed>>

(* canActivate chooses by what the connection looks like, and INCR is sent *)
(* in the same turn.                                                       *)
canActivate(r, p) ==
    /\ job[r].at = "idle"
    /\ \/ /\ available[p]
          /\ job' = [job EXCEPT ![r] = [at |-> "incr", p |-> p]]
          /\ UNCHANGED <<bucket, passed, early>>
       \/ ~available[p] /\ enforceInMemoryLimit(p) /\ UNCHANGED job
    /\ UNCHANGED <<available, counter, faults>>

(* RedisService.incr. The first count of a key goes on to expire.          *)
incr(r) ==
    LET count == counter.count + 1
    IN
    /\ job[r].at = "incr"
    /\ count <= MaxCalls
    /\ counter' = [counter EXCEPT !.count = count]
    /\ \/ count = 1 /\ job' = [job EXCEPT ![r].at = "expire"] /\ UNCHANGED <<passed, early>>
       \/ count # 1 /\ ~OverLimit(count)
            /\ job' = [job EXCEPT ![r] = Idle] /\ passed' = [passed EXCEPT !.redis = @ + 1] /\ UNCHANGED early
       \/ count # 1 /\ OverLimit(count)
            /\ job' = [job EXCEPT ![r] = Idle] /\ early' = (early \/ counter.count < Limit) /\ UNCHANGED passed
    /\ UNCHANGED <<available, bucket, faults>>

(* The second call of RedisService.incr.                                   *)
expire(r) ==
    /\ job[r].at = "expire"
    /\ counter' = [counter EXCEPT !.expires = TRUE]
    /\ passed' = [passed EXCEPT !.redis = @ + 1]
    /\ job' = [job EXCEPT ![r] = Idle]
    /\ UNCHANGED <<available, bucket, early, faults>>

-----------------------------------------------------------------------------
(* The window of the key, and of a bucket, ends.                           *)
WindowEnds ==
    /\ counter.expires
    /\ counter' = NoKey
    /\ passed' = [passed EXCEPT !.redis = 0]
    /\ UNCHANGED <<available, bucket, early, faults, job>>

BucketEnds(p) ==
    /\ bucket[p] > 0
    /\ bucket' = [bucket EXCEPT ![p] = 0]
    /\ passed' = [passed EXCEPT !.memory[p] = 0]
    /\ UNCHANGED <<available, counter, early, faults, job>>

(* A process loses Redis, and its calls under way throw, or it dies and    *)
(* starts again without its buckets.                                       *)
Disconnect(p) ==
    /\ available[p] /\ Fault
    /\ available' = [available EXCEPT ![p] = FALSE]
    /\ job' = [r \in Req |-> IF job[r].p = p THEN Idle ELSE job[r]]
    /\ UNCHANGED <<counter, bucket, passed, early>>

Reconnect(p) ==
    /\ ~available[p]
    /\ available' = [available EXCEPT ![p] = TRUE]
    /\ UNCHANGED <<counter, bucket, passed, early, faults, job>>

Crash(p) ==
    /\ Fault
    /\ job' = [r \in Req |-> IF job[r].p = p THEN Idle ELSE job[r]]
    /\ bucket' = [bucket EXCEPT ![p] = 0]
    /\ passed' = [passed EXCEPT !.memory[p] = 0]
    /\ UNCHANGED <<available, counter, early>>

Next ==
    \/ \E r \in Req : (\E p \in Proc : canActivate(r, p)) \/ incr(r) \/ expire(r)
    \/ WindowEnds
    \/ \E p \in Proc : BucketEnds(p) \/ Disconnect(p) \/ Reconnect(p) \/ Crash(p)

Spec == Init /\ [][Next]_vars

(* The caller is refused.                                                  *)
UsedUp == counter.count >= Limit

-----------------------------------------------------------------------------
(* Properties                                                              *)

(* Every variable has its type.                                            *)
TypeOK ==
    /\ available \in [Proc -> BOOLEAN]
    /\ counter \in [count : 0..MaxCalls, expires : BOOLEAN]
    /\ bucket \in [Proc -> 0..MemLimit]
    /\ early \in BOOLEAN
    /\ faults \in 0..MaxFaults
    /\ job \in [Req -> [at : {"idle", "incr", "expire"}, p : Proc \cup {"none"}]]

(* However requests of several processes overlap and whatever fails, one   *)
(* window lets through no more than the limit, and nobody is refused while *)
(* less than the limit was counted.                                        *)
WindowIsBounded ==
    /\ passed.redis <= Limit
    /\ \A p \in Proc : passed.memory[p] <= MemLimit
    /\ ~early
=============================================================================
