------------------------------ MODULE Failover ------------------------------
(***************************************************************************)
(* The Manager together with what its two limiters have counted for one    *)
(* client within one window: the Manager module decides which backend      *)
(* answers, this module adds the answers (AllowPolicy, manager.go), the    *)
(* other instances that share the Redis budget, and handleClientsReset     *)
(* (api.go), which clears the backends one after the other.                *)
(*                                                                         *)
(* A script that ran in Redis has taken its slot even when the caller, who *)
(* timed out or was cancelled, never learns of it and asks the fallback.   *)
(* Within one window nothing but a reset retires the client's entry of the *)
(* memory limiter; a call that loses it too often is admitted on a         *)
(* detached one (MemoryLimiter's AdmitDetached).                           *)
(***************************************************************************)
EXTENDS Manager

CONSTANTS
    Limit,       \* the policy's limit
    MaxAttempts, \* the last attempt of the memory limiter's Allow, from 0
    MaxRequests, MaxResets  \* bounds

ASSUME FailoverAssumption ==
    /\ Limit \in Nat \ {0} /\ MaxAttempts \in Nat \ {0}
    /\ MaxRequests \in Nat /\ MaxResets \in Nat

VARIABLES
    shared,      \* requests in the window, in Redis
    own,         \* requests in the window, in the memory limiter
    answer,      \* what the script said to the call in flight: none, allow, deny
    redisServed, fallbackServed,
    admitted,    \* history: requests of this instance that were allowed
    others,      \* history: requests that other instances admitted through Redis
    resetting,   \* handleClientsReset is between the two backends
    resets,      \* history: how often each backend was cleared
    met,         \* history: resets of the memory limiter during a call's fallback
    detached     \* history: requests admitted on a detached entry

counts == <<shared, own>>
served == <<redisServed, fallbackServed>>
retries == <<met, detached>>
budget == <<counts, answer, served, admitted, others, resetting, resets, retries>>
fvars  == <<vars, budget>>

FInit ==
    /\ Init
    /\ shared = 0 /\ own = 0
    /\ answer = [w \in Workers |-> "none"]
    /\ redisServed = 0 /\ fallbackServed = 0
    /\ admitted = 0 /\ others = 0
    /\ resetting = FALSE
    /\ resets = [memory |-> 0, redis |-> 0]
    /\ met = [w \in Workers |-> 0] /\ detached = 0

One(b) == IF b THEN 1 ELSE 0

-----------------------------------------------------------------------------
\* Requests that have begun and not ended, or ended.
Begun == Cardinality({w \in Workers : pc[w] # "idle"}) + redisServed + fallbackServed

StartRequest(w) ==
    /\ Begun < MaxRequests
    /\ TryClosed(w) \/ TryHalfOpen(w) \/ SkipPrimary(w)
    /\ UNCHANGED budget

\* The script runs, once per call, at any time Redis is reachable.
Script(w) ==
    /\ pc[w] = "call" /\ answer[w] = "none"
    /\ up
    /\ answer' = [answer EXCEPT ![w] = IF shared < Limit THEN "allow" ELSE "deny"]
    /\ shared' = shared + One(shared < Limit)
    /\ UNCHANGED <<vars, own, served, admitted, others, resetting, resets, retries>>

Answered(w) == answer[w] # "none" /\ CallOk(w) /\ UNCHANGED budget

\* Whatever the script said is lost.
Abandoned(w) ==
    /\ CallFails(w) \/ CallCancelled(w)
    /\ answer' = [answer EXCEPT ![w] = "none"]
    /\ UNCHANGED <<counts, served, admitted, others, resetting, resets, retries>>

Recording(w) ==
    /\ \/ RecordSuccess(w) \/ StoreHealthy(w, "markUp", TRUE, "recover")
       \/ RecordFailure(w) \/ StoreHealthy(w, "markDown", FALSE, "degrade")
       \/ SwapDegraded(w, "degrade", TRUE, "local")
    /\ UNCHANGED budget

\* The end of recordSuccess; Redis's decision is returned.
ServeRedis(w) ==
    /\ SwapDegraded(w, "recover", FALSE, "idle")
    /\ redisServed' = redisServed + 1
    /\ admitted' = admitted + One(answer[w] = "allow")
    /\ answer' = [answer EXCEPT ![w] = "none"]
    /\ UNCHANGED <<counts, fallbackServed, others, resetting, resets, retries>>

LocalAnswer(w, allow, count) ==
    /\ Fallback(w)
    /\ own' = own + One(count)
    /\ fallbackServed' = fallbackServed + 1
    /\ admitted' = admitted + One(allow)
    /\ met' = [met EXCEPT ![w] = 0]
    /\ UNCHANGED <<shared, answer, redisServed, others, resetting, resets>>

\* Fault: when Redis cannot answer, the request is let through uncounted.
FailOpen(w) == LocalAnswer(w, TRUE, FALSE) /\ UNCHANGED detached

ServeFallback(w) == LocalAnswer(w, own < Limit, own < Limit) /\ UNCHANGED detached

\* "At worst one request is not counted": every attempt but the first, which may
\* find an entry retired before, met one that was retired during the call.
ServeDetached(w) ==
    /\ met[w] >= MaxAttempts
    /\ LocalAnswer(w, TRUE, FALSE)
    /\ detached' = detached + 1

\* Another instance's request, admitted by Redis.
OtherInstance ==
    /\ up /\ RedisEnabled /\ shared < Limit
    /\ shared' = shared + 1 /\ others' = others + 1
    /\ UNCHANGED <<vars, own, answer, served, admitted, resetting, resets, retries>>

-----------------------------------------------------------------------------
(* handleClientsReset: the memory limiter, then Redis, which may fail. *)

ResetMemory ==
    /\ ~resetting /\ resets.memory < MaxResets
    /\ own' = 0
    /\ resets' = [resets EXCEPT !.memory = @ + 1]
    /\ resetting' = RedisEnabled
    /\ met' = [w \in Workers |-> met[w] + One(pc[w] = "local")]
    /\ UNCHANGED <<vars, shared, answer, served, admitted, others, detached>>

ResetRedis ==
    /\ resetting
    /\ resetting' = FALSE
    /\ \/ /\ up
          /\ shared' = 0
          /\ resets' = [resets EXCEPT !.redis = @ + 1]
       \/ ~up /\ UNCHANGED <<shared, resets>>
    /\ UNCHANGED <<vars, own, answer, served, admitted, others, retries>>

-----------------------------------------------------------------------------
Background ==
    /\ \/ Tick \/ RedisDown \/ RedisUp
       \/ ProbeTick \/ ProberStep \/ ProberExit
       \/ CloseStop \/ CloseLimiters
    /\ UNCHANGED budget

FNext ==
    \/ Background
    \/ \E w \in Workers :
        \/ StartRequest(w) \/ Script(w) \/ Answered(w) \/ Abandoned(w) \/ Recording(w)
        \/ ServeRedis(w) \/ ServeFallback(w) \/ ServeDetached(w)
    \/ OtherInstance
    \/ ResetMemory \/ ResetRedis

FSpec == FInit /\ [][FNext]_fvars

-----------------------------------------------------------------------------
(***************************************************************************)
(* "when every backend is unhappy the in-memory limiter still produces a   *)
(* decision" (Allow): whatever fails over and back, with calls abandoned   *)
(* after their script ran and backends reset one after the other, what is  *)
(* let through is bounded.  While no request had to fall back there is one *)
(* limit for all instances; the fallback adds at most one limit of its     *)
(* own, and every reset of a backend one of that backend.  Uncounted are   *)
(* only calls that were reset MaxAttempts times while they fell back.      *)
(***************************************************************************)
Metered ==
    /\ admitted + others <=
        Limit * (1 + resets.redis) + detached +
            (IF fallbackServed = 0 THEN 0 ELSE Limit * (1 + resets.memory))
    /\ detached > 0 => resets.memory >= MaxAttempts
=============================================================================
