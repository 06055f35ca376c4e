------------------------------ MODULE Manager ------------------------------
(***************************************************************************)
(* internal/limiter/manager.go: the circuit breaker in front of Redis.     *)
(*                                                                         *)
(* Request goroutines (Workers) run AllowPolicy, one Prober runs probeLoop *)
(* and one goroutine may run Close.  failures, openUntil and lastErr are   *)
(* guarded by the Manager's mutex; redisHealthy and degraded are atomics   *)
(* written after the mutex is released, so a step is one critical section, *)
(* one atomic store, or the end of one Redis call.  A call is counted from *)
(* tryPrimary on, so Timeout includes the time until its context is made.  *)
(*                                                                         *)
(* Redis is the environment: it is reachable and answers in time (up), or  *)
(* it is not, and a call touched by an outage may fail.  Time is relative: *)
(* what is left of the cooldown, and the age of every call in flight.      *)
(***************************************************************************)
EXTENDS Integers, FiniteSets

CONSTANTS
    Workers, Prober, Closer,
    RedisEnabled,      \* primary # nil
    FailureThreshold,  \* consecutive failures that trip the circuit
    Cooldown,          \* ticks the circuit stays open before a probe
    Timeout,           \* ticks from tryPrimary until a Redis call is abandoned:
                       \* the call's timeout and what delays its goroutine
    FailureCap         \* failures is counted exactly up to here

ASSUME ManagerAssumption ==
    /\ RedisEnabled \in BOOLEAN
    /\ FailureThreshold \in Nat \ {0}
    /\ Cooldown \in Nat \ {0} /\ Timeout \in Nat \ {0}
    /\ FailureCap \in Nat /\ FailureCap >= FailureThreshold
    /\ Prober \notin Workers /\ Closer \notin Workers \cup {Prober}

Callers == Workers \cup {Prober}

VARIABLES
    failures,      \* consecutive failures
    open,          \* ~openUntil.IsZero()
    remaining,     \* openUntil - now while open; -1 once the cooldown is over
    lastErr,       \* lastErr # ""
    redisHealthy,
    degraded,
    up,            \* Redis answers in time
    pc,
    age,           \* ticks since the call in flight began
    hurt,          \* the call in flight met an outage
    probing,       \* the call in flight was let through by an open circuit
    stopped        \* the stop channel is closed

breaker == <<failures, open, remaining, lastErr>>
flags   == <<redisHealthy, degraded>>
call    == <<age, hurt, probing>>
vars    == <<breaker, flags, up, pc, call, stopped>>

Init ==
    /\ failures = 0
    /\ open = FALSE
    /\ remaining = -1
    /\ lastErr = FALSE
    /\ redisHealthy = RedisEnabled
    /\ degraded = FALSE
    /\ up \in BOOLEAN
    /\ pc = [p \in Callers \cup {Closer} |->
               IF p = Prober /\ ~RedisEnabled THEN "exited" ELSE "idle"]
    /\ age = [p \in Callers |-> 0]
    /\ hurt = [p \in Callers |-> FALSE]
    /\ probing = [p \in Callers |-> FALSE]
    /\ stopped = FALSE

Goto(p, label) == pc' = [pc EXCEPT ![p] = label]

InFlight(p) == pc[p] \in {"call", "ping"}

-----------------------------------------------------------------------------
(***************************************************************************)
(* The environment.  A call in flight while Redis is down is hurt, and a   *)
(* call never outlives its timeout.                                        *)
(***************************************************************************)
\* Fault: the call's context has no deadline.
TickNoDeadline ==
    /\ \E p \in Callers : InFlight(p)
    /\ age' = [p \in Callers |-> IF InFlight(p) THEN age[p] + 1 ELSE age[p]]
    /\ UNCHANGED <<breaker, flags, up, pc, hurt, probing, stopped>>

Tick ==
    /\ \A p \in Callers : InFlight(p) => age[p] < Timeout
    /\ \/ open /\ remaining >= 0
       \/ \E p \in Callers : InFlight(p)
    /\ remaining' = IF open /\ remaining >= 0 THEN remaining - 1 ELSE remaining
    /\ age' = [p \in Callers |-> IF InFlight(p) THEN age[p] + 1 ELSE age[p]]
    /\ UNCHANGED <<failures, open, lastErr, flags, up, pc, hurt, probing, stopped>>

RedisDown ==
    /\ up
    /\ up' = FALSE
    /\ hurt' = [p \in Callers |-> hurt[p] \/ InFlight(p)]
    /\ UNCHANGED <<breaker, flags, pc, age, probing, stopped>>

RedisUp ==
    /\ ~up
    /\ up' = TRUE
    /\ UNCHANGED <<breaker, flags, pc, call, stopped>>

StartCall(p, label, probe) ==
    /\ Goto(p, label)
    /\ age' = [age EXCEPT ![p] = 0]
    /\ hurt' = [hurt EXCEPT ![p] = ~up]
    /\ probing' = [probing EXCEPT ![p] = probe]

\* What a finished call leaves behind.
EndCall(p, label) ==
    /\ Goto(p, label)
    /\ age' = [age EXCEPT ![p] = 0]
    /\ hurt' = [hurt EXCEPT ![p] = FALSE]
    /\ probing' = [probing EXCEPT ![p] = FALSE]

Succeeds == up

\* Fault: a call that Redis never answers ends only when Redis is back.
FailsLate(p) == hurt[p] /\ up

Fails(p) == hurt[p]

-----------------------------------------------------------------------------
(***************************************************************************)
(* tryPrimary, the first step of AllowPolicy: the circuit is closed, or    *)
(* its cooldown is over and this request re-arms it and probes, or the     *)
(* request goes to the fallback.                                           *)
(***************************************************************************)
TryClosed(w) ==
    /\ pc[w] = "idle"
    /\ RedisEnabled /\ ~open
    /\ StartCall(w, "call", FALSE)
    /\ UNCHANGED <<breaker, flags, up, stopped>>

ProbePrimary(w) ==
    /\ pc[w] = "idle"
    /\ RedisEnabled /\ open /\ remaining < 0
    /\ StartCall(w, "call", TRUE)
    /\ UNCHANGED <<failures, open, lastErr, flags, up, stopped>>

\* Fault: the probe does not re-arm the cooldown.
TryHalfOpenUnarmed(w) == ProbePrimary(w) /\ UNCHANGED remaining

TryHalfOpen(w) == ProbePrimary(w) /\ remaining' = Cooldown

SkipPrimary(w) ==
    /\ pc[w] = "idle"
    /\ ~RedisEnabled \/ (open /\ remaining >= 0)
    /\ Goto(w, "local")
    /\ UNCHANGED <<breaker, flags, up, call, stopped>>

CallOk(w) ==
    /\ pc[w] = "call"
    /\ Succeeds
    /\ EndCall(w, "ok")
    /\ UNCHANGED <<breaker, flags, up, stopped>>

CallFails(w) ==
    /\ pc[w] = "call"
    /\ Fails(w)
    /\ EndCall(w, "err")
    /\ UNCHANGED <<breaker, flags, up, stopped>>

\* The caller's own context died: no verdict on Redis.
CallCancelled(w) ==
    /\ pc[w] = "call"
    /\ EndCall(w, "local")
    /\ UNCHANGED <<breaker, flags, up, stopped>>

\* The critical sections of recordSuccess and recordFailure.
RecordSuccess(w) ==
    /\ pc[w] = "ok"
    /\ failures' = 0
    /\ open' = FALSE
    /\ remaining' = -1
    /\ lastErr' = IF failures > 0 \/ open THEN FALSE ELSE lastErr
    /\ Goto(w, "markUp")
    /\ UNCHANGED <<flags, up, call, stopped>>

MinOf(a, b) == IF a <= b THEN a ELSE b

RecordFailure(w) ==
    /\ pc[w] = "err"
    /\ failures' = MinOf(failures + 1, FailureCap)
    /\ lastErr' = TRUE
    /\ IF failures' >= FailureThreshold /\ ~open
       THEN open' = TRUE /\ remaining' = Cooldown
       ELSE UNCHANGED <<open, remaining>>
    /\ Goto(w, "markDown")
    /\ UNCHANGED <<flags, up, call, stopped>>

\* The atomics, after the mutex is released.
StoreHealthy(p, from, value, to) ==
    /\ pc[p] = from
    /\ redisHealthy' = value
    /\ Goto(p, to)
    /\ UNCHANGED <<breaker, degraded, up, call, stopped>>

SwapDegraded(p, from, value, to) ==
    /\ pc[p] = from
    /\ degraded' = value
    /\ Goto(p, to)
    /\ UNCHANGED <<breaker, redisHealthy, up, call, stopped>>

\* The in-memory limiter always decides.
Fallback(w) ==
    /\ pc[w] = "local"
    /\ Goto(w, "idle")
    /\ UNCHANGED <<breaker, flags, up, call, stopped>>

-----------------------------------------------------------------------------
(* probeLoop *)

ProbeTick ==
    /\ pc[Prober] = "idle"
    /\ StartCall(Prober, "ping", FALSE)
    /\ UNCHANGED <<breaker, flags, up, stopped>>

PingOk ==
    /\ pc[Prober] = "ping"
    /\ Succeeds
    /\ EndCall(Prober, "reachable")
    /\ UNCHANGED <<breaker, flags, up, stopped>>

PingFails ==
    /\ pc[Prober] = "ping"
    /\ Fails(Prober)
    /\ EndCall(Prober, "unreachable")
    /\ UNCHANGED <<breaker, flags, up, stopped>>

NoteError ==
    /\ pc[Prober] = "note"
    /\ lastErr' = TRUE
    /\ Goto(Prober, "idle")
    /\ UNCHANGED <<failures, open, remaining, flags, up, call, stopped>>

ClearCircuit(count, label) ==
    /\ pc[Prober] = "clear"
    /\ failures' = count
    /\ open' = FALSE
    /\ remaining' = -1
    /\ lastErr' = IF open THEN FALSE ELSE lastErr
    /\ Goto(Prober, label)
    /\ UNCHANGED <<flags, up, call, stopped>>

\* Fault: the probe closes the circuit but keeps the failure count.
CloseCircuitKeepsCount == ClearCircuit(failures, "recover")

\* Fault: the probe leaves clearing the degraded flag to the next request.
CloseCircuitSilently == ClearCircuit(0, "idle")

CloseCircuit == ClearCircuit(0, "recover")

ProberExit ==
    /\ pc[Prober] = "idle"
    /\ stopped
    /\ Goto(Prober, "exited")
    /\ UNCHANGED <<breaker, flags, up, call, stopped>>

-----------------------------------------------------------------------------
(***************************************************************************)
(* Close: stop the prober, wait for it, then close both limiters.  That of *)
(* the Redis limiter leaves the client open, which no constructor owns.    *)
(***************************************************************************)

StopAndWait(signal) ==
    /\ pc[Closer] = "idle"
    /\ stopped' = signal
    /\ Goto(Closer, "wait")
    /\ UNCHANGED <<breaker, flags, up, call>>

\* Fault: Close waits for the prober without telling it to stop.
CloseNoSignal == StopAndWait(stopped)

CloseStop == StopAndWait(TRUE)

CloseLimiters ==
    /\ pc[Closer] = "wait"
    /\ pc[Prober] = "exited"
    /\ Goto(Closer, "done")
    /\ UNCHANGED <<breaker, flags, up, call, stopped>>

-----------------------------------------------------------------------------
WorkerStep(w) ==
    \/ CallOk(w) \/ CallFails(w)
    \/ RecordSuccess(w)
    \/ StoreHealthy(w, "markUp", TRUE, "recover")
    \/ SwapDegraded(w, "recover", FALSE, "idle")
    \/ RecordFailure(w)
    \/ StoreHealthy(w, "markDown", FALSE, "degrade")
    \/ SwapDegraded(w, "degrade", TRUE, "local")
    \/ Fallback(w)

ProberStep ==
    \/ PingOk \/ PingFails
    \/ StoreHealthy(Prober, "reachable", TRUE, "clear")
    \/ CloseCircuit
    \/ SwapDegraded(Prober, "recover", FALSE, "idle")
    \/ StoreHealthy(Prober, "unreachable", FALSE, "note")
    \/ NoteError

Next ==
    \/ Tick \/ RedisDown \/ RedisUp
    \/ \E w \in Workers :
        TryClosed(w) \/ TryHalfOpen(w) \/ SkipPrimary(w) \/ CallCancelled(w) \/ WorkerStep(w)
    \/ ProbeTick \/ ProberStep \/ ProberExit
    \/ CloseStop \/ CloseLimiters

Spec == Init /\ [][Next]_vars

(***************************************************************************)
(* Goroutines inside a call keep running, a call ends by its timeout, the  *)
(* ticker keeps firing and select cannot miss the closed channel forever.  *)
(***************************************************************************)
Fairness ==
    /\ \A w \in Workers : WF_vars(WorkerStep(w))
    /\ WF_vars(ProberStep) /\ WF_vars(ProbeTick) /\ SF_vars(ProberExit)
    /\ WF_vars(CloseLimiters)

FairSpec == Spec /\ Fairness

-----------------------------------------------------------------------------
BreakerTypes ==
    /\ failures \in 0 .. FailureCap
    /\ open \in BOOLEAN
    /\ remaining \in -1 .. Cooldown
    /\ lastErr \in BOOLEAN

FlagTypes ==
    /\ redisHealthy \in BOOLEAN /\ degraded \in BOOLEAN
    /\ up \in BOOLEAN /\ stopped \in BOOLEAN

CallTypes ==
    /\ age \in [Callers -> 0 .. Timeout]
    /\ hurt \in [Callers -> BOOLEAN]
    /\ probing \in [Callers -> BOOLEAN]

Labels ==
    {"idle", "call", "ok", "err", "markUp", "recover", "markDown", "degrade", "local",
     "ping", "reachable", "unreachable", "clear", "note", "exited", "wait", "done"}

(***************************************************************************)
(* The types; in particular no Redis call is older than its timeout and    *)
(* the cooldown is never longer than configured (AllowPolicy, tryPrimary). *)
(***************************************************************************)
TypeOK ==
    /\ BreakerTypes
    /\ FlagTypes
    /\ CallTypes
    /\ pc \in [Callers \cup {Closer} -> Labels]

(***************************************************************************)
(* The mutex-guarded fields agree, whichever of recordFailure,             *)
(* recordSuccess and probeLoop ran last and in whatever order: the circuit *)
(* is open exactly when the failures in a row reach the threshold, and     *)
(* while there are failures Stats has an error to show for them.           *)
(***************************************************************************)
BreakerConsistent ==
    /\ open <=> failures >= FailureThreshold
    /\ failures > 0 => lastErr

(***************************************************************************)
(* "When the cooldown has elapsed exactly one request is let through as a  *)
(* probe" (tryPrimary): never are two requests probing an open circuit at  *)
(* the same time, even when it is closed by the background probe and trips *)
(* again under the first one.  True only if a call, from tryPrimary's look *)
(* at the clock to its end, cannot outlive the cooldown, Timeout <=        *)
(* Cooldown, which nothing in the code enforces.                           *)
(***************************************************************************)
Probes(w) == pc[w] = "call" /\ probing[w]

OneProbe == \A v, w \in Workers : Probes(v) /\ Probes(w) => v = w

(***************************************************************************)
(* "Degraded reports whether decisions are currently coming from the local *)
(* fallback instead of Redis" (Manager.Degraded): once nobody is in the    *)
(* middle of a call, an open circuit, which sends every request to the     *)
(* fallback, is reported.                                                  *)
(***************************************************************************)
Quiet == \A p \in Callers : pc[p] \in {"idle", "exited"}

DegradedWhileOpen == Quiet /\ open /\ remaining >= 0 => degraded

(***************************************************************************)
(* AllowPolicy "never fails": every request gets its decision, from Redis  *)
(* or from the fallback, whatever Redis does and even while closing.       *)
(***************************************************************************)
Decided == \A w \in Workers : pc[w] # "idle" ~> pc[w] = "idle"

(***************************************************************************)
(* probeLoop "closes the circuit as soon as the backend answers again, so  *)
(* recovery does not have to wait for traffic": if Redis stays reachable,  *)
(* the circuit, the degraded flag and the health flag all settle, whatever *)
(* stragglers still report and even if no request ever comes.              *)
(***************************************************************************)
Recovery ==
    <>[](up /\ ~stopped) => <>[](~open /\ ~degraded /\ redisHealthy)

(***************************************************************************)
(* Close waits for the prober, which may be in the middle of a ping, and   *)
(* returns.                                                                *)
(***************************************************************************)
CloseReturns == pc[Closer] = "wait" ~> pc[Closer] = "done"
=============================================================================
