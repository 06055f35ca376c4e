--------------------------- MODULE ManagerProofs ---------------------------
(***************************************************************************)
(* The circuit breaker, for any number of request goroutines and every     *)
(* threshold, cooldown and timeout, and what it lets through together with *)
(* the two backends behind it.                                             *)
(***************************************************************************)
EXTENDS Failover, FiniteSetTheorems, TLAPS

(***************************************************************************)
(* While a probe is in flight it is as old as the time since the cooldown  *)
(* was last armed, or older: the cooldown cannot run out under a probe     *)
(* whose timeout is not longer.                                            *)
(***************************************************************************)
ProbeAge == \A w \in Workers : Probes(w) /\ open => remaining + age[w] >= Cooldown

OnlyCallersProbe == \A w \in Workers : pc[w] # "call" => ~probing[w]

USE DEF Callers

LEMMA InitTypes == Init => TypeOK /\ BreakerConsistent
<1> SUFFICES ASSUME Init PROVE TypeOK /\ BreakerConsistent
  OBVIOUS
<1>1. BreakerTypes
  <2>1. failures \in 0 .. FailureCap
    BY ManagerAssumption DEF Init
  <2>2. remaining \in -1 .. Cooldown
    BY ManagerAssumption DEF Init
  <2> QED
    BY <2>1, <2>2, Zenon DEF Init, BreakerTypes
<1>2. FlagTypes
  BY ManagerAssumption, Zenon DEF Init, FlagTypes
<1>3. CallTypes
  BY ManagerAssumption DEF Init, CallTypes
<1>4. pc \in [Callers \cup {Closer} -> Labels]
  BY DEF Init, Labels
<1>5. BreakerConsistent
  BY ManagerAssumption DEF Init, BreakerConsistent
<1> QED
  BY <1>1, <1>2, <1>3, <1>4, <1>5 DEF TypeOK

LEMMA GotoTypes ==
    ASSUME TypeOK, NEW p \in Callers \cup {Closer}, NEW label \in Labels, Goto(p, label)
    PROVE  pc' \in [Callers \cup {Closer} -> Labels]
  BY DEF TypeOK, Goto

LEMMA StartCallTypes ==
    ASSUME TypeOK, NEW p \in Callers, NEW label \in Labels, NEW probe \in BOOLEAN,
           StartCall(p, label, probe)
    PROVE  CallTypes' /\ pc' \in [Callers \cup {Closer} -> Labels]
<1>1. age' \in [Callers -> 0 .. Timeout]
  BY ManagerAssumption DEF TypeOK, CallTypes, StartCall
<1>2. hurt' \in [Callers -> BOOLEAN] /\ probing' \in [Callers -> BOOLEAN]
  BY Zenon DEF TypeOK, CallTypes, StartCall
<1> QED
  BY <1>1, <1>2, GotoTypes DEF CallTypes, StartCall

LEMMA EndCallTypes ==
    ASSUME TypeOK, NEW p \in Callers, NEW label \in Labels, EndCall(p, label)
    PROVE  CallTypes' /\ pc' \in [Callers \cup {Closer} -> Labels]
<1>1. age' \in [Callers -> 0 .. Timeout]
  BY ManagerAssumption DEF TypeOK, CallTypes, EndCall
<1>2. hurt' \in [Callers -> BOOLEAN] /\ probing' \in [Callers -> BOOLEAN]
  BY Zenon DEF TypeOK, CallTypes, EndCall
<1> QED
  BY <1>1, <1>2, GotoTypes DEF CallTypes, EndCall

(***************************************************************************)
(* Each action keeps the types.                                            *)
(***************************************************************************)
LEMMA NextTypes == TypeOK /\ [Next]_vars => TypeOK'
<1> SUFFICES ASSUME TypeOK, [Next]_vars PROVE TypeOK'
  OBVIOUS
<1> DEFINE PcTypes == pc \in [Callers \cup {Closer} -> Labels]
<1>0. "idle" \in Labels /\ "call" \in Labels /\ "local" \in Labels /\ "ok" \in Labels
      /\ "err" \in Labels /\ "markUp" \in Labels /\ "markDown" \in Labels
      /\ "recover" \in Labels /\ "degrade" \in Labels /\ "ping" \in Labels
      /\ "reachable" \in Labels /\ "unreachable" \in Labels /\ "clear" \in Labels
      /\ "note" \in Labels /\ "exited" \in Labels /\ "wait" \in Labels /\ "done" \in Labels
  BY DEF Labels
<1>1. CASE Tick
  <2>1. BreakerTypes'
    <3>1. remaining' \in -1 .. Cooldown
      BY <1>1, ManagerAssumption DEF Tick, TypeOK, BreakerTypes
    <3> QED
      BY <1>1, <3>1 DEF Tick, TypeOK, BreakerTypes
  <2>2. age' \in [Callers -> 0 .. Timeout]
    BY <1>1, ManagerAssumption DEF Tick, TypeOK, CallTypes
  <2> QED
    BY <1>1, <2>1, <2>2 DEF Tick, TypeOK, FlagTypes, CallTypes, flags
<1>2. CASE RedisDown \/ RedisUp
  <2>1. hurt' \in [Callers -> BOOLEAN]
    BY <1>2, Zenon DEF RedisDown, RedisUp, TypeOK, CallTypes, InFlight, call
  <2> QED
    BY <1>2, <2>1 DEF RedisDown, RedisUp, TypeOK, BreakerTypes, FlagTypes, CallTypes, flags,
                      breaker, call
<1>3. ASSUME NEW w \in Workers, TryClosed(w) \/ TryHalfOpen(w) \/ SkipPrimary(w)
      PROVE  TypeOK'
  <2>1. FlagTypes'
    BY <1>3 DEF TryClosed, TryHalfOpen, ProbePrimary, SkipPrimary, TypeOK, FlagTypes, flags
  <2>2. BreakerTypes'
    <3>0. remaining' = remaining \/ remaining' = Cooldown
      BY <1>3, Zenon DEF TryClosed, TryHalfOpen, ProbePrimary, SkipPrimary, breaker
    <3>1. remaining' \in -1 .. Cooldown
      BY <3>0, ManagerAssumption DEF TypeOK, BreakerTypes
    <3> QED
      BY <1>3, <3>1, Zenon
      DEF TryClosed, TryHalfOpen, ProbePrimary, SkipPrimary, TypeOK, BreakerTypes, breaker
  <2>3. CallTypes' /\ PcTypes'
    <3>1. CASE TryClosed(w) \/ TryHalfOpen(w)
      BY <1>0, <3>1, StartCallTypes DEF TryClosed, TryHalfOpen, ProbePrimary
    <3>2. CASE SkipPrimary(w)
      BY <1>0, <3>2, GotoTypes DEF SkipPrimary, TypeOK, CallTypes, call
    <3> QED
      BY <1>3, <3>1, <3>2
  <2> QED
    BY <2>1, <2>2, <2>3 DEF TypeOK
<1>4. ASSUME NEW w \in Workers, CallOk(w) \/ CallFails(w) \/ CallCancelled(w) \/ Fallback(w)
      PROVE  TypeOK'
  <2>1. FlagTypes' /\ BreakerTypes'
    BY <1>4 DEF CallOk, CallFails, CallCancelled, Fallback, TypeOK, FlagTypes, BreakerTypes,
                flags, breaker
  <2>2. CallTypes' /\ PcTypes'
    <3>1. CASE CallOk(w) \/ CallFails(w) \/ CallCancelled(w)
      BY <1>0, <3>1, EndCallTypes DEF CallOk, CallFails, CallCancelled
    <3>2. CASE Fallback(w)
      BY <1>0, <3>2, GotoTypes DEF Fallback, TypeOK, CallTypes, call
    <3> QED
      BY <1>4, <3>1, <3>2
  <2> QED
    BY <2>1, <2>2 DEF TypeOK
<1>5. ASSUME NEW w \in Workers, RecordSuccess(w) PROVE TypeOK'
  <2>1. lastErr' \in BOOLEAN
    BY <1>5, Zenon DEF RecordSuccess, TypeOK, BreakerTypes
  <2>2. BreakerTypes'
    <3>1. failures' \in 0 .. FailureCap
      BY <1>5, ManagerAssumption DEF RecordSuccess
    <3>2. remaining' \in -1 .. Cooldown
      BY <1>5, ManagerAssumption DEF RecordSuccess
    <3> QED
      BY <1>5, <2>1, <3>1, <3>2, Zenon DEF RecordSuccess, BreakerTypes
  <2>3. FlagTypes' /\ CallTypes'
    BY <1>5 DEF RecordSuccess, TypeOK, FlagTypes, CallTypes, flags, call
  <2> QED
    BY <1>0, <1>5, <2>2, <2>3, GotoTypes DEF RecordSuccess, TypeOK
<1>6. ASSUME NEW w \in Workers, RecordFailure(w) PROVE TypeOK'
  <2>1. failures' \in 0 .. FailureCap
    BY <1>6, ManagerAssumption DEF RecordFailure, MinOf, TypeOK, BreakerTypes
  <2>2. open' \in BOOLEAN
    BY <1>6, Zenon DEF RecordFailure, TypeOK, BreakerTypes
  <2>3. remaining' \in -1 .. Cooldown
    BY <1>6, ManagerAssumption DEF RecordFailure, TypeOK, BreakerTypes
  <2>4. FlagTypes' /\ CallTypes' /\ lastErr' \in BOOLEAN
    BY <1>6 DEF RecordFailure, TypeOK, FlagTypes, CallTypes, flags, call
  <2> QED
    BY <1>0, <1>6, <2>1, <2>2, <2>3, <2>4, GotoTypes DEF RecordFailure, BreakerTypes, TypeOK
<1>7. ASSUME NEW p \in Callers, NEW from, NEW value \in BOOLEAN, NEW to \in Labels,
             StoreHealthy(p, from, value, to) \/ SwapDegraded(p, from, value, to)
      PROVE  TypeOK'
  <2>1. FlagTypes'
    BY <1>7 DEF StoreHealthy, SwapDegraded, TypeOK, FlagTypes
  <2>2. BreakerTypes' /\ CallTypes'
    BY <1>7 DEF StoreHealthy, SwapDegraded, TypeOK, BreakerTypes, CallTypes, breaker, call
  <2> QED
    BY <1>7, <2>1, <2>2, GotoTypes DEF StoreHealthy, SwapDegraded, TypeOK
<1>8. CASE ProbeTick \/ PingOk \/ PingFails
  <2>1. FlagTypes' /\ BreakerTypes'
    BY <1>8 DEF ProbeTick, PingOk, PingFails, TypeOK, FlagTypes, BreakerTypes, flags, breaker
  <2>2. CallTypes' /\ PcTypes'
    BY <1>0, <1>8, StartCallTypes, EndCallTypes DEF ProbeTick, PingOk, PingFails
  <2> QED
    BY <2>1, <2>2 DEF TypeOK
<1>9. CASE NoteError \/ CloseCircuit \/ ProberExit
  <2>1. lastErr' \in BOOLEAN
    BY <1>9, Zenon
      DEF NoteError, CloseCircuit, ClearCircuit, ProberExit, TypeOK, BreakerTypes, breaker
  <2>2. BreakerTypes'
    <3>0. /\ failures' = failures \/ failures' = 0
          /\ remaining' = remaining \/ remaining' = -1
      BY <1>9, Zenon DEF NoteError, CloseCircuit, ClearCircuit, ProberExit, breaker
    <3>1. failures' \in 0 .. FailureCap
      BY <3>0, ManagerAssumption DEF TypeOK, BreakerTypes
    <3>2. remaining' \in -1 .. Cooldown
      BY <3>0, ManagerAssumption DEF TypeOK, BreakerTypes
    <3> QED
      BY <1>9, <2>1, <3>1, <3>2, Zenon
      DEF NoteError, CloseCircuit, ClearCircuit, ProberExit, TypeOK, BreakerTypes, breaker
  <2>3. FlagTypes' /\ CallTypes'
    BY <1>9
      DEF NoteError, CloseCircuit, ClearCircuit, ProberExit, TypeOK, FlagTypes, CallTypes,
          flags, call
  <2> QED
    BY <1>0, <1>9, <2>2, <2>3, GotoTypes
      DEF NoteError, CloseCircuit, ClearCircuit, ProberExit, TypeOK
<1>10. CASE CloseStop \/ CloseLimiters
  <2>1. FlagTypes'
    BY <1>10, ManagerAssumption
      DEF CloseStop, StopAndWait, CloseLimiters, TypeOK, FlagTypes, flags
  <2>2. BreakerTypes' /\ CallTypes'
    BY <1>10
      DEF CloseStop, StopAndWait, CloseLimiters, TypeOK, BreakerTypes, CallTypes, breaker, call
  <2> QED
    BY <1>0, <1>10, <2>1, <2>2, GotoTypes DEF CloseStop, StopAndWait, CloseLimiters, TypeOK
<1>11. CASE UNCHANGED vars
  BY <1>11 DEF vars, TypeOK, BreakerTypes, FlagTypes, CallTypes, flags, call, breaker
<1>12. ASSUME NEW w \in Workers, WorkerStep(w) PROVE TypeOK'
  BY <1>0, <1>4, <1>5, <1>6, <1>7, <1>12 DEF WorkerStep
<1>13. CASE ProberStep
  BY <1>0, <1>7, <1>8, <1>9, <1>13 DEF ProberStep
<1> QED
  BY <1>1, <1>2, <1>3, <1>4, <1>8, <1>9, <1>10, <1>11, <1>12, <1>13 DEF Next

(***************************************************************************)
(* Only the two record functions and the probe touch the breaker's count,  *)
(* and each leaves count, circuit and error in agreement.                  *)
(***************************************************************************)
LEMMA NextConsistent == TypeOK /\ BreakerConsistent /\ [Next]_vars => BreakerConsistent'
<1> SUFFICES ASSUME TypeOK, BreakerConsistent, [Next]_vars PROVE BreakerConsistent'
  OBVIOUS
<1> USE DEF BreakerConsistent
<1>1. failures \in Nat /\ FailureThreshold \in Nat \ {0} /\ FailureCap \in Nat
      /\ FailureCap >= FailureThreshold
  BY ManagerAssumption DEF TypeOK, BreakerTypes
<1>2. ASSUME UNCHANGED <<failures, open, lastErr>> PROVE BreakerConsistent'
  BY <1>2
<1>3. ASSUME NEW w \in Workers, RecordSuccess(w) PROVE BreakerConsistent'
  BY <1>1, <1>3 DEF RecordSuccess
<1>4. ASSUME NEW w \in Workers, RecordFailure(w) PROVE BreakerConsistent'
  <2>1. failures' = MinOf(failures + 1, FailureCap) /\ lastErr' = TRUE
    BY <1>4 DEF RecordFailure
  <2>2. CASE failures' >= FailureThreshold /\ ~open
    BY <1>4, <2>1, <2>2 DEF RecordFailure
  <2>3. CASE open
    <3>1. open' = open
      BY <1>4, <2>3 DEF RecordFailure
    <3>2. failures' >= FailureThreshold
      BY <1>1, <2>1, <2>3 DEF MinOf
    <3> QED
      BY <2>1, <2>3, <3>1, <3>2
  <2>4. CASE ~(failures' >= FailureThreshold) /\ ~open
    BY <1>4, <2>1, <2>4 DEF RecordFailure
  <2> QED
    BY <2>2, <2>3, <2>4
<1>5. CASE CloseCircuit
  BY <1>1, <1>5 DEF CloseCircuit, ClearCircuit
<1>6. CASE NoteError
  BY <1>6 DEF NoteError
<1>7. ASSUME NEW w \in Workers,
             \/ TryClosed(w) \/ TryHalfOpen(w) \/ SkipPrimary(w) \/ CallCancelled(w)
             \/ WorkerStep(w)
      PROVE  BreakerConsistent'
  BY <1>2, <1>3, <1>4, <1>7
  DEF TryClosed, TryHalfOpen, ProbePrimary, SkipPrimary, CallCancelled, WorkerStep, CallOk,
      CallFails,
      StoreHealthy, SwapDegraded, Fallback, breaker
<1>8. CASE ProbeTick \/ ProberStep \/ ProberExit \/ CloseStop \/ CloseLimiters
  BY <1>2, <1>5, <1>6, <1>8
  DEF ProbeTick, ProberStep, ProberExit, CloseStop, StopAndWait, CloseLimiters, PingOk,
      PingFails,
      StoreHealthy, SwapDegraded, breaker
<1>9. CASE Tick \/ RedisDown \/ RedisUp \/ UNCHANGED vars
  BY <1>2, <1>9 DEF Tick, RedisDown, RedisUp, vars, breaker
<1> QED
  BY <1>7, <1>8, <1>9 DEF Next

(***************************************************************************)
(* Types are kept; in particular no Redis call outlives its timeout and    *)
(* the cooldown is never longer than configured (AllowPolicy, tryPrimary). *)
(***************************************************************************)
THEOREM ManagerIsTyped == Spec => []TypeOK
<1>1. Init => TypeOK
  BY InitTypes
<1>2. TypeOK /\ [Next]_vars => TypeOK'
  BY NextTypes
<1> QED
  BY <1>1, <1>2, PTL DEF Spec

(***************************************************************************)
(* The circuit breaker's fields always agree (manager.go, recordFailure,   *)
(* recordSuccess, probeLoop).                                              *)
(***************************************************************************)
THEOREM BreakerIsConsistent == Spec => [](TypeOK /\ BreakerConsistent)
<1>1. Init => TypeOK /\ BreakerConsistent
  BY InitTypes
<1>2. TypeOK /\ BreakerConsistent /\ [Next]_vars => (TypeOK /\ BreakerConsistent)'
  BY NextTypes, NextConsistent
<1> QED
  BY <1>1, <1>2, PTL DEF Spec

-----------------------------------------------------------------------------
ProbeInv == ProbeAge /\ OnlyCallersProbe /\ OneProbe

(***************************************************************************)
(* What a step may do to the calls in flight: nothing, end one, begin an   *)
(* ordinary one, or let everyone grow a tick older.                        *)
(***************************************************************************)
LEMMA NextProbes ==
    ASSUME Timeout <= Cooldown, TypeOK, ProbeInv, [Next]_vars
    PROVE  ProbeInv'
<1> USE DEF ProbeInv, ProbeAge, OnlyCallersProbe, OneProbe, Probes
<1>1. /\ remaining \in Int /\ Cooldown \in Nat /\ Timeout \in Nat
      /\ \A w \in Workers : age[w] \in Int /\ age[w] <= Timeout
      /\ pc \in [Callers \cup {Closer} -> Labels]
      /\ probing \in [Callers -> BOOLEAN] /\ age \in [Callers -> 0 .. Timeout]
  BY ManagerAssumption DEF TypeOK, BreakerTypes, CallTypes
<1>2. CASE Tick
  <2>1. ASSUME NEW w \in Workers, Probes(w), open
        PROVE  remaining' + age'[w] >= Cooldown
    <3>1. age'[w] = age[w] + 1
      BY <1>1, <1>2, <2>1 DEF Tick, InFlight
    <3>2. remaining' = remaining - 1 \/ remaining' = remaining
      BY <1>2 DEF Tick
    <3> QED
      BY <1>1, <2>1, <3>1, <3>2
  <2> QED
    BY <1>2, <2>1 DEF Tick
<1>3. ASSUME NEW w \in Workers, TryHalfOpen(w) PROVE ProbeInv'
  <2>1. \A v \in Workers : ~Probes(v)
    BY <1>1, <1>3 DEF TryHalfOpen, ProbePrimary
  <2>2. /\ pc' = [pc EXCEPT ![w] = "call"] /\ probing' = [probing EXCEPT ![w] = TRUE]
        /\ age' = [age EXCEPT ![w] = 0] /\ remaining' = Cooldown /\ open' = open
    BY <1>3 DEF TryHalfOpen, ProbePrimary, StartCall, Goto
  <2>3. \A v \in Workers : Probes(v)' => v = w
    BY <1>1, <2>1, <2>2
  <2>4. age'[w] = 0
    BY <1>1, <2>2
  <2>5. \A v \in Workers : pc'[v] # "call" => ~probing'[v]
    BY <1>1, <2>2
  <2> QED
    BY <1>1, <2>2, <2>3, <2>4, <2>5
<1>4. ASSUME NEW w \in Workers, TryClosed(w) PROVE ProbeInv'
  BY <1>1, <1>4 DEF TryClosed, StartCall, Goto, breaker
<1>5. ASSUME NEW w \in Workers, CallOk(w) \/ CallFails(w) \/ CallCancelled(w)
      PROVE  ProbeInv'
  BY <1>1, <1>5 DEF CallOk, CallFails, CallCancelled, EndCall, Goto, breaker
<1>6. ASSUME NEW w \in Workers, NEW label \in Labels \ {"call"}, pc[w] # "call",
             Goto(w, label), UNCHANGED call,
             ~open' \/ (UNCHANGED <<open, remaining>>) \/ remaining' = Cooldown
      PROVE  ProbeInv'
  BY <1>1, <1>6 DEF Goto, call
<1>7. ASSUME \A w \in Workers :
               pc'[w] = pc[w] /\ age'[w] = age[w] /\ probing'[w] = probing[w],
             ~open' \/ UNCHANGED <<open, remaining>>
      PROVE  ProbeInv'
  BY <1>1, <1>7
<1>8. ASSUME NEW w \in Workers, SkipPrimary(w) \/ Fallback(w) PROVE ProbeInv'
  <2>1. "local" \in Labels \ {"call"} /\ "idle" \in Labels \ {"call"}
    BY DEF Labels
  <2> QED
    BY <1>6, <1>8, <2>1 DEF SkipPrimary, Fallback, breaker
<1>9. ASSUME NEW w \in Workers, RecordSuccess(w) \/ RecordFailure(w) PROVE ProbeInv'
  <2>1. "markUp" \in Labels \ {"call"} /\ "markDown" \in Labels \ {"call"}
    BY DEF Labels
  <2>2. CASE RecordSuccess(w)
    BY <1>6, <2>1, <2>2 DEF RecordSuccess
  <2>3. CASE RecordFailure(w)
    <3>1. UNCHANGED <<open, remaining>> \/ remaining' = Cooldown
      BY <2>3 DEF RecordFailure
    <3> QED
      BY <1>6, <2>1, <2>3, <3>1 DEF RecordFailure
  <2> QED
    BY <1>9, <2>2, <2>3
<1>10. ASSUME NEW w \in Workers, NEW value, NEW from \in Labels \ {"call"},
              NEW to \in Labels \ {"call"},
              StoreHealthy(w, from, value, to) \/ SwapDegraded(w, from, value, to)
       PROVE  ProbeInv'
  BY <1>6, <1>10 DEF StoreHealthy, SwapDegraded, breaker
<1>11. ASSUME NEW w \in Workers, WorkerStep(w) PROVE ProbeInv'
  <2>1. {"markUp", "recover", "markDown", "degrade", "idle", "local"}
          \subseteq Labels \ {"call"}
    BY DEF Labels
  <2> QED
    BY <1>5, <1>8, <1>9, <1>10, <1>11, <2>1 DEF WorkerStep
<1>12. CASE ProbeTick \/ PingOk \/ PingFails
  <2>1. \A w \in Workers : w # Prober
    BY ManagerAssumption
  <2>2. \A w \in Workers :
          pc'[w] = pc[w] /\ age'[w] = age[w] /\ probing'[w] = probing[w]
    BY <1>1, <1>12, <2>1 DEF ProbeTick, PingOk, PingFails, StartCall, EndCall, Goto
  <2> QED
    BY <1>7, <1>12, <2>2 DEF ProbeTick, PingOk, PingFails, breaker
<1>13. ASSUME NEW p \in {Prober, Closer}, NEW label, Goto(p, label), UNCHANGED call,
              ~open' \/ UNCHANGED <<open, remaining>>
       PROVE  ProbeInv'
  <2>1. \A w \in Workers : w # p
    BY ManagerAssumption
  <2>2. \A w \in Workers :
          pc'[w] = pc[w] /\ age'[w] = age[w] /\ probing'[w] = probing[w]
    BY <1>1, <1>13, <2>1 DEF Goto, call
  <2> QED
    BY <1>7, <1>13, <2>2
<1>14. CASE ProberStep \/ ProberExit \/ CloseStop \/ CloseLimiters
  BY <1>12, <1>13, <1>14
  DEF ProberStep, ProberExit, CloseStop, StopAndWait, CloseLimiters, NoteError, CloseCircuit,
      ClearCircuit,
      StoreHealthy, SwapDegraded, breaker
<1>15. CASE RedisDown \/ RedisUp \/ UNCHANGED vars
  BY <1>7, <1>15 DEF RedisDown, RedisUp, vars, breaker, call
<1> QED
  BY <1>2, <1>3, <1>4, <1>5, <1>8, <1>11, <1>12, <1>14, <1>15 DEF Next

(***************************************************************************)
(* "exactly one request is let through as a probe" (manager.go, tryPrimary)*)
(* whenever a Redis call cannot outlive the cooldown.                      *)
(***************************************************************************)
THEOREM OneProbeAtATime ==
    ASSUME Timeout <= Cooldown
    PROVE  Spec => []OneProbe
<1>1. Init => TypeOK /\ ProbeInv
  <2>1. Init => ProbeInv
    BY DEF Init, ProbeInv, ProbeAge, OnlyCallersProbe, OneProbe, Probes
  <2> QED
    BY <2>1, InitTypes
<1>2. TypeOK /\ ProbeInv /\ [Next]_vars => (TypeOK /\ ProbeInv)'
  BY NextTypes, NextProbes
<1>3. ProbeInv => OneProbe
  BY DEF ProbeInv
<1> QED
  BY <1>1, <1>2, <1>3, PTL DEF Spec

-----------------------------------------------------------------------------
(***************************************************************************)
(* Failover.  Every admission is in somebody's books: what Redis admitted  *)
(* and is delivered, or is still on its way to its caller, is within what  *)
(* it has counted since its last reset and one limit for every reset; the  *)
(* same holds for the fallback, except for what went by on a detached      *)
(* entry.                                                                  *)
(***************************************************************************)
Tallies ==
    /\ shared \in 0 .. Limit /\ own \in 0 .. Limit
    /\ others \in Nat /\ admitted \in Nat
    /\ redisServed \in Nat /\ fallbackServed \in Nat
    /\ answer \in [Workers -> {"none", "allow", "deny"}]
    /\ resets \in [memory : Nat, redis : Nat]
    /\ met \in [Workers -> Nat] /\ detached \in Nat

\* Whoever goes uncounted was reset that often, each time during its own call.
Contended ==
    /\ \A w \in Workers : met[w] <= resets.memory
    /\ detached > 0 => resets.memory >= MaxAttempts

\* Callers that Redis has admitted and that do not know it yet.
Owed == {w \in Workers : answer[w] = "allow"}

Balanced(byRedis, byFallback) ==
    /\ admitted = byRedis + byFallback + detached
    /\ byRedis + others + Cardinality(Owed) <= Limit * resets.redis + shared
    /\ byFallback <= Limit * resets.memory + own
    /\ fallbackServed = 0 => byFallback = 0

Books ==
    /\ Tallies /\ Contended
    /\ IsFiniteSet(Owed)
    /\ \E r, f \in Nat : Balanced(r, f)

LEMMA LimitTimes ==
    ASSUME NEW n \in Nat
    PROVE  Limit * n \in Nat /\ Limit * (n + 1) = Limit * n + Limit
           /\ Limit * (1 + n) = Limit * n + Limit
  BY FailoverAssumption

LEMMA InitBooks == FInit => Books
<1> SUFFICES ASSUME FInit PROVE Books
  OBVIOUS
<1>1. Tallies /\ Contended
  BY FailoverAssumption DEF FInit, Tallies, Contended
<1>2. Owed = {}
  BY DEF FInit, Owed
<1>3. Balanced(0, 0)
  BY <1>2, FS_EmptySet, FailoverAssumption DEF FInit, Balanced
<1> QED
  BY <1>1, <1>2, <1>3, FS_EmptySet DEF Books

\* An answer that is delivered or abandoned is no longer owed.
LEMMA ForgetAnswer ==
    ASSUME Tallies, IsFiniteSet(Owed), NEW w \in Workers,
           answer' = [answer EXCEPT ![w] = "none"]
    PROVE  /\ IsFiniteSet(Owed') /\ Cardinality(Owed') \in Nat
           /\ answer' \in [Workers -> {"none", "allow", "deny"}]
           /\ answer[w] = "allow" => Cardinality(Owed') = Cardinality(Owed) - 1
           /\ answer[w] # "allow" => Cardinality(Owed') = Cardinality(Owed)
<1>1. Owed' = Owed \ {w}
  BY DEF Tallies, Owed
<1>2. w \in Owed <=> answer[w] = "allow"
  BY DEF Owed
<1>3. answer' \in [Workers -> {"none", "allow", "deny"}]
  BY DEF Tallies
<1> QED
  BY <1>1, <1>2, <1>3, FS_RemoveElement, FS_CardinalityType

LEMMA NextBooks == Books /\ [FNext]_fvars => Books'
<1> SUFFICES ASSUME Books, [FNext]_fvars PROVE Books'
  OBVIOUS
<1>0. PICK r \in Nat, f \in Nat : Balanced(r, f)
  BY DEF Books
<1>1. /\ shared \in 0 .. Limit /\ own \in 0 .. Limit /\ others \in Nat /\ admitted \in Nat
      /\ Limit \in Nat /\ resets.redis \in Nat /\ resets.memory \in Nat
      /\ fallbackServed \in Nat /\ redisServed \in Nat /\ detached \in Nat
      /\ Cardinality(Owed) \in Nat
      /\ Limit * resets.redis \in Nat /\ Limit * resets.memory \in Nat
  BY FailoverAssumption, FS_CardinalityType, LimitTimes DEF Books, Tallies
<1>tallied. Tallies /\ Contended /\ IsFiniteSet(Owed)
  BY DEF Books
<1>kept. ASSUME UNCHANGED <<resets, retries>> PROVE Contended'
  BY <1>tallied, <1>kept DEF Contended, retries
<1>2. ASSUME UNCHANGED budget PROVE Books'
  <2>1. Owed' = Owed
    BY <1>2 DEF Owed, budget
  <2>2. Balanced(r, f)'
    BY <1>0, <1>2, <2>1 DEF Balanced, budget, counts, served, retries
  <2>3. Contended'
    BY <1>2, <1>kept DEF budget
  <2> QED
    BY <1>2, <2>1, <2>2, <2>3 DEF Books, Tallies, budget, counts, served, retries
<1>3. ASSUME NEW w \in Workers, Script(w) PROVE Books'
  <2>0. Contended'
    BY <1>3, <1>kept DEF Script
  <2>1. CASE shared < Limit
    <3>1. /\ answer' = [answer EXCEPT ![w] = "allow"] /\ shared' = shared + 1
          /\ answer[w] = "none"
      BY <1>1, <1>3, <2>1 DEF Script, One
    <3>2. Owed' = Owed \cup {w} /\ w \notin Owed
      BY <3>1 DEF Owed, Books, Tallies
    <3>3. IsFiniteSet(Owed') /\ Cardinality(Owed') = Cardinality(Owed) + 1
      BY <3>2, FS_AddElement DEF Books
    <3>4. Balanced(r, f)'
      BY <1>0, <1>1, <1>3, <3>1, <3>3 DEF Balanced, Script, served, retries
    <3>5. Tallies'
      BY <1>1, <1>3, <2>1, <3>1 DEF Books, Tallies, Script, served, retries
    <3> QED
      BY <2>0, <3>3, <3>4, <3>5 DEF Books
  <2>2. CASE ~(shared < Limit)
    <3>1. /\ answer' = [answer EXCEPT ![w] = "deny"] /\ shared' = shared
          /\ answer[w] = "none"
      BY <1>1, <1>3, <2>2 DEF Script, One
    <3>2. Owed' = Owed
      BY <3>1 DEF Owed, Books, Tallies
    <3>3. Balanced(r, f)'
      BY <1>0, <1>1, <1>3, <3>1, <3>2 DEF Balanced, Script, served, retries
    <3>4. Tallies'
      BY <1>1, <1>3, <3>1 DEF Books, Tallies, Script, served, retries
    <3> QED
      BY <2>0, <1>tallied, <3>2, <3>3, <3>4 DEF Books
  <2> QED
    BY <2>1, <2>2
<1>4. ASSUME NEW w \in Workers, Abandoned(w) PROVE Books'
  <2>1. answer' = [answer EXCEPT ![w] = "none"]
    BY <1>4 DEF Abandoned
  <2>2. /\ shared' = shared /\ own' = own /\ admitted' = admitted /\ others' = others
        /\ resets' = resets /\ redisServed' = redisServed
        /\ fallbackServed' = fallbackServed /\ met' = met /\ detached' = detached
        /\ Contended'
    BY <1>4, <1>kept DEF Abandoned, counts, served, retries
  <2>3. IsFiniteSet(Owed') /\ Cardinality(Owed') \in Nat
        /\ Cardinality(Owed') <= Cardinality(Owed)
        /\ answer' \in [Workers -> {"none", "allow", "deny"}]
    <3>1. /\ IsFiniteSet(Owed') /\ Cardinality(Owed') \in Nat
          /\ answer' \in [Workers -> {"none", "allow", "deny"}]
          /\ answer[w] = "allow" => Cardinality(Owed') = Cardinality(Owed) - 1
          /\ answer[w] # "allow" => Cardinality(Owed') = Cardinality(Owed)
      BY <1>tallied, <2>1, ForgetAnswer, Zenon
    <3> QED
      BY <1>1, <3>1
  <2>4. Balanced(r, f)'
    BY <1>0, <1>1, <2>2, <2>3 DEF Balanced
  <2>5. Tallies'
    BY <2>2, <2>3 DEF Books, Tallies
  <2> QED
    BY <2>2, <2>3, <2>4, <2>5 DEF Books
<1>5. ASSUME NEW w \in Workers, ServeRedis(w) PROVE Books'
  <2>1. PICK n \in {0, 1} : n = One(answer[w] = "allow")
    BY DEF One
  <2>2. /\ answer' = [answer EXCEPT ![w] = "none"]
        /\ redisServed' = redisServed + 1
        /\ admitted' = admitted + n
    BY <1>5, <2>1 DEF ServeRedis
  <2>3. /\ shared' = shared /\ own' = own /\ others' = others
        /\ resets' = resets /\ fallbackServed' = fallbackServed
        /\ met' = met /\ detached' = detached /\ Contended'
    BY <1>5, <1>kept DEF ServeRedis, counts, retries
  <2>4. IsFiniteSet(Owed') /\ Cardinality(Owed') \in Nat
        /\ Cardinality(Owed') + n <= Cardinality(Owed)
        /\ answer' \in [Workers -> {"none", "allow", "deny"}]
    <3>1. /\ IsFiniteSet(Owed') /\ Cardinality(Owed') \in Nat
          /\ answer' \in [Workers -> {"none", "allow", "deny"}]
          /\ answer[w] = "allow" => Cardinality(Owed') = Cardinality(Owed) - 1
          /\ answer[w] # "allow" => Cardinality(Owed') = Cardinality(Owed)
      BY <1>tallied, <2>2, ForgetAnswer, Zenon
    <3> QED
      BY <1>1, <2>1, <3>1 DEF One
  <2>5. r + n \in Nat
    BY <2>1
  <2>6. Balanced(r + n, f)'
    BY <1>0, <1>1, <2>1, <2>2, <2>3, <2>4 DEF Balanced
  <2>7. Tallies'
    BY <1>1, <2>1, <2>2, <2>3, <2>4 DEF Books, Tallies
  <2> QED
    BY <2>3, <2>4, <2>5, <2>6, <2>7 DEF Books
<1>local. ASSUME NEW w \in Workers, met' = [met EXCEPT ![w] = 0], resets' = resets
          PROVE  met' \in [Workers -> Nat] /\ \A v \in Workers : met'[v] <= resets'.memory
  BY <1>1, <1>tallied, <1>local DEF Tallies, Contended
<1>6. ASSUME NEW w \in Workers, ServeFallback(w) PROVE Books'
  <2>1. PICK n \in {0, 1} : n = One(own < Limit)
    BY DEF One
  <2>2. /\ own' = own + n /\ admitted' = admitted + n
        /\ fallbackServed' = fallbackServed + 1
        /\ shared' = shared /\ answer' = answer /\ redisServed' = redisServed
        /\ others' = others /\ resets' = resets
        /\ met' = [met EXCEPT ![w] = 0] /\ detached' = detached
    BY <1>6, <2>1 DEF ServeFallback, LocalAnswer
  <2>3. own + n <= Limit
    BY <1>1, <2>1 DEF One
  <2>4. Owed' = Owed
    BY <2>2 DEF Owed
  <2>5. Balanced(r, f + n)'
    BY <1>0, <1>1, <2>1, <2>2, <2>3, <2>4 DEF Balanced
  <2>6. Tallies' /\ Contended'
    <3>1. met' \in [Workers -> Nat] /\ \A v \in Workers : met'[v] <= resets'.memory
      BY <1>local, <2>2
    <3>2. Contended'
      BY <1>tallied, <2>2, <3>1 DEF Contended
    <3> QED
      BY <1>1, <2>1, <2>2, <2>3, <3>1, <3>2 DEF Books, Tallies
  <2>7. f + n \in Nat
    BY <2>1
  <2> QED
    BY <1>tallied, <2>4, <2>5, <2>6, <2>7 DEF Books
<1>detached. ASSUME NEW w \in Workers, ServeDetached(w) PROVE Books'
  <2>1. /\ own' = own /\ admitted' = admitted + 1 /\ detached' = detached + 1
        /\ fallbackServed' = fallbackServed + 1
        /\ shared' = shared /\ answer' = answer /\ redisServed' = redisServed
        /\ others' = others /\ resets' = resets
        /\ met' = [met EXCEPT ![w] = 0] /\ met[w] >= MaxAttempts
    BY <1>1, <1>detached DEF ServeDetached, LocalAnswer, One
  <2>2. Owed' = Owed
    BY <2>1 DEF Owed
  <2>3. Balanced(r, f)'
    BY <1>0, <1>1, <2>1, <2>2 DEF Balanced
  <2>4. Tallies' /\ Contended'
    <3>1. met' \in [Workers -> Nat] /\ \A v \in Workers : met'[v] <= resets'.memory
      BY <1>local, <2>1
    <3>2. resets'.memory >= MaxAttempts
      <4>1. met[w] \in Nat /\ met[w] <= resets.memory
        BY <1>tallied DEF Tallies, Contended
      <4> QED
        BY <1>1, <2>1, <4>1, FailoverAssumption
    <3> QED
      BY <1>1, <1>tallied, <2>1, <3>1, <3>2 DEF Tallies, Contended
  <2> QED
    BY <1>tallied, <2>2, <2>3, <2>4 DEF Books
<1>7. CASE OtherInstance
  <2>1. Owed' = Owed
    BY <1>7 DEF OtherInstance, Owed
  <2>2. Balanced(r, f)'
    BY <1>0, <1>1, <1>7, <2>1 DEF Balanced, OtherInstance, served, retries
  <2>3. Tallies' /\ Contended'
    BY <1>1, <1>7, <1>kept DEF Books, Tallies, OtherInstance, served, retries
  <2> QED
    BY <2>1, <2>2, <2>3 DEF Books
<1>8. CASE ResetMemory
  <2>1. /\ own' = 0 /\ resets' = [resets EXCEPT !.memory = resets.memory + 1]
        /\ UNCHANGED <<shared, answer, served, admitted, others, detached>>
        /\ met' = [w \in Workers |-> met[w] + One(pc[w] = "local")]
    BY <1>8 DEF ResetMemory
  <2>2. /\ resets'.memory = resets.memory + 1 /\ resets'.redis = resets.redis
        /\ resets' \in [memory : Nat, redis : Nat]
    BY <2>1 DEF Books, Tallies
  <2>3. Owed' = Owed
    BY <2>1 DEF Owed
  <2>4. Balanced(r, f)'
    BY <1>0, <1>1, <2>1, <2>2, <2>3, LimitTimes DEF Balanced, served
  <2>5. /\ met' \in [Workers -> Nat]
        /\ \A w \in Workers : met'[w] <= resets'.memory
    <3>1. ASSUME NEW w \in Workers
          PROVE  met'[w] \in Nat /\ met'[w] <= resets'.memory
      <4>1. met[w] \in Nat /\ met[w] <= resets.memory
        BY <1>tallied DEF Tallies, Contended
      <4>2. PICK n \in {0, 1} : met'[w] = met[w] + n
        BY <2>1 DEF One
      <4> QED
        BY <1>1, <2>2, <4>1, <4>2
    <3> QED
      BY <2>1, <3>1
  <2>6. Contended'
    <3>1. detached' = detached /\ resets'.memory >= resets.memory
      BY <1>1, <2>1, <2>2
    <3> QED
      BY <1>1, <1>tallied, <2>2, <2>5, <3>1, FailoverAssumption DEF Contended
  <2>7. Tallies'
    BY <1>1, <2>1, <2>2, <2>5 DEF Books, Tallies, served
  <2> QED
    BY <1>tallied, <2>3, <2>4, <2>6, <2>7 DEF Books
<1>9. CASE ResetRedis
  <2>1. Owed' = Owed
    BY <1>9 DEF ResetRedis, Owed
  <2>2. CASE shared' = 0 /\ resets' = [resets EXCEPT !.redis = resets.redis + 1]
    <3>1. /\ resets'.memory = resets.memory /\ resets'.redis = resets.redis + 1
          /\ resets' \in [memory : Nat, redis : Nat]
      BY <2>2 DEF Books, Tallies
    <3>2. Balanced(r, f)'
      BY <1>0, <1>1, <1>9, <2>1, <2>2, <3>1, LimitTimes
      DEF Balanced, ResetRedis, served, retries
    <3>3. Tallies' /\ Contended'
      BY <1>1, <1>9, <2>2, <3>1 DEF Books, Tallies, Contended, ResetRedis, served, retries
    <3> QED
      BY <2>1, <3>2, <3>3 DEF Books
  <2>3. CASE UNCHANGED <<shared, resets>>
    <3>1. Contended'
      BY <1>9, <1>kept, <2>3 DEF ResetRedis
    <3> QED
      BY <1>0, <1>9, <2>1, <2>3, <3>1 DEF ResetRedis, Books, Tallies, Balanced, served, retries
  <2> QED
    BY <1>9, <2>2, <2>3 DEF ResetRedis
<1>10. CASE Background \/ UNCHANGED fvars
  BY <1>2, <1>10 DEF Background, fvars
<1>11. ASSUME NEW w \in Workers, StartRequest(w) \/ Answered(w) \/ Recording(w) PROVE Books'
  BY <1>2, <1>11 DEF StartRequest, Answered, Recording
<1> QED
  BY <1>3, <1>4, <1>5, <1>6, <1>detached, <1>7, <1>8, <1>9, <1>10, <1>11 DEF FNext

(***************************************************************************)
(* However requests fail over and back, whichever calls are abandoned      *)
(* after their script ran and whenever the backends are reset, a client    *)
(* gets no more through than one limit per backend that served it and one  *)
(* for every reset of that backend, and what was admitted detached, which  *)
(* takes MaxAttempts resets (AllowPolicy, handleClientsReset, Allow).      *)
(***************************************************************************)
THEOREM FailoverIsMetered == FSpec => []Metered
<1>1. Books => Metered
  <2> SUFFICES ASSUME Books PROVE Metered
    OBVIOUS
  <2>1. PICK r \in Nat, f \in Nat : Balanced(r, f)
    BY DEF Books
  <2>2. /\ shared \in 0 .. Limit /\ own \in 0 .. Limit /\ others \in Nat
        /\ Limit \in Nat /\ resets.redis \in Nat /\ resets.memory \in Nat
        /\ Cardinality(Owed) \in Nat /\ detached \in Nat
    BY FailoverAssumption, FS_CardinalityType DEF Books, Tallies
  <2>3. /\ Limit * (1 + resets.redis) = Limit * resets.redis + Limit
        /\ Limit * (1 + resets.memory) = Limit * resets.memory + Limit
        /\ Limit * resets.redis \in Nat /\ Limit * resets.memory \in Nat
    BY <2>2, LimitTimes
  <2> QED
    <3>1. admitted + others <= Limit * (1 + resets.redis) + detached +
            (IF fallbackServed = 0 THEN 0 ELSE Limit * (1 + resets.memory))
      BY <2>1, <2>2, <2>3 DEF Balanced
    <3> QED
      BY <3>1 DEF Books, Contended, Metered
<1> QED
  BY <1>1, InitBooks, NextBooks, PTL DEF FSpec

(***************************************************************************)
(* Counting answers does not change the breaker: every step of Failover is *)
(* one of Manager's or leaves it alone, so what is proved of the breaker   *)
(* holds with both backends attached.                                      *)
(***************************************************************************)
THEOREM FailoverImplementsManager == FSpec => Spec
<1>1. FInit => Init
  BY DEF FInit
<1>2. ASSUME [FNext]_fvars PROVE [Next]_vars
  <2>1. CASE Background
    BY <2>1 DEF Background, Next
  <2>2. ASSUME NEW w \in Workers, StartRequest(w) \/ Answered(w) \/ Abandoned(w)
        PROVE  Next
    BY <2>2 DEF StartRequest, Answered, Abandoned, Next, WorkerStep
  <2>3. ASSUME NEW w \in Workers, Recording(w) \/ ServeRedis(w) \/ ServeFallback(w)
                            \/ ServeDetached(w)
        PROVE  Next
    BY <2>3
    DEF Recording, ServeRedis, ServeFallback, ServeDetached, LocalAnswer, Next, WorkerStep
  <2>4. ASSUME NEW w \in Workers, Script(w) PROVE UNCHANGED vars
    BY <2>4 DEF Script
  <2>5. CASE OtherInstance \/ ResetMemory \/ ResetRedis \/ UNCHANGED fvars
    BY <2>5 DEF OtherInstance, ResetMemory, ResetRedis, fvars
  <2> QED
    BY <1>2, <2>1, <2>2, <2>3, <2>4, <2>5 DEF FNext
<1> QED
  BY <1>1, <1>2, PTL DEF FSpec, Spec

(***************************************************************************)
(* With both backends attached the breaker still opens on exactly          *)
(* FailureThreshold failures in a row (recordFailure, recordSuccess).      *)
(***************************************************************************)
THEOREM FailoverKeepsBreaker == FSpec => []BreakerConsistent
  BY FailoverImplementsManager, BreakerIsConsistent, PTL
=============================================================================
