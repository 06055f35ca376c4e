----------------------------- MODULE WindowLog -----------------------------
(***************************************************************************)
(* What a sliding-window limiter promises: one log of stamps per client    *)
(* key, on which every decision is taken in one step.                      *)
(*                                                                         *)
(* The log may lose stamps that have left every window in use (a prune, or *)
(* the eviction of an idle key), and an operator may clear a key.  Nothing *)
(* else may touch it.                                                      *)
(***************************************************************************)
EXTENDS SlidingWindow

CONSTANT Keys

VARIABLES
    clock,     \* real time
    log,       \* per key, the stamps still counted
    granted    \* per key, every counted admission since the key was cleared

vars == <<clock, log, granted>>

TypeOK ==
    /\ clock \in Nat
    /\ log \in [Keys -> Seq(Int)]
    /\ granted \in [Keys -> Seq(Admissions)]

Init ==
    /\ clock = StartClock
    /\ log = [k \in Keys |-> <<>>]
    /\ granted = [k \in Keys |-> <<>>]

Tick ==
    /\ clock < MaxClock
    /\ clock' = clock + 1
    /\ UNCHANGED <<log, granted>>

(***************************************************************************)
(* A request of key k under policy p, decided for an instant now it read   *)
(* at most MaxDelay ago.  Even a denial prunes the log.                    *)
(***************************************************************************)
Grant(k, p, now) ==
    LET kept == Prune(log[k], now - p.window) IN
    /\ Len(kept) < p.limit
    /\ log' = [log EXCEPT ![k] = Append(kept, now)]
    /\ granted' = [granted EXCEPT ![k] = Append(@, Admission(clock, now, p.limit))]
    /\ UNCHANGED clock

Deny(k, p, now) ==
    LET kept == Prune(log[k], now - p.window) IN
    /\ Len(kept) >= p.limit
    /\ log' = [log EXCEPT ![k] = kept]
    /\ UNCHANGED <<clock, granted>>

\* Stamps that have left every window in use are dropped from the front.
Trim(k, cutoff) ==
    /\ log' = [log EXCEPT ![k] = Prune(@, cutoff)]
    /\ UNCHANGED <<clock, granted>>

\* A whole log is forgotten once all of it has left every window in use.
Forget(k) ==
    /\ \A j \in DOMAIN log[k] : log[k][j] <= clock - ShortestWindow
    /\ log' = [log EXCEPT ![k] = <<>>]
    /\ UNCHANGED <<clock, granted>>

\* An operator clears the key: its history starts again.
Clear(k) ==
    /\ log' = [log EXCEPT ![k] = <<>>]
    /\ granted' = [granted EXCEPT ![k] = <<>>]
    /\ UNCHANGED clock

Instants == clock - MaxDelay .. clock

Cutoffs == StartClock - MaxWindow .. clock - ShortestWindow

Next ==
    \/ Tick
    \/ \E k \in Keys :
        \/ \E raw \in Policies, now \in Instants :
            Grant(k, Normalize(raw), now) \/ Deny(k, Normalize(raw), now)
        \/ \E cutoff \in Cutoffs : Trim(k, cutoff)
        \/ Forget(k)
        \/ Clear(k)

Spec == Init /\ [][Next]_vars

-----------------------------------------------------------------------------
\* The promise itself.
WindowBound ==
    \A k \in Keys : AtMostLimitWithin(granted[k], ShortestWindow - MaxDelay)

\* Why it holds.
LogMatchesGranted ==
    \A k \in Keys : Timely(granted[k], clock) /\ SuffixOf(granted[k], log[k], clock)
=============================================================================
