--------------------------- MODULE SlidingWindow ---------------------------
(***************************************************************************)
(* The pure part of internal/limiter that both backends share: the policy  *)
(* and its clamping (limiter.go), the pruning of a log of admission stamps *)
(* and the decision taken on a pruned log (memory.go, limiter.go).         *)
(*                                                                         *)
(* Time is counted in ticks.  A log is a sequence of stamps in the order   *)
(* in which the admissions were appended to it.                            *)
(***************************************************************************)
EXTENDS Integers, Sequences, FiniteSets

CONSTANTS
    MaxLimit,        \* largest limit Normalize keeps (1_000_000 in the code)
    MinWindow,       \* shortest window Normalize keeps (1 ms)
    DefaultWindow,   \* what a shorter window becomes (1 s)
    MaxWindow,       \* longest window Normalize keeps (24 h)
    Policies,        \* the policies callers pass, before normalisation
    ShortestWindow,  \* a lower bound of the normalised windows in use
    MaxDelay,        \* longest time a call may lag behind the clock it read
    StartClock,      \* the clock when the process starts
    MaxClock         \* where the model stops the clock

ASSUME ClampAssumption ==
    /\ MaxLimit \in Nat \ {0}
    /\ MinWindow \in Nat \ {0} /\ DefaultWindow \in Nat /\ MaxWindow \in Nat
    /\ MinWindow <= DefaultWindow /\ DefaultWindow <= MaxWindow

ASSUME PolicyAssumption ==
    Policies \subseteq [limit : Int, window : Int]

ASSUME ClockAssumption ==
    StartClock \in Nat /\ MaxClock \in Nat /\ StartClock <= MaxClock

(***************************************************************************)
(* Policy.Normalize: what the limiters can enforce.  A window that is too  *)
(* short is replaced by the default, not by the shortest one.              *)
(***************************************************************************)
\* Fault: the limit has no upper bound.
NormalizeLimitUncapped(n) == IF n < 1 THEN 1 ELSE n

NormalizeLimit(n) ==
    IF n < 1 THEN 1 ELSE IF n > MaxLimit THEN MaxLimit ELSE n

NormalizeWindow(d) ==
    IF d < MinWindow THEN DefaultWindow ELSE IF d > MaxWindow THEN MaxWindow ELSE d

Normalize(p) ==
    [limit |-> NormalizeLimit(p.limit), window |-> NormalizeWindow(p.window)]

EnforcedPolicies == [limit : 1 .. MaxLimit, window : MinWindow .. MaxWindow]

ASSUME DelayAssumption ==
    /\ ShortestWindow \in Nat \ {0}
    /\ \A p \in Policies : ShortestWindow <= NormalizeWindow(p.window)
    /\ MaxDelay \in 0 .. ShortestWindow

-----------------------------------------------------------------------------
(***************************************************************************)
(* memEntry.prune: a scan from the front that stops at the first stamp     *)
(* after the cutoff, so an old stamp behind a newer one is kept.           *)
(***************************************************************************)
\* Fault: a stamp exactly at the cutoff is kept.
IsExpiredPrefixStrict(h, cutoff, n) ==
    /\ \A j \in 1 .. n : h[j] < cutoff
    /\ n < Len(h) => h[n + 1] >= cutoff

IsExpiredPrefix(h, cutoff, n) ==
    /\ \A j \in 1 .. n : h[j] <= cutoff
    /\ n < Len(h) => h[n + 1] > cutoff

ExpiredPrefix(h, cutoff) ==
    CHOOSE n \in 0 .. Len(h) : IsExpiredPrefix(h, cutoff, n)

Prune(h, cutoff) == SubSeq(h, ExpiredPrefix(h, cutoff) + 1, Len(h))

(***************************************************************************)
(* The Decision of Allow and of deny, for the policy p already normalised, *)
(* the log h and the instant now the call read.  RetryAfter is clamped at  *)
(* zero.                                                                   *)
(***************************************************************************)
NonNegative(d) == IF d < 0 THEN 0 ELSE d

\* Fault: the slot is announced one tick too early.
DecisionEarly(allowed, p, kept, now) ==
    LET resetAt == kept[1] + p.window - 1 IN
    [allowed    |-> allowed,
     used       |-> Len(kept),
     remaining  |-> IF allowed THEN p.limit - Len(kept) ELSE 0,
     resetAt    |-> resetAt,
     retryAfter |-> NonNegative(resetAt - now)]

Decision(allowed, p, kept, now) ==
    LET resetAt == kept[1] + p.window IN
    [allowed    |-> allowed,
     used       |-> Len(kept),
     remaining  |-> IF allowed THEN p.limit - Len(kept) ELSE 0,
     resetAt    |-> resetAt,
     retryAfter |-> NonNegative(resetAt - now)]

\* Fault: the limit is compared with > instead of >=.
DecideOneMore(h, p, now) ==
    LET kept == Prune(h, now - p.window) IN
    IF Len(kept) > p.limit
    THEN Decision(FALSE, p, kept, now)
    ELSE Decision(TRUE, p, Append(kept, now), now)

Decide(h, p, now) ==
    LET kept == Prune(h, now - p.window) IN
    IF Len(kept) >= p.limit
    THEN Decision(FALSE, p, kept, now)
    ELSE Decision(TRUE, p, Append(kept, now), now)

-----------------------------------------------------------------------------
(***************************************************************************)
(* What is promised about the admissions of one key.  g is their history   *)
(* (a history variable: the code keeps none): when each happened, the      *)
(* instant it was decided for and the limit it was decided under.          *)
(***************************************************************************)
Admission(at, stamp, limit) == [at |-> at, stamp |-> stamp, limit |-> limit]

Admissions == [at : Int, stamp : Int, limit : Nat]

(***************************************************************************)
(* Counting back from an admission under limit L, that one included, there *)
(* are at most L admissions in any time shorter than span.                 *)
(***************************************************************************)
AtMostLimitWithin(g, span) ==
    \A i \in DOMAIN g :
        Cardinality({j \in 1 .. i : g[i].at - g[j].at < span}) <= g[i].limit

\* Every admission was decided for an instant shortly before it.
Timely(g, t) ==
    \A i \in DOMAIN g :
        /\ g[i].stamp <= g[i].at
        /\ g[i].at <= g[i].stamp + MaxDelay
        /\ g[i].at <= t

\* The log h is a suffix of g, and the rest of g has left every window in use.
SuffixOf(g, h, t) ==
    LET lost == Len(g) - Len(h) IN
    /\ lost >= 0
    /\ \A j \in DOMAIN h : h[j] = g[lost + j].stamp
    /\ \A i \in 1 .. lost : g[i].stamp <= t - ShortestWindow
=============================================================================
