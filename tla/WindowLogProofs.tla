-------------------------- MODULE WindowLogProofs --------------------------
(***************************************************************************)
(* A sliding-window log keeps the limit, for every set of keys and         *)
(* policies.                                                               *)
(*                                                                         *)
(* WindowBound speaks of the whole history but a step only sees the log,   *)
(* so it is not inductive.  LogMatchesGranted ties the two together: the   *)
(* log is a suffix of the history and what is missing from it has expired. *)
(* When a log of fewer than L stamps admits a request, the L-th admission  *)
(* before it is then among the expired ones.                               *)
(***************************************************************************)
EXTENDS WindowLog, SlidingWindowProofs

IInv == TypeOK /\ LogMatchesGranted /\ \A k \in Keys : Spaced(granted[k])

LEMMA MatchesIsIInv ==
    IInv <=> /\ TypeOK
             /\ \A k \in Keys : Matches(granted[k], log[k], clock)
<1>1. ASSUME TypeOK, NEW k \in Keys
      PROVE  Matches(granted[k], log[k], clock) <=>
               /\ Timely(granted[k], clock) /\ SuffixOf(granted[k], log[k], clock)
               /\ Spaced(granted[k])
  <2>1. granted[k] \in Seq(Admissions) /\ log[k] \in Seq(Int) /\ clock \in Int
    BY <1>1 DEF TypeOK
  <2> QED
    BY <2>1, MatchesIsSuffix
<1> QED
  BY <1>1 DEF IInv, LogMatchesGranted

-----------------------------------------------------------------------------
LEMMA InitEstablishes == Init => IInv
<1> SUFFICES ASSUME Init PROVE TypeOK /\ \A k \in Keys : Matches(granted[k], log[k], clock)
  BY MatchesIsIInv
<1>1. <<>> \in Seq(Int) /\ <<>> \in Seq(Admissions) /\ Len(<<>>) = 0
  BY EmptySeq
<1>2. TypeOK
  BY <1>1, ClockAssumption DEF Init, TypeOK
<1>3. ASSUME NEW k \in Keys PROVE Matches(granted[k], log[k], clock)
  <2>1. granted[k] = <<>> /\ log[k] = <<>>
    BY DEF Init
  <2>2. Spaced(<<>>)
    BY DEF Spaced, Apart
  <2>3. Matches(<<>>, <<>>, clock)
    BY <1>1, <2>2 DEF Matches
  <2> QED
    BY <2>1, <2>3
<1> QED
  BY <1>2, <1>3

LEMMA MatchesIsIInvNext ==
    (TypeOK /\ \A k \in Keys : Matches(granted[k], log[k], clock))' => IInv'
  BY MatchesIsIInv, PTL

(***************************************************************************)
(* A step that changes the history and the log of one key only.            *)
(***************************************************************************)
LEMMA OneKeyStep ==
    ASSUME IInv, NEW c \in Keys,
           clock' = clock,
           log' = [log EXCEPT ![c] = log'[c]],
           granted' = [granted EXCEPT ![c] = granted'[c]],
           Matches(granted'[c], log'[c], clock)
    PROVE  IInv'
<1>1. TypeOK /\ \A k \in Keys : Matches(granted[k], log[k], clock)
  BY MatchesIsIInv
<1>2. TypeOK'
  BY <1>1 DEF TypeOK, Matches
<1>3. ASSUME NEW j \in Keys PROVE Matches(granted[j], log[j], clock)'
  <2>1. CASE j = c
    BY <2>1 DEF Matches, Spaced, Apart
  <2>2. CASE j # c
    <3>1. granted'[j] = granted[j] /\ log'[j] = log[j]
      BY <1>1, <2>2 DEF TypeOK
    <3>2. Matches(granted[j], log[j], clock)
      BY <1>1
    <3> QED
      BY <3>1, <3>2 DEF Matches, Spaced, Apart
  <2> QED
    BY <2>1, <2>2
<1> QED
  BY <1>2, <1>3, MatchesIsIInvNext

LEMMA NextPreserves == IInv /\ [Next]_vars => IInv'
<1> SUFFICES ASSUME IInv, [Next]_vars PROVE IInv'
  OBVIOUS
<1>1. TypeOK /\ \A k \in Keys : Matches(granted[k], log[k], clock)
  BY MatchesIsIInv
<1>2. clock \in Nat
  BY <1>1 DEF TypeOK
<1>3. CASE Tick
  <2>1. TypeOK'
    BY <1>1, <1>3 DEF TypeOK, Tick
  <2>2. ASSUME NEW k \in Keys PROVE Matches(granted[k], log[k], clock)'
    <3>1. Matches(granted[k], log[k], clock + 1)
      BY <1>1, <1>2, MatchesLater
    <3> QED
      BY <1>3, <3>1 DEF Tick, Matches, Spaced, Apart
  <2> QED
    BY <2>1, <2>2, MatchesIsIInvNext
<1>4. ASSUME NEW k \in Keys, NEW raw \in Policies, NEW now \in Instants,
             Grant(k, Normalize(raw), now) \/ Deny(k, Normalize(raw), now)
      PROVE  IInv'
  <2> DEFINE p    == Normalize(raw)
             kept == Prune(log[k], now - p.window)
  <2>1. /\ p.limit \in Nat /\ p.limit >= 1 /\ p.window \in Nat
        /\ p.window >= ShortestWindow
    BY PolicyInUse
  <2>2. now \in Int /\ now <= clock /\ clock <= now + MaxDelay
    BY <1>2, DelayAssumption DEF Instants
  <2>3. Matches(granted[k], kept, clock)
    <3>1. now - p.window \in Int /\ now - p.window <= clock - ShortestWindow
      BY <1>2, <2>1, <2>2, DelayAssumption
    <3> HIDE DEF p
    <3> QED
      BY <1>1, <1>2, <3>1, MatchesPruned
  <2> HIDE DEF p
  <2>4. CASE Grant(k, p, now)
    <3> DEFINE a == Admission(clock, now, p.limit)
    <3>1. Len(kept) < p.limit
      BY <2>4 DEF Grant
    <3> HIDE DEF kept
    <3>2. Matches(Append(granted[k], a), Append(kept, now), clock)
      BY <1>2, <2>1, <2>2, <2>3, <3>1, MatchesGranted
    <3>3. /\ clock' = clock /\ log' = [log EXCEPT ![k] = Append(kept, now)]
          /\ granted' = [granted EXCEPT ![k] = Append(granted[k], a)]
      BY <1>1, <2>4 DEF Grant, TypeOK, kept
    <3> HIDE DEF a
    <3>4. log'[k] = Append(kept, now) /\ granted'[k] = Append(granted[k], a)
      BY <1>1, <3>3 DEF TypeOK
    <3> QED
      BY <3>2, <3>3, <3>4, OneKeyStep
  <2>5. CASE Deny(k, p, now)
    <3>1. /\ clock' = clock /\ log' = [log EXCEPT ![k] = kept]
          /\ granted' = [granted EXCEPT ![k] = granted[k]]
      BY <1>1, <2>5 DEF Deny, TypeOK
    <3> HIDE DEF kept
    <3>2. log'[k] = kept /\ granted'[k] = granted[k]
      BY <1>1, <3>1 DEF TypeOK
    <3> QED
      BY <2>3, <3>1, <3>2, OneKeyStep
  <2> QED
    BY <1>4, <2>4, <2>5 DEF p
<1>5. ASSUME NEW k \in Keys, NEW cutoff \in Cutoffs, Trim(k, cutoff)
      PROVE  IInv'
  <2>1. cutoff \in Int /\ cutoff <= clock - ShortestWindow
    BY <1>2, ClampAssumption, ClockAssumption, DelayAssumption DEF Cutoffs
  <2>2. Matches(granted[k], Prune(log[k], cutoff), clock)
    BY <1>1, <1>2, <2>1, MatchesPruned
  <2>3. /\ clock' = clock /\ log' = [log EXCEPT ![k] = Prune(log[k], cutoff)]
        /\ granted' = [granted EXCEPT ![k] = granted[k]]
    BY <1>1, <1>5 DEF Trim, TypeOK
  <2>4. log'[k] = Prune(log[k], cutoff) /\ granted'[k] = granted[k]
    BY <1>1, <2>3 DEF TypeOK
  <2> QED
    BY <2>2, <2>3, <2>4, OneKeyStep
<1>6. ASSUME NEW k \in Keys, Forget(k) PROVE IInv'
  <2>1. Matches(granted[k], <<>>, clock)
    BY <1>1, <1>2, <1>6, MatchesForgotten DEF Forget
  <2>2. /\ clock' = clock /\ log' = [log EXCEPT ![k] = <<>>]
        /\ granted' = [granted EXCEPT ![k] = granted[k]]
    BY <1>1, <1>6 DEF Forget, TypeOK
  <2>3. log'[k] = <<>> /\ granted'[k] = granted[k]
    BY <1>1, <2>2 DEF TypeOK
  <2> QED
    BY <2>1, <2>2, <2>3, OneKeyStep
<1>7. ASSUME NEW k \in Keys, Clear(k) PROVE IInv'
  <2>1. Matches(<<>>, <<>>, clock)
    BY EmptySeq DEF Matches, Spaced, Apart
  <2>2. /\ clock' = clock /\ log' = [log EXCEPT ![k] = <<>>]
        /\ granted' = [granted EXCEPT ![k] = <<>>]
    BY <1>7 DEF Clear
  <2>3. log'[k] = <<>> /\ granted'[k] = <<>>
    BY <1>1, <2>2 DEF TypeOK
  <2> QED
    BY <2>1, <2>2, <2>3, OneKeyStep
<1>8. CASE UNCHANGED vars
  BY <1>8 DEF vars, IInv, TypeOK, LogMatchesGranted, Timely, SuffixOf, Spaced, Apart
<1> QED
  BY <1>3, <1>4, <1>5, <1>6, <1>7, <1>8 DEF Next

(***************************************************************************)
(* The window log never lets a burst through, for all keys, policies,      *)
(* delays up to the shortest window and clocks.                            *)
(***************************************************************************)
THEOREM WindowLogIsSpaced == Spec => [](TypeOK /\ LogMatchesGranted /\ WindowBound)
<1>1. Init => IInv
  BY InitEstablishes
<1>2. IInv /\ [Next]_vars => IInv'
  BY NextPreserves
<1>3. IInv => TypeOK /\ LogMatchesGranted /\ WindowBound
  BY SpacedCounts DEF IInv, TypeOK, WindowBound
<1> QED
  BY <1>1, <1>2, <1>3, PTL DEF Spec
=============================================================================
