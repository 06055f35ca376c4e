------------------------ MODULE SlidingWindowProofs ------------------------
(***************************************************************************)
(* Facts about the pure operators of SlidingWindow.                        *)
(***************************************************************************)
EXTENDS SlidingWindow, SequenceTheorems, FiniteSetTheorems, WellFoundedInduction, TLAPS

(***************************************************************************)
(* Policy.Normalize always yields a policy the limiters can enforce, and   *)
(* leaves such a policy alone, so it does not matter that it is applied    *)
(* again on every layer (SetPolicy, Allow).                                *)
(***************************************************************************)
THEOREM NormalizeEnforces ==
    ASSUME NEW p \in [limit : Int, window : Int]
    PROVE  /\ Normalize(p) \in EnforcedPolicies
           /\ Normalize(Normalize(p)) = Normalize(p)
           /\ p \in EnforcedPolicies => Normalize(p) = p
  BY ClampAssumption
  DEF Normalize, NormalizeLimit, NormalizeWindow, EnforcedPolicies

(***************************************************************************)
(* The scan of memEntry.prune has a stopping point.                        *)
(***************************************************************************)
LEMMA ExpiredPrefixExists ==
    ASSUME NEW h \in Seq(Int), NEW cutoff \in Int
    PROVE  \E n \in 0 .. Len(h) : IsExpiredPrefix(h, cutoff, n)
<1> DEFINE Stops == {n \in Nat : n <= Len(h) /\ (n < Len(h) => h[n + 1] > cutoff)}
<1>1. Len(h) \in Stops
  BY LenProperties
<1>2. PICK m \in Stops : \A n \in Stops : ~ (<<n, m>> \in OpToRel(<, Nat))
  BY <1>1, WFMin, NatLessThanWellFounded
<1>3. \A n \in Stops : ~ (n < m)
  BY <1>2 DEF OpToRel
<1>4. ASSUME NEW j \in 1 .. m PROVE h[j] <= cutoff
  <2>1. j - 1 \notin Stops
    BY <1>3
  <2>2. h[j] \in Int /\ Len(h) \in Nat
    BY LenProperties
  <2> QED
    BY <2>1, <2>2
<1> QED
  BY <1>4, LenProperties DEF IsExpiredPrefix

(***************************************************************************)
(* What prune keeps: a suffix, and all it drops is at or before the cutoff.*)
(***************************************************************************)
LEMMA PruneKeepsSuffix ==
    ASSUME NEW h \in Seq(Int), NEW cutoff \in Int
    PROVE  /\ Prune(h, cutoff) \in Seq(Int)
           /\ \E n \in 0 .. Len(h) :
                /\ IsExpiredPrefix(h, cutoff, n)
                /\ Len(Prune(h, cutoff)) = Len(h) - n
                /\ \A j \in 1 .. Len(h) - n : Prune(h, cutoff)[j] = h[n + j]
<1> DEFINE n == ExpiredPrefix(h, cutoff)
<1>1. n \in 0 .. Len(h) /\ IsExpiredPrefix(h, cutoff, n)
  BY ExpiredPrefixExists DEF ExpiredPrefix
<1>2. Len(h) \in Nat /\ \A j \in 1 .. Len(h) : h[j] \in Int
  BY LenProperties
<1> HIDE DEF n
<1>3. \A j \in n + 1 .. Len(h) : h[j] \in Int
  BY <1>1, <1>2
<1>4. /\ SubSeq(h, n + 1, Len(h)) \in Seq(Int)
      /\ Len(SubSeq(h, n + 1, Len(h))) = IF n + 1 <= Len(h) THEN Len(h) - (n + 1) + 1 ELSE 0
      /\ \A j \in 1 .. Len(h) - (n + 1) + 1 :
            SubSeq(h, n + 1, Len(h))[j] = h[n + 1 + j - 1]
  BY <1>1, <1>2, <1>3, SubSeqProperties
<1>5. Prune(h, cutoff) = SubSeq(h, n + 1, Len(h))
  BY DEF Prune, n
<1>6. Len(Prune(h, cutoff)) = Len(h) - n
  BY <1>1, <1>2, <1>4, <1>5
<1>7. \A j \in 1 .. Len(h) - n : Prune(h, cutoff)[j] = h[n + j]
  BY <1>1, <1>2, <1>4, <1>5
<1> QED
  BY <1>1, <1>4, <1>5, <1>6, <1>7

(***************************************************************************)
(* deny's RetryAfter: a refusal under an enforceable policy always names   *)
(* a positive delay, for every log and every instant.                      *)
(***************************************************************************)
THEOREM RefusalDelaysRetry ==
    ASSUME NEW h \in Seq(Int), NEW p \in EnforcedPolicies, NEW now \in Int,
           ~Decide(h, p, now).allowed
    PROVE  /\ Decide(h, p, now).retryAfter >= 1
           /\ Decide(h, p, now).used >= p.limit
<1> DEFINE kept == Prune(h, now - p.window)
<1>1. p.limit \in Nat /\ p.limit >= 1 /\ p.window \in Int /\ now - p.window \in Int
  BY ClampAssumption DEF EnforcedPolicies
<1>2. PICK n \in 0 .. Len(h) :
        /\ IsExpiredPrefix(h, now - p.window, n)
        /\ Len(kept) = Len(h) - n
        /\ \A j \in 1 .. Len(h) - n : kept[j] = h[n + j]
  BY <1>1, PruneKeepsSuffix
<1>3. Len(h) \in Nat /\ \A j \in 1 .. Len(h) : h[j] \in Int
  BY LenProperties
<1> HIDE DEF kept
<1>4. Len(kept) >= p.limit /\ Decide(h, p, now) = Decision(FALSE, p, kept, now)
  <2>1. Decide(h, p, now) = IF Len(kept) >= p.limit
                            THEN Decision(FALSE, p, kept, now)
                            ELSE Decision(TRUE, p, Append(kept, now), now)
    BY DEF Decide, kept
  <2>2. Decision(TRUE, p, Append(kept, now), now).allowed = TRUE
    BY DEF Decision
  <2> QED
    BY <2>1, <2>2
<1>5. kept[1] = h[n + 1] /\ h[n + 1] > now - p.window
  BY <1>1, <1>2, <1>3, <1>4 DEF IsExpiredPrefix
<1>6. kept[1] \in Int /\ kept[1] + p.window - now >= 1
  BY <1>1, <1>2, <1>3, <1>4, <1>5
<1>7. Decide(h, p, now).used = Len(kept)
  BY <1>4 DEF Decision
<1>8. Decide(h, p, now).retryAfter = kept[1] + p.window - now
  BY <1>1, <1>4, <1>6 DEF Decision, NonNegative
<1> QED
  BY <1>1, <1>2, <1>3, <1>4, <1>6, <1>7, <1>8

\* The stamps of a log that are inside the window, wherever they stand.
InWindow(h, cutoff) == {j \in DOMAIN h : h[j] > cutoff}

Ascending(h) == \A i, j \in DOMAIN h : i <= j => h[i] <= h[j]

(***************************************************************************)
(* The scan keeps everything inside the window, and nothing else if the    *)
(* log is in ascending order.                                              *)
(***************************************************************************)
LEMMA PruneCounts ==
    ASSUME NEW h \in Seq(Int), NEW cutoff \in Int
    PROVE  /\ Cardinality(InWindow(h, cutoff)) \in Nat
           /\ Len(Prune(h, cutoff)) \in Nat
           /\ Cardinality(InWindow(h, cutoff)) <= Len(Prune(h, cutoff))
           /\ Ascending(h) => Cardinality(InWindow(h, cutoff)) = Len(Prune(h, cutoff))
<1>1. PICK n \in 0 .. Len(h) :
        IsExpiredPrefix(h, cutoff, n) /\ Len(Prune(h, cutoff)) = Len(h) - n
  BY PruneKeepsSuffix
<1>2. /\ Len(h) \in Nat /\ DOMAIN h = 1 .. Len(h)
      /\ \A j \in 1 .. Len(h) : h[j] \in Int
  BY LenProperties
<1> DEFINE rest == n + 1 .. Len(h)
<1>3. IsFiniteSet(rest) /\ Cardinality(rest) = Len(h) - n
  <2>1. n + 1 \in Int /\ Len(h) \in Int
    BY <1>2
  <2>2. /\ IsFiniteSet(rest)
        /\ Cardinality(rest) = IF n + 1 > Len(h) THEN 0 ELSE Len(h) - (n + 1) + 1
    BY <2>1, FS_Interval
  <2> QED
    BY <1>2, <2>2
<1>4. InWindow(h, cutoff) \in SUBSET rest
  <2> SUFFICES ASSUME NEW j \in 1 .. Len(h), h[j] > cutoff PROVE j \in rest
    BY <1>2 DEF InWindow
  <2>1. ~(j <= n)
    BY <1>1, <1>2 DEF IsExpiredPrefix
  <2> QED
    BY <1>2, <2>1
<1>5. ASSUME Ascending(h) PROVE InWindow(h, cutoff) = rest
  <2> SUFFICES ASSUME NEW j \in rest PROVE j \in 1 .. Len(h) /\ h[j] > cutoff
    BY <1>2, <1>4 DEF InWindow
  <2>1. j \in 1 .. Len(h) /\ n + 1 \in 1 .. Len(h) /\ n + 1 <= j /\ n < Len(h)
    BY <1>2
  <2>2. h[n + 1] > cutoff
    BY <1>1, <2>1 DEF IsExpiredPrefix
  <2>3. h[n + 1] <= h[j]
    BY <1>2, <1>5, <2>1 DEF Ascending
  <2> QED
    BY <1>2, <2>1, <2>2, <2>3
<1> HIDE DEF rest
<1>6. /\ IsFiniteSet(InWindow(h, cutoff))
      /\ Cardinality(InWindow(h, cutoff)) <= Cardinality(rest)
  BY <1>3, <1>4, FS_Subset
<1>7. Cardinality(InWindow(h, cutoff)) \in Nat
  BY <1>6, FS_CardinalityType
<1> QED
  BY <1>1, <1>2, <1>3, <1>5, <1>6, <1>7

(***************************************************************************)
(* Allow's decision against its definition, the number of stamps inside    *)
(* the window: for every log a request is admitted only if fewer than the  *)
(* limit are, and in a log in ascending order, as the comment of memEntry  *)
(* has it, whenever they are.  Out of order (memory_order) the scan can    *)
(* only refuse too much.                                                   *)
(***************************************************************************)
THEOREM DecisionIsExact ==
    ASSUME NEW h \in Seq(Int), NEW p \in EnforcedPolicies, NEW now \in Int
    PROVE  LET used == Cardinality(InWindow(h, now - p.window)) IN
           /\ Decide(h, p, now).allowed => used < p.limit
           /\ Ascending(h) => (Decide(h, p, now).allowed <=> used < p.limit)
<1> DEFINE cutoff == now - p.window
           used   == Cardinality(InWindow(h, cutoff))
           kept   == Len(Prune(h, cutoff))
<1>1. p.limit \in Nat /\ cutoff \in Int
  BY ClampAssumption DEF EnforcedPolicies
<1>2. Decide(h, p, now).allowed <=> kept < p.limit
  <2>1. kept \in Nat
    BY <1>1, PruneCounts
  <2>2. CASE kept >= p.limit
    BY <1>1, <2>1, <2>2 DEF Decide, Decision
  <2>3. CASE ~(kept >= p.limit)
    BY <1>1, <2>1, <2>3 DEF Decide, Decision
  <2> QED
    BY <2>2, <2>3
<1> HIDE DEF cutoff
<1>3. used \in Nat /\ kept \in Nat /\ used <= kept /\ (Ascending(h) => used = kept)
  BY <1>1, PruneCounts
<1> HIDE DEF used, kept
<1>4. /\ Decide(h, p, now).allowed => used < p.limit
      /\ Ascending(h) => (Decide(h, p, now).allowed <=> used < p.limit)
  BY <1>1, <1>2, <1>3
<1> QED
  BY <1>4 DEF used, cutoff

(***************************************************************************)
(* Every policy in use is enforceable and its window is not shorter than   *)
(* ShortestWindow.                                                         *)
(***************************************************************************)
LEMMA PolicyInUse ==
    ASSUME NEW raw \in Policies
    PROVE  /\ Normalize(raw) \in EnforcedPolicies
           /\ Normalize(raw).limit \in Nat /\ Normalize(raw).limit >= 1
           /\ Normalize(raw).window \in Nat
           /\ Normalize(raw).window >= ShortestWindow
           /\ Normalize(raw).window <= MaxWindow
<1>1. raw \in [limit : Int, window : Int]
  BY PolicyAssumption
<1>2. Normalize(raw) \in EnforcedPolicies
  BY <1>1, NormalizeEnforces
<1>3. Normalize(raw).window = NormalizeWindow(raw.window)
  BY DEF Normalize
<1> QED
  BY <1>2, <1>3, ClampAssumption, DelayAssumption DEF EnforcedPolicies

-----------------------------------------------------------------------------
(***************************************************************************)
(* What an admission adds to a history: it comes last, and the L-th before *)
(* it is at least span older.  So whatever is less than span older is one  *)
(* of the last L.                                                          *)
(***************************************************************************)
Apart(g, span) ==
    \A i \in DOMAIN g :
        /\ \A j \in 1 .. i : g[j].at <= g[i].at
        /\ LET j == i - g[i].limit IN j >= 1 => g[i].at - g[j].at >= span

LEMMA ApartCounts ==
    ASSUME NEW g, NEW n \in Nat, NEW span \in Int, DOMAIN g = 1 .. n,
           \A i \in 1 .. n : g[i].at \in Int /\ g[i].limit \in Nat,
           Apart(g, span)
    PROVE  AtMostLimitWithin(g, span)
<1> SUFFICES ASSUME NEW i \in 1 .. n
             PROVE  Cardinality({j \in 1 .. i : g[i].at - g[j].at < span}) <= g[i].limit
  BY DEF AtMostLimitWithin
<1> DEFINE near == {j \in 1 .. i : g[i].at - g[j].at < span}
           last == i - g[i].limit + 1 .. i
<1>1. g[i].limit \in Nat /\ i - g[i].limit + 1 \in Int /\ i \in Int
  OBVIOUS
<1>2. ASSUME NEW j \in near PROVE j \in last
  <2>1. CASE j <= i - g[i].limit
    <3>1. PICK m \in 1 .. n : m = i - g[i].limit
      <4>1. i - g[i].limit \in 1 .. n
        BY <1>1, <2>1
      <4> QED
        BY <4>1
    <3>2. g[j].at <= g[m].at /\ g[i].at - g[m].at >= span
      <4>1. j \in 1 .. m /\ m >= 1
        BY <2>1, <3>1
      <4>2. g[j].at <= g[m].at
        BY <4>1 DEF Apart
      <4>3. g[i].at - g[m].at >= span
        BY <3>1, <4>1 DEF Apart
      <4> QED
        BY <4>2, <4>3
    <3>3. g[j].at \in Int /\ g[m].at \in Int /\ g[i].at \in Int /\ g[i].at - g[j].at < span
      OBVIOUS
    <3> QED
      BY <3>2, <3>3
  <2> QED
    BY <1>1, <2>1
<1>3. IsFiniteSet(last) /\ Cardinality(last) = g[i].limit
  <2>1. PICK L, a \in Int : L = g[i].limit /\ a = i - L + 1
    BY <1>1
  <2>2. IsFiniteSet(a .. i) /\ Cardinality(a .. i) = IF a > i THEN 0 ELSE i - a + 1
    BY <1>1, FS_Interval
  <2>3. L \in Nat /\ i \in Int
    BY <1>1, <2>1
  <2>4. (IF a > i THEN 0 ELSE i - a + 1) = L
    BY <2>1, <2>3
  <2> QED
    BY <2>1, <2>2, <2>4
<1> HIDE DEF near, last
<1>4. near \in SUBSET last
  BY <1>2
<1>5. Cardinality(near) <= Cardinality(last)
  BY <1>3, <1>4, FS_Subset
<1> QED
  BY <1>3, <1>5 DEF near

Spaced(g) == Apart(g, ShortestWindow - MaxDelay)

(***************************************************************************)
(* One key at a time: the history and the log of a key at time t.          *)
(***************************************************************************)
Matches(g, h, t) ==
    /\ g \in Seq(Admissions) /\ h \in Seq(Int)
    /\ \A i \in 1 .. Len(g) :
        g[i].stamp <= g[i].at /\ g[i].at <= g[i].stamp + MaxDelay /\ g[i].at <= t
    /\ Len(g) - Len(h) >= 0
    /\ \A j \in 1 .. Len(h) : h[j] = g[Len(g) - Len(h) + j].stamp
    /\ \A i \in 1 .. Len(g) - Len(h) : g[i].stamp <= t - ShortestWindow
    /\ Spaced(g)

LEMMA MatchesIsSuffix ==
    ASSUME NEW g \in Seq(Admissions), NEW h \in Seq(Int), NEW t \in Int
    PROVE  Matches(g, h, t) <=> Timely(g, t) /\ SuffixOf(g, h, t) /\ Spaced(g)
<1>1. /\ Len(g) \in Nat /\ Len(h) \in Nat
      /\ DOMAIN g = 1 .. Len(g) /\ DOMAIN h = 1 .. Len(h)
  BY LenProperties
<1>2. Timely(g, t) <=> \A i \in 1 .. Len(g) :
        g[i].stamp <= g[i].at /\ g[i].at <= g[i].stamp + MaxDelay /\ g[i].at <= t
  BY <1>1 DEF Timely
<1>3. SuffixOf(g, h, t) <=>
        /\ Len(g) - Len(h) >= 0
        /\ \A j \in 1 .. Len(h) : h[j] = g[Len(g) - Len(h) + j].stamp
        /\ \A i \in 1 .. Len(g) - Len(h) : g[i].stamp <= t - ShortestWindow
  BY <1>1, Zenon DEF SuffixOf
<1>4. ASSUME Matches(g, h, t) PROVE Timely(g, t) /\ SuffixOf(g, h, t) /\ Spaced(g)
  <2>1. Spaced(g)
    BY <1>4, Zenon DEF Matches
  <2>2. Timely(g, t)
    BY <1>2, <1>4 DEF Matches
  <2>3. SuffixOf(g, h, t)
    BY <1>3, <1>4 DEF Matches
  <2> QED
    BY <2>1, <2>2, <2>3
<1>5. ASSUME Timely(g, t), SuffixOf(g, h, t), Spaced(g) PROVE Matches(g, h, t)
  BY <1>2, <1>3, <1>5 DEF Matches
<1> QED
  BY <1>4, <1>5

LEMMA SpacedCounts ==
    ASSUME NEW g \in Seq(Admissions), Spaced(g)
    PROVE  AtMostLimitWithin(g, ShortestWindow - MaxDelay)
<1>1. /\ Len(g) \in Nat /\ DOMAIN g = 1 .. Len(g)
      /\ \A i \in 1 .. Len(g) : g[i] \in Admissions
  BY LenProperties
<1>2. \A i \in 1 .. Len(g) : g[i].at \in Int /\ g[i].limit \in Nat
  BY <1>1 DEF Admissions
<1>3. ShortestWindow - MaxDelay \in Int /\ Apart(g, ShortestWindow - MaxDelay)
  BY DelayAssumption DEF Spaced
<1> QED
  BY <1>1, <1>2, <1>3, ApartCounts

(***************************************************************************)
(* Time only makes more stamps expire.                                     *)
(***************************************************************************)
LEMMA MatchesLater ==
    ASSUME NEW g, NEW h, NEW t \in Int, NEW u \in Int, t <= u, Matches(g, h, t)
    PROVE  Matches(g, h, u)
<1>1. Len(g) \in Nat /\ Len(h) \in Nat /\ \A i \in 1 .. Len(g) : g[i] \in Admissions
  BY LenProperties DEF Matches
<1>2. ASSUME NEW i \in 1 .. Len(g) PROVE g[i].at \in Int /\ g[i].stamp \in Int
  BY <1>1 DEF Admissions
<1>3. ASSUME NEW i \in 1 .. Len(g) PROVE g[i].at <= u
  BY <1>2 DEF Matches
<1>4. ASSUME NEW i \in 1 .. Len(g) - Len(h) PROVE g[i].stamp <= u - ShortestWindow
  <2>1. i \in 1 .. Len(g)
    BY <1>1
  <2>2. g[i].stamp <= t - ShortestWindow
    BY DEF Matches
  <2> QED
    BY <1>2, <2>1, <2>2, DelayAssumption
<1> QED
  BY <1>3, <1>4 DEF Matches

(***************************************************************************)
(* Dropping from the front of the log stamps that are a window old.        *)
(***************************************************************************)
LEMMA MatchesPruned ==
    ASSUME NEW g, NEW h, NEW t \in Int, NEW cutoff \in Int,
           Matches(g, h, t), cutoff <= t - ShortestWindow
    PROVE  Matches(g, Prune(h, cutoff), t)
<1> DEFINE kept == Prune(h, cutoff)
<1>1. /\ Len(g) \in Nat /\ Len(h) \in Nat
      /\ \A i \in 1 .. Len(g) : g[i] \in Admissions
      /\ \A j \in 1 .. Len(h) : h[j] \in Int
  BY LenProperties DEF Matches
<1>2. kept \in Seq(Int)
  BY PruneKeepsSuffix DEF Matches
<1>3. PICK n \in 0 .. Len(h) :
        /\ IsExpiredPrefix(h, cutoff, n)
        /\ Len(kept) = Len(h) - n
        /\ \A j \in 1 .. Len(h) - n : kept[j] = h[n + j]
  BY PruneKeepsSuffix DEF Matches
<1> HIDE DEF kept
<1>4. Len(g) - Len(kept) >= 0
  BY <1>1, <1>3 DEF Matches
<1>5. ASSUME NEW j \in 1 .. Len(kept)
      PROVE  kept[j] = g[Len(g) - Len(kept) + j].stamp
  <2>1. kept[j] = h[n + j] /\ n + j \in 1 .. Len(h)
    BY <1>1, <1>3
  <2>2. h[n + j] = g[Len(g) - Len(h) + (n + j)].stamp
    BY <2>1 DEF Matches
  <2>3. Len(g) - Len(h) + (n + j) = Len(g) - Len(kept) + j
    BY <1>1, <1>3
  <2> QED
    BY <2>1, <2>2, <2>3
<1>6. ASSUME NEW i \in 1 .. Len(g) - Len(kept)
      PROVE  g[i].stamp <= t - ShortestWindow
  <2>1. CASE i <= Len(g) - Len(h)
    BY <1>1, <2>1 DEF Matches
  <2>2. CASE i > Len(g) - Len(h)
    <3>1. PICK j \in 1 .. n : i = Len(g) - Len(h) + j
      <4>1. i - (Len(g) - Len(h)) \in 1 .. n
        BY <1>1, <1>3, <1>4, <2>2
      <4> QED
        BY <1>1, <4>1
    <3>2. j \in 1 .. Len(h) /\ i \in 1 .. Len(g)
      BY <1>1, <1>3, <1>4
    <3>3. h[j] <= cutoff
      BY <1>3 DEF IsExpiredPrefix
    <3>4. h[j] = g[i].stamp
      BY <3>1, <3>2 DEF Matches
    <3> QED
      BY <1>1, <3>2, <3>3, <3>4, DelayAssumption
  <2> QED
    BY <1>1, <2>1, <2>2
<1>7. Matches(g, kept, t)
  BY <1>2, <1>4, <1>5, <1>6 DEF Matches
<1> QED
  BY <1>7 DEF kept

(***************************************************************************)
(* Forgetting a log whose stamps are all a window old.                     *)
(***************************************************************************)
LEMMA MatchesForgotten ==
    ASSUME NEW g, NEW h, NEW t \in Int, Matches(g, h, t),
           \A j \in DOMAIN h : h[j] <= t - ShortestWindow
    PROVE  Matches(g, <<>>, t)
<1>1. /\ Len(g) \in Nat /\ Len(h) \in Nat /\ DOMAIN h = 1 .. Len(h)
      /\ <<>> \in Seq(Int) /\ Len(<<>>) = 0
  BY LenProperties, EmptySeq DEF Matches
<1>2. ASSUME NEW i \in 1 .. Len(g) PROVE g[i].stamp <= t - ShortestWindow
  <2>1. CASE i <= Len(g) - Len(h)
    BY <1>1, <2>1 DEF Matches
  <2>2. CASE i > Len(g) - Len(h)
    <3>1. PICK j \in 1 .. Len(h) : i = Len(g) - Len(h) + j
      <4>1. i - (Len(g) - Len(h)) \in 1 .. Len(h)
        BY <1>1, <2>2
      <4> QED
        BY <1>1, <4>1
    <3>2. h[j] = g[i].stamp
      BY <3>1 DEF Matches
    <3> QED
      BY <1>1, <3>2
  <2> QED
    BY <1>1, <2>1, <2>2
<1>3. Len(g) - Len(<<>>) = Len(g) /\ Len(g) >= 0
  BY <1>1
<1>4. \A j \in 1 .. Len(<<>>) : <<>>[j] = g[Len(g) - Len(<<>>) + j].stamp
  BY <1>1
<1> QED
  BY <1>1, <1>2, <1>3, <1>4 DEF Matches

(***************************************************************************)
(* The heart of the matter: a log of fewer than L stamps admits.           *)
(***************************************************************************)
LEMMA MatchesGranted ==
    ASSUME NEW g, NEW h, NEW t \in Int, NEW now \in Int, NEW L \in Nat,
           Matches(g, h, t), now <= t, t <= now + MaxDelay,
           L >= 1, Len(h) < L
    PROVE  Matches(Append(g, Admission(t, now, L)), Append(h, now), t)
<1> DEFINE a  == Admission(t, now, L)
           gg == Append(g, a)
           hh == Append(h, now)
<1>1. /\ a \in Admissions
      /\ a.at = t /\ a.stamp = now /\ a.limit = L
  BY DEF Admission, Admissions
<1>2. /\ Len(g) \in Nat /\ Len(h) \in Nat
      /\ \A i \in 1 .. Len(g) : g[i] \in Admissions
      /\ DOMAIN g = 1 .. Len(g)
  BY LenProperties DEF Matches
<1> HIDE DEF a
<1>3. /\ gg \in Seq(Admissions) /\ Len(gg) = Len(g) + 1
      /\ \A i \in 1 .. Len(g) : gg[i] = g[i]
      /\ gg[Len(g) + 1] = a
  BY <1>1, AppendProperties DEF Matches
<1>4. /\ hh \in Seq(Int) /\ Len(hh) = Len(h) + 1
      /\ \A j \in 1 .. Len(h) : hh[j] = h[j]
      /\ hh[Len(h) + 1] = now
  BY AppendProperties DEF Matches
<1>5. DOMAIN gg = 1 .. Len(g) + 1
  BY <1>3, LenProperties
<1> HIDE DEF gg, hh
<1>6. Len(gg) - Len(hh) = Len(g) - Len(h) /\ Len(gg) - Len(hh) >= 0
  BY <1>2, <1>3, <1>4 DEF Matches
<1>7. ASSUME NEW i \in 1 .. Len(gg)
      PROVE  gg[i].stamp <= gg[i].at /\ gg[i].at <= gg[i].stamp + MaxDelay /\ gg[i].at <= t
  <2>1. CASE i = Len(g) + 1
    BY <1>1, <1>3, <2>1
  <2>2. CASE i \in 1 .. Len(g)
    BY <1>3, <2>2 DEF Matches
  <2> QED
    BY <1>2, <1>3, <2>1, <2>2
<1>8. ASSUME NEW j \in 1 .. Len(hh)
      PROVE  hh[j] = gg[Len(gg) - Len(hh) + j].stamp
  <2>1. CASE j = Len(h) + 1
    <3>1. Len(gg) - Len(hh) + j = Len(g) + 1
      BY <1>2, <1>6, <2>1
    <3> QED
      BY <1>1, <1>3, <1>4, <2>1, <3>1
  <2>2. CASE j \in 1 .. Len(h)
    <3>1. Len(g) - Len(h) + j \in 1 .. Len(g)
      BY <1>2, <1>6, <2>2
    <3> QED
      BY <1>3, <1>4, <1>6, <2>2, <3>1 DEF Matches
  <2> QED
    BY <1>2, <1>4, <2>1, <2>2
<1>9. ASSUME NEW i \in 1 .. Len(gg) - Len(hh)
      PROVE  gg[i].stamp <= t - ShortestWindow
  <2>1. i \in 1 .. Len(g) - Len(h) /\ i \in 1 .. Len(g)
    BY <1>2, <1>6
  <2> QED
    BY <1>3, <2>1 DEF Matches
<1>10. Spaced(gg)
  <2>0. ASSUME NEW i \in 1 .. Len(g) + 1, NEW j \in 1 .. i PROVE gg[j].at <= gg[i].at
    <3>1. CASE i = Len(g) + 1
      <4>1. gg[i].at = t
        BY <1>1, <1>3, <3>1
      <4>2. j \in 1 .. Len(gg)
        BY <1>2, <1>3
      <4> QED
        BY <1>7, <4>1, <4>2
    <3>2. CASE i \in 1 .. Len(g)
      <4>1. j \in 1 .. Len(g) /\ gg[j] = g[j] /\ gg[i] = g[i]
        BY <1>2, <1>3, <3>2
      <4> QED
        BY <1>2, <3>2, <4>1 DEF Matches, Spaced, Apart
    <3> QED
      BY <1>2, <3>1, <3>2
  <2> SUFFICES ASSUME NEW i \in 1 .. Len(g) + 1, i - gg[i].limit >= 1
               PROVE  gg[i].at - gg[i - gg[i].limit].at >= ShortestWindow - MaxDelay
    BY <1>5, <2>0 DEF Spaced, Apart
  <2>1. CASE i = Len(g) + 1
    <3>1. gg[i].at = t /\ gg[i].limit = L
      BY <1>1, <1>3, <2>1
    <3>2. PICK j \in 1 .. Len(g) - Len(h) : j = i - L /\ j \in 1 .. Len(g)
      <4>1. i - L >= 1 /\ i - L <= Len(g) - Len(h) /\ i - L <= Len(g) /\ i - L \in Int
        BY <1>2, <2>1, <3>1
      <4>2. i - L \in 1 .. Len(g) - Len(h) /\ i - L \in 1 .. Len(g)
        BY <1>2, <4>1
      <4> QED
        BY <4>2
    <3>3. g[j].stamp <= t - ShortestWindow /\ g[j].at <= g[j].stamp + MaxDelay
      BY <3>2 DEF Matches
    <3>4. g[j].at \in Int /\ g[j].stamp \in Int
      BY <1>2, <3>2 DEF Admissions
    <3>5. t - g[j].at >= ShortestWindow - MaxDelay
      BY <3>3, <3>4, DelayAssumption
    <3> QED
      BY <1>3, <3>1, <3>2, <3>5
  <2>2. CASE i \in 1 .. Len(g)
    <3>1. gg[i] = g[i] /\ g[i].limit \in Nat
      BY <1>2, <1>3, <2>2 DEF Admissions
    <3>2. i - g[i].limit \in 1 .. Len(g)
      BY <1>2, <2>2, <3>1
    <3> QED
      BY <1>2, <1>3, <2>2, <3>1, <3>2 DEF Matches, Spaced, Apart
  <2> QED
    BY <1>2, <2>1, <2>2
<1>11. Matches(gg, hh, t)
  BY <1>3, <1>4, <1>6, <1>7, <1>8, <1>9, <1>10 DEF Matches
<1> QED
  BY <1>11 DEF gg, hh, a
=============================================================================
