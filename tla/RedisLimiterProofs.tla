------------------------- MODULE RedisLimiterProofs -------------------------
(***************************************************************************)
(* The shared limiter, for any number of instances, requests, resends and  *)
(* keys.                                                                   *)
(*                                                                         *)
(* The argument: a member names one call for ever (Identified, Credited),  *)
(* what the sorted set holds are admissions (Backed), and an admission     *)
(* leaves it only once it is older than every window, by any caller's      *)
(* clock (AdmissionsAreCounted).  So when the script counts fewer than L   *)
(* members, one of the last L admissions is old.                           *)
(***************************************************************************)
EXTENDS RedisLimiter, SlidingWindowProofs

Types == TypeOK /\ zset \in [Keys -> SUBSET Stamped]

Busy(w) == pc[w] # "idle"

EntryOf(g) == [score |-> g.stamp, member |-> g.member]

\* A call in flight is decided for an instant near the server's.
Punctual ==
    \A w \in Workers : Busy(w) =>
        /\ now[w] <= clock + MaxAhead /\ clock <= now[w] + MaxDelay
        /\ ShortestWindow <= WindowMS(policy[w])

\* The counter has passed every member drawn; calls in flight have their own.
Identified ==
    /\ \A w \in Workers : Busy(w) =>
        member[w].instance = Home[w] /\ member[w].seq <= seq[Home[w]]
    /\ \A v, w \in Workers : Busy(v) /\ Busy(w) /\ member[v] = member[w] => v = w
    /\ \A k \in Keys : \A i \in DOMAIN granted[k] :
        granted[k][i].member.seq <= seq[granted[k][i].member.instance]

\* counted[w] says whether the history has the call of w.
Credited ==
    /\ \A w \in Workers : Busy(w) /\ counted[w] =>
        \E i \in DOMAIN granted[key[w]] : granted[key[w]][i].member = member[w]
    /\ \A k \in Keys, w \in Workers : \A i \in DOMAIN granted[k] :
        Busy(w) /\ granted[k][i].member = member[w] =>
            counted[w] /\ key[w] = k /\ granted[k][i].stamp = now[w]
    /\ \A k \in Keys : \A i, j \in DOMAIN granted[k] :
        granted[k][i].member = granted[k][j].member => i = j

\* A member stands for an admission, and its key outlasts its windows.
Backed ==
    \A k \in Keys : \A e \in zset[k] :
        /\ \E i \in DOMAIN granted[k] : e = EntryOf(granted[k][i])
        /\ e.score <= clock + MaxAhead
        /\ e.score <= expireAt[k] + MaxAhead - ShortestWindow

\* The history is in the order of time.
Paced ==
    \A k \in Keys : \A i \in DOMAIN granted[k] :
        /\ granted[k][i].at <= clock
        /\ granted[k][i].at <= granted[k][i].stamp + MaxDelay
        /\ \A j \in DOMAIN granted[k] : j <= i => granted[k][j].at <= granted[k][i].at

\* An admission and the one its limit further back are a window apart.
Spread ==
    \A k \in Keys : \A i \in DOMAIN granted[k] :
        LET j == i - granted[k][i].limit IN
        j >= 1 => granted[k][i].at - granted[k][j].at >= ShortestWindow - MaxDelay - MaxAhead

RedisInv ==
    /\ Types /\ Punctual /\ Identified /\ Credited /\ Backed /\ Paced
    /\ AdmissionsAreCounted /\ Spread

-----------------------------------------------------------------------------
(* Constants, the set of a key and its history. *)

LEMMA RedisConstants ==
    /\ Keys # {} /\ Milli \in Nat /\ Milli > 0 /\ MaxAhead \in Nat /\ MaxSends \in Nat
    /\ MaxSends > 0 /\ MaxDelay \in Nat /\ ShortestWindow \in Nat /\ ShortestWindow > 0
    /\ StartClock \in Nat
    /\ \A w \in Workers, r \in Resetters : w # r
    /\ \A w \in Workers : Home[w] \in Instances
  BY RedisAssumption, DelayAssumption, ClockAssumption DEF Instances

LEMMA WindowMSType ==
    ASSUME NEW p \in EnforcedPolicies
    PROVE  WindowMS(p) \in Nat /\ WindowMS(p) >= 1
<1>1. p.window \in Nat /\ Milli \in Nat /\ Milli > 0
  BY RedisConstants, ClampAssumption DEF EnforcedPolicies
<1>2. p.window \div Milli \in Int
  BY <1>1
<1> QED
  BY <1>2 DEF WindowMS

LEMMA HistoryOf ==
    ASSUME Types, NEW k \in Keys
    PROVE  /\ granted[k] \in Seq(CountedAdmissions) /\ Len(granted[k]) \in Nat
           /\ DOMAIN granted[k] = 1 .. Len(granted[k])
           /\ \A i \in DOMAIN granted[k] :
                /\ granted[k][i].at \in Nat /\ granted[k][i].stamp \in Int
                /\ granted[k][i].limit \in Nat /\ granted[k][i].member \in Members
                /\ granted[k][i].member.instance \in Instances
                /\ granted[k][i].member.seq \in Nat
<1>1. granted[k] \in Seq(CountedAdmissions)
  BY DEF Types, TypeOK
<1>2. /\ Len(granted[k]) \in Nat /\ DOMAIN granted[k] = 1 .. Len(granted[k])
      /\ \A i \in DOMAIN granted[k] : granted[k][i] \in CountedAdmissions
  BY <1>1, LenProperties
<1> QED
  BY <1>1, <1>2 DEF CountedAdmissions, Members

LEMMA CallOf ==
    ASSUME Types, NEW w \in Workers
    PROVE  /\ key[w] \in Keys /\ now[w] \in Int /\ policy[w] \in EnforcedPolicies
           /\ policy[w].limit \in Nat /\ policy[w].limit >= 1
           /\ WindowMS(policy[w]) \in Nat /\ WindowMS(policy[w]) >= 1
           /\ member[w] \in Members /\ counted[w] \in BOOLEAN
           /\ Entry(w) \in Stamped /\ Entry(w) = [score |-> now[w], member |-> member[w]]
           /\ clock \in Nat
<1>1. /\ key[w] \in Keys /\ now[w] \in Int /\ policy[w] \in EnforcedPolicies
      /\ member[w] \in Members /\ counted[w] \in BOOLEAN /\ clock \in Nat
  BY DEF Types, TypeOK
<1>2. policy[w].limit \in Nat /\ policy[w].limit >= 1
  BY <1>1, ClampAssumption DEF EnforcedPolicies
<1> QED
  BY <1>1, <1>2, WindowMSType DEF Entry, Stamped

LEMMA SetOf ==
    ASSUME Types, NEW k \in Keys
    PROVE  /\ IsFiniteSet(Live(k)) /\ Live(k) \subseteq zset[k] /\ zset[k] \subseteq Stamped
           /\ IsFiniteSet(zset[k])
           /\ \A e \in zset[k] : e.score \in Int /\ e.member \in Members
<1>1. IsFiniteSet(zset[k]) /\ zset[k] \subseteq Stamped
  BY DEF Types, TypeOK
<1>2. Live(k) \in SUBSET zset[k]
  BY DEF Live
<1> QED
  BY <1>1, <1>2, FS_Subset DEF Stamped

LEMMA ScriptOf ==
    ASSUME Types, NEW w \in Workers
    PROVE  /\ IsFiniteSet(Kept(w)) /\ Kept(w) \subseteq Live(key[w])
           /\ Cardinality(Kept(w)) \in Nat
           /\ IsFiniteSet(After(w)) /\ After(w) \subseteq Kept(w) \cup {Entry(w)}
           /\ After(w) \subseteq Stamped
           /\ Cardinality(After(w)) <= Cardinality(Kept(w)) + 1
           /\ Cardinality(After(w)) \in Nat
           /\ ~Allows(w) => After(w) = Kept(w)
           /\ Allows(w) => Entry(w) \in After(w)
<1>1. key[w] \in Keys /\ Entry(w) \in Stamped
  BY CallOf
<1>2. /\ IsFiniteSet(Live(key[w])) /\ Live(key[w]) \subseteq Stamped
  BY <1>1, SetOf
<1>3. Kept(w) \in SUBSET Live(key[w])
  BY DEF Kept
<1>4. IsFiniteSet(Kept(w)) /\ Cardinality(Kept(w)) \in Nat
  BY <1>2, <1>3, FS_Subset, FS_CardinalityType
<1>5. After(w) \in SUBSET (Kept(w) \cup {Entry(w)})
  BY DEF After, ZAdd
<1>6. /\ IsFiniteSet(Kept(w) \cup {Entry(w)})
      /\ Cardinality(Kept(w) \cup {Entry(w)}) <= Cardinality(Kept(w)) + 1
      /\ Cardinality(Kept(w) \cup {Entry(w)}) \in Nat
  BY <1>4, FS_AddElement, FS_CardinalityType
<1>7. /\ IsFiniteSet(After(w)) /\ Cardinality(After(w)) \in Nat
      /\ Cardinality(After(w)) <= Cardinality(Kept(w) \cup {Entry(w)})
  BY <1>5, <1>6, FS_Subset, FS_CardinalityType
<1>8. Allows(w) => Entry(w) \in After(w)
  BY DEF After, ZAdd
<1>9. Cardinality(After(w)) <= Cardinality(Kept(w)) + 1
  BY <1>4, <1>6, <1>7
<1> QED
  BY <1>1, <1>2, <1>3, <1>4, <1>5, <1>7, <1>8, <1>9 DEF After

LEMMA AppendedTo ==
    ASSUME NEW S, NEW g \in Seq(S), NEW x \in S
    PROVE  /\ Append(g, x) \in Seq(S) /\ Len(g) \in Nat
           /\ DOMAIN Append(g, x) = 1 .. Len(g) + 1 /\ DOMAIN g = 1 .. Len(g)
           /\ \A i \in 1 .. Len(g) : Append(g, x)[i] = g[i]
           /\ Append(g, x)[Len(g) + 1] = x
  BY AppendProperties, LenProperties

-----------------------------------------------------------------------------
(***************************************************************************)
(* The steps that touch neither Redis nor the calls: at most they end one. *)
(***************************************************************************)
Quiet ==
    /\ UNCHANGED <<clock, redis, seq, call, ghost>>
    /\ \A w \in Workers : pc'[w] # "idle" => pc[w] # "idle"

LEMMA QuietSteps ==
    ASSUME Types, [Next]_vars
    PROVE  \/ Tick
           \/ \E w \in Workers, k \in Keys, raw \in Policies :
                \E t \in clock - MaxDelay .. clock + MaxAhead : Send(w, k, raw, t)
           \/ \E w \in Workers : RunScript(w)
           \/ \E r \in Resetters : Del(r)
           \/ Quiet
<1> USE RedisConstants
<1>1. ASSUME NEW w \in Workers, Return(w) \/ GiveUp(w) \/ Vanish(w) PROVE Quiet
  BY <1>1 DEF Return, GiveUp, Vanish, Goto, Quiet, Types, TypeOK
<1>2. ASSUME NEW r \in Resetters, StartReset(r) \/ ResetFails(r) PROVE Quiet
  BY <1>2 DEF StartReset, ResetFails, Goto, Quiet, Types, TypeOK
<1>3. ASSUME NEW r \in Resetters, NEW b, Scan(r, b) PROVE Quiet
  BY <1>3 DEF Scan, Goto, Quiet, Types, TypeOK
<1>4. ASSUME UNCHANGED vars PROVE Quiet
  BY <1>4 DEF vars, redis, call, ghost, Quiet
<1> QED
  BY <1>1, <1>2, <1>3, <1>4 DEF Next

-----------------------------------------------------------------------------
(* Types. *)

LEMMA InitTyped == Init => Types
<1> SUFFICES ASSUME Init PROVE Types
  OBVIOUS
<1> USE RedisConstants
<1>1. zset \in [Keys -> SUBSET Stamped] /\ \A k \in Keys : zset[k] = {}
  BY DEF Init
<1>2. \A k \in Keys : zset[k] \subseteq Stamped /\ IsFiniteSet(zset[k])
  BY <1>1, FS_EmptySet
<1>3. policy \in [Workers -> EnforcedPolicies]
  <2>1. [limit |-> 1, window |-> DefaultWindow] \in EnforcedPolicies
    BY ClampAssumption DEF EnforcedPolicies
  <2> QED
    BY <2>1 DEF Init
<1>4. key \in [Workers -> Keys]
  <2>1. (CHOOSE k \in Keys : TRUE) \in Keys
    OBVIOUS
  <2> QED
    BY <2>1 DEF Init
<1>5. member \in [Workers -> Members]
  BY DEF Init, Members
<1>6. granted \in [Keys -> Seq(CountedAdmissions)]
  <2>1. <<>> \in Seq(CountedAdmissions)
    BY EmptySeq
  <2> QED
    BY <2>1 DEF Init
<1>7. /\ clock \in Nat /\ expireAt \in [Keys -> Nat] /\ seq \in [Instances -> Nat]
      /\ pc \in [Workers \cup Resetters -> {"idle", "sent", "gone", "scan", "del"}]
      /\ now \in [Workers -> Int] /\ sends \in [Workers -> 0 .. MaxSends]
      /\ left \in [Resetters -> SUBSET Keys] /\ found \in [Resetters -> SUBSET Keys]
      /\ counted \in [Workers -> BOOLEAN]
  BY DEF Init
<1> QED
  BY <1>1, <1>2, <1>3, <1>4, <1>5, <1>6, <1>7 DEF Types, TypeOK

LEMMA NextTyped ==
    ASSUME Types, [Next]_vars
    PROVE  Types'
<1> USE RedisConstants DEF Types
<1>1. CASE Tick
  BY <1>1 DEF Tick, TypeOK, redis, call, ghost
<1>2. ASSUME NEW w \in Workers, NEW k \in Keys, NEW raw \in Policies, NEW t \in Int,
             Send(w, k, raw, t)
      PROVE  Types'
  <2>1. policy' \in [Workers -> EnforcedPolicies]
    BY <1>2, PolicyInUse DEF Send, TypeOK
  <2>2. member' \in [Workers -> Members]
    <3>1. Member(w, t) \in Members
      BY DEF Member, Members, TypeOK
    <3> QED
      BY <1>2, <3>1 DEF Send, TypeOK
  <2>3. seq' \in [Instances -> Nat]
    BY <1>2 DEF Send, TypeOK
  <2>4. /\ key' \in [Workers -> Keys] /\ now' \in [Workers -> Int]
        /\ sends' \in [Workers -> 0 .. MaxSends] /\ counted' \in [Workers -> BOOLEAN]
        /\ pc' \in [Workers \cup Resetters -> {"idle", "sent", "gone", "scan", "del"}]
    BY <1>2 DEF Send, TypeOK, Goto
  <2> QED
    BY <1>2, <2>1, <2>2, <2>3, <2>4 DEF Send, TypeOK, redis
<1>3. ASSUME NEW w \in Workers, RunScript(w) PROVE Types'
  <2>1. /\ key[w] \in Keys /\ IsFiniteSet(After(w)) /\ After(w) \subseteq Stamped
    BY CallOf, ScriptOf
  <2>2. zset' = [zset EXCEPT ![key[w]] = After(w)]
    BY <1>3 DEF RunScript
  <2>3. /\ zset' \in [Keys -> SUBSET Stamped]
        /\ \A k \in Keys : zset'[k] \subseteq Stamped /\ IsFiniteSet(zset'[k])
    BY <2>1, <2>2 DEF TypeOK
  <2>4. expireAt' \in [Keys -> Nat]
    <3>1. Expiry(w) \in Nat
      BY CallOf DEF Expiry
    <3> QED
      BY <1>3, <3>1 DEF RunScript, TypeOK
  <2>5. granted' \in [Keys -> Seq(CountedAdmissions)]
    <3>1. Admitted(w) \in CountedAdmissions
      <4>1. Entry(w).member = member[w]
        BY DEF Entry
      <4> QED
        BY <4>1, CallOf DEF Admitted, CountedAdmissions
    <3>2. Append(granted[key[w]], Admitted(w)) \in Seq(CountedAdmissions)
      BY <2>1, <3>1, HistoryOf, AppendedTo
    <3> QED
      BY <1>3, <2>1, <3>2 DEF RunScript, TypeOK
  <2>6. sends' \in [Workers -> 0 .. MaxSends]
    BY <1>3 DEF RunScript, TypeOK
  <2>7. counted' \in [Workers -> BOOLEAN]
    <3>1. (counted[w] \/ Allows(w)) \in BOOLEAN
      OBVIOUS
    <3> QED
      BY <1>3, <3>1, Zenon DEF RunScript, TypeOK
  <2> QED
    BY <1>3, <2>3, <2>4, <2>5, <2>6, <2>7 DEF RunScript, TypeOK, call
<1>4. ASSUME NEW w \in Workers, Return(w) \/ GiveUp(w) \/ Vanish(w) PROVE Types'
  <2>1. pc' \in [Workers \cup Resetters -> {"idle", "sent", "gone", "scan", "del"}]
    BY <1>4 DEF Return, GiveUp, Vanish, Goto, TypeOK
  <2>2. UNCHANGED <<clock, redis, seq, call, sends, left, found, ghost>>
    BY <1>4 DEF Return, GiveUp, Vanish
  <2> QED
    BY <2>1, <2>2 DEF TypeOK, redis, call, ghost
<1>5. ASSUME NEW r \in Resetters, StartReset(r) \/ ResetFails(r) PROVE Types'
  <2>1. pc' \in [Workers \cup Resetters -> {"idle", "sent", "gone", "scan", "del"}]
    BY <1>5 DEF StartReset, ResetFails, Goto, TypeOK
  <2>2. UNCHANGED <<clock, redis, seq, call, sends, found, ghost>>
    BY <1>5 DEF StartReset, ResetFails
  <2>3. left' \in [Resetters -> SUBSET Keys]
    BY <1>5 DEF StartReset, ResetFails, TypeOK
  <2> QED
    BY <2>1, <2>2, <2>3 DEF TypeOK, redis, call, ghost
<1>6. ASSUME NEW r \in Resetters, NEW b \in SUBSET left[r], Scan(r, b) PROVE Types'
  <2>1. left[r] \subseteq Keys
    BY DEF TypeOK
  <2>2. found' \in [Resetters -> SUBSET Keys] /\ left' \in [Resetters -> SUBSET Keys]
    BY <1>6, <2>1 DEF Scan, TypeOK
  <2> QED
    BY <1>6, <2>2 DEF Scan, Goto, TypeOK, redis, call, ghost
<1>7. ASSUME NEW r \in Resetters, Del(r) PROVE Types'
  <2>1. /\ zset' \in [Keys -> SUBSET Stamped]
        /\ \A k \in Keys : zset'[k] \subseteq Stamped /\ IsFiniteSet(zset'[k])
    BY <1>7, FS_EmptySet DEF Del, TypeOK
  <2>2. granted' \in [Keys -> Seq(CountedAdmissions)]
    <3>1. <<>> \in Seq(CountedAdmissions)
      BY EmptySeq
    <3> QED
      BY <1>7, <3>1 DEF Del, TypeOK
  <2>3. counted' \in [Workers -> BOOLEAN]
    <3>1. counted' = [w \in Workers |-> counted[w] /\ key[w] \notin found[r]]
      BY <1>7 DEF Del
    <3> QED
      BY <3>1, Zenon
  <2>4. pc' \in [Workers \cup Resetters -> {"idle", "sent", "gone", "scan", "del"}]
    BY <1>7 DEF Del, Goto, TypeOK
  <2> QED
    BY <1>7, <2>1, <2>2, <2>3, <2>4 DEF Del, TypeOK, call
<1>8. CASE UNCHANGED vars
  BY <1>8 DEF vars, TypeOK, redis, call, ghost
<1>9. \A t \in clock - MaxDelay .. clock + MaxAhead : t \in Int
  OBVIOUS
<1> QED
  BY <1>1, <1>2, <1>3, <1>4, <1>5, <1>6, <1>7, <1>8, <1>9 DEF Next

-----------------------------------------------------------------------------
(* Calls in flight and their members. *)

LEMMA Sent ==
    ASSUME Types, NEW w \in Workers, NEW k, NEW raw \in Policies, NEW t, Send(w, k, raw, t)
    PROVE  /\ ~Busy(w) /\ UNCHANGED <<clock, redis, granted>>
           /\ key'[w] = k /\ policy'[w] = Normalize(raw) /\ now'[w] = t /\ ~counted'[w]
           /\ member'[w] = [instance |-> Home[w], seq |-> seq[Home[w]] + 1]
           /\ seq' = [seq EXCEPT ![Home[w]] = seq[Home[w]] + 1]
           /\ \A v \in Workers : v # w =>
                /\ key'[v] = key[v] /\ policy'[v] = policy[v] /\ now'[v] = now[v]
                /\ member'[v] = member[v] /\ counted'[v] = counted[v] /\ pc'[v] = pc[v]
<1>1. /\ ~Busy(w) /\ UNCHANGED <<clock, redis, granted>>
      /\ seq' = [seq EXCEPT ![Home[w]] = seq[Home[w]] + 1]
  BY RedisConstants DEF Send, Busy, Types, TypeOK
<1>2. /\ key'[w] = k /\ policy'[w] = Normalize(raw) /\ now'[w] = t /\ ~counted'[w]
      /\ member'[w] = [instance |-> Home[w], seq |-> seq[Home[w]] + 1]
  BY DEF Send, Types, TypeOK, Member
<1>3. ASSUME NEW v \in Workers, v # w
      PROVE  /\ key'[v] = key[v] /\ policy'[v] = policy[v] /\ now'[v] = now[v]
             /\ member'[v] = member[v] /\ counted'[v] = counted[v] /\ pc'[v] = pc[v]
  BY <1>3 DEF Send, Types, TypeOK, Goto
<1> QED
  BY <1>1, <1>2, <1>3

LEMMA NextPunctual ==
    ASSUME Types, Punctual, [Next]_vars
    PROVE  Punctual'
<1> USE RedisConstants
<1>1. CASE Tick
  BY <1>1 DEF Tick, Punctual, Busy, Types, TypeOK, call
<1>2. ASSUME NEW w \in Workers, NEW k \in Keys, NEW raw \in Policies,
             NEW t \in clock - MaxDelay .. clock + MaxAhead, Send(w, k, raw, t)
      PROVE  Punctual'
  <2>1. ShortestWindow <= WindowMS(Normalize(raw))
    BY RedisAssumption
  <2>2. t <= clock + MaxAhead /\ clock <= t + MaxDelay
    BY DEF Types, TypeOK
  <2> SUFFICES ASSUME NEW v \in Workers, pc'[v] # "idle"
               PROVE  /\ now'[v] <= clock' + MaxAhead /\ clock' <= now'[v] + MaxDelay
                      /\ ShortestWindow <= WindowMS(policy'[v])
    BY DEF Punctual, Busy, WindowMS
  <2>3. CASE v = w
    <3>1. clock' = clock /\ now'[w] = t /\ policy'[w] = Normalize(raw)
      BY <1>2 DEF Send, Types, TypeOK
    <3> QED
      BY <2>1, <2>2, <2>3, <3>1
  <2>4. CASE v # w
    <3>1. clock' = clock /\ now'[v] = now[v] /\ policy'[v] = policy[v] /\ pc'[v] = pc[v]
      BY <1>2, <2>4, Sent
    <3> QED
      BY <3>1 DEF Punctual, Busy
  <2> QED
    BY <2>3, <2>4
<1>3. ASSUME NEW w \in Workers, RunScript(w) PROVE Punctual'
  BY <1>3 DEF RunScript, Punctual, Busy, call
<1>4. ASSUME NEW r \in Resetters, Del(r) PROVE Punctual'
  BY <1>4 DEF Del, Goto, Punctual, Busy, Types, TypeOK, call
<1>5. CASE Quiet
  BY <1>5 DEF Quiet, Punctual, Busy, call
<1> QED
  BY <1>1, <1>2, <1>3, <1>4, <1>5, QuietSteps

LEMMA Ran ==
    ASSUME Types, NEW w \in Workers, RunScript(w)
    PROVE  /\ UNCHANGED <<clock, seq, pc, call>> /\ Busy(w)
           /\ zset' = [zset EXCEPT ![key[w]] = After(w)]
           /\ expireAt' = [expireAt EXCEPT ![key[w]] = clock + WindowMS(policy[w])]
           /\ counted'[w] = (counted[w] \/ Allows(w))
           /\ \A v \in Workers : v # w => counted'[v] = counted[v]
           /\ \/ UNCHANGED granted /\ (Allows(w) => counted[w])
              \/ /\ Allows(w) /\ ~counted[w]
                 /\ granted' = [granted EXCEPT ![key[w]] = Append(granted[key[w]], Admitted(w))]
           /\ Admitted(w) = [at |-> clock, stamp |-> now[w], limit |-> policy[w].limit,
                             member |-> member[w]]
           /\ Admitted(w) \in CountedAdmissions
<1>1. /\ UNCHANGED <<clock, seq, pc, call>> /\ Busy(w)
      /\ zset' = [zset EXCEPT ![key[w]] = After(w)]
      /\ expireAt' = [expireAt EXCEPT ![key[w]] = clock + WindowMS(policy[w])]
  BY DEF RunScript, Busy, Expiry
<1>2. counted' = [counted EXCEPT ![w] = counted[w] \/ Allows(w)]
  BY Zenon DEF RunScript, Types, TypeOK
<1>3. counted'[w] = (counted[w] \/ Allows(w))
  BY <1>2, Zenon DEF Types, TypeOK
<1>4. \A v \in Workers : v # w => counted'[v] = counted[v]
  BY <1>2 DEF Types, TypeOK
<1>5. \/ UNCHANGED granted /\ (Allows(w) => counted[w])
      \/ /\ Allows(w) /\ ~counted[w]
         /\ granted' = [granted EXCEPT ![key[w]] = Append(granted[key[w]], Admitted(w))]
  BY CallOf DEF RunScript, Types, TypeOK
<1>6. Admitted(w) = [at |-> clock, stamp |-> now[w], limit |-> policy[w].limit,
                     member |-> member[w]]
  BY DEF Admitted, Entry
<1>7. Admitted(w) \in CountedAdmissions
  BY <1>6, CallOf DEF CountedAdmissions
<1> QED
  BY <1>1, <1>3, <1>4, <1>5, <1>6, <1>7

LEMMA Deleted ==
    ASSUME Types, NEW r \in Resetters, Del(r)
    PROVE  /\ UNCHANGED <<clock, expireAt, seq, call>>
           /\ \A w \in Workers : pc'[w] = pc[w]
           /\ \A k \in found[r] \cap Keys : zset'[k] = {} /\ granted'[k] = <<>>
           /\ \A k \in Keys \ found[r] : zset'[k] = zset[k] /\ granted'[k] = granted[k]
           /\ \A w \in Workers : counted'[w] => counted[w] /\ key[w] \notin found[r]
           /\ \A w \in Workers : counted[w] /\ key[w] \notin found[r] => counted'[w]
<1>1. /\ UNCHANGED <<clock, expireAt, seq, call>>
      /\ \A k \in found[r] \cap Keys : zset'[k] = {} /\ granted'[k] = <<>>
      /\ \A k \in Keys \ found[r] : zset'[k] = zset[k] /\ granted'[k] = granted[k]
  BY DEF Del
<1>2. \A w \in Workers : pc'[w] = pc[w]
  BY RedisConstants DEF Del, Goto, Types, TypeOK
<1>3. counted' = [w \in Workers |-> counted[w] /\ key[w] \notin found[r]]
  BY DEF Del
<1>4. \A w \in Workers : counted'[w] = (counted[w] /\ key[w] \notin found[r])
  BY <1>3, Zenon
<1> QED
  BY <1>1, <1>2, <1>4

\* Deleting a key or not: its history is empty or as it was.
LEMMA DeletedHistory ==
    ASSUME Types, NEW r \in Resetters, Del(r), NEW k \in Keys
    PROVE  \/ DOMAIN granted'[k] = {} /\ zset'[k] = {}
           \/ granted'[k] = granted[k] /\ zset'[k] = zset[k] /\ k \notin found[r]
<1>1. DOMAIN <<>> = {}
  <2>1. <<>> \in Seq(Int) /\ Len(<<>>) = 0
    BY EmptySeq
  <2> QED
    BY <2>1, LenProperties
<1> QED
  BY <1>1, Deleted

\* The histories after the script: as they were, or one admission longer.
LEMMA RanHistory ==
    ASSUME Types, NEW w \in Workers, RunScript(w), NEW k \in Keys
    PROVE  \/ granted'[k] = granted[k]
           \/ /\ k = key[w] /\ Allows(w) /\ ~counted[w]
              /\ DOMAIN granted'[k] = 1 .. Len(granted[k]) + 1
              /\ \A i \in DOMAIN granted[k] : granted'[k][i] = granted[k][i]
              /\ granted'[k][Len(granted[k]) + 1] = Admitted(w)
<1>1. CASE UNCHANGED granted
  BY <1>1
<1>2. CASE /\ Allows(w) /\ ~counted[w]
           /\ granted' = [granted EXCEPT ![key[w]] = Append(granted[key[w]], Admitted(w))]
  <2>1. CASE k # key[w]
    BY <1>2, <2>1, CallOf DEF Types, TypeOK
  <2>2. CASE k = key[w]
    <3>1. granted'[k] = Append(granted[k], Admitted(w))
      BY <1>2, <2>2 DEF Types, TypeOK
    <3>2. granted[k] \in Seq(CountedAdmissions) /\ Admitted(w) \in CountedAdmissions
      BY Ran, HistoryOf
    <3> QED
      BY <1>2, <2>2, <3>1, <3>2, AppendedTo
  <2> QED
    BY <2>1, <2>2
<1> QED
  BY <1>1, <1>2, Ran

LEMMA NextIdentified ==
    ASSUME Types, Identified, [Next]_vars
    PROVE  Identified'
<1> USE RedisConstants
<1>1. CASE Tick
  BY <1>1 DEF Tick, Identified, Busy, call, ghost
<1>2. ASSUME NEW w \in Workers, NEW k \in Keys, NEW raw \in Policies, NEW t,
             Send(w, k, raw, t)
      PROVE  Identified'
  <2> DEFINE new == [instance |-> Home[w], seq |-> seq[Home[w]] + 1]
  <2>1. seq \in [Instances -> Nat] /\ Home[w] \in Instances
    BY DEF Types, TypeOK
  <2>2. seq' = [seq EXCEPT ![Home[w]] = seq[Home[w]] + 1]
    BY <1>2, Sent, Zenon
  <2>3. /\ seq'[Home[w]] = seq[Home[w]] + 1
        /\ \A i \in Instances : seq'[i] \in Nat /\ seq[i] \in Nat /\ seq[i] <= seq'[i]
    BY <2>1, <2>2
  <2>4. /\ member'[w] = new /\ granted' = granted
        /\ \A v \in Workers : v # w => member'[v] = member[v] /\ pc'[v] = pc[v]
    BY <1>2, Sent, Zenon
  <2>5. ASSUME NEW v \in Workers, pc'[v] # "idle"
        PROVE  member'[v].instance = Home[v] /\ member'[v].seq <= seq'[Home[v]]
    <3>1. CASE v = w
      BY <2>1, <2>3, <2>4, <3>1
    <3>2. CASE v # w
      <4>1. /\ member'[v] = member[v] /\ member[v].instance = Home[v]
            /\ member[v].seq <= seq[Home[v]] /\ member[v].seq \in Nat
        BY <2>4, <2>5, <3>2 DEF Identified, Busy, Types, TypeOK, Members
      <4> QED
        BY <2>3, <4>1
    <3> QED
      BY <3>1, <3>2
  <2>6. ASSUME NEW v \in Workers, pc'[v] # "idle", v # w
        PROVE  member'[v] # member'[w]
    <3>1. /\ member'[v] = member[v] /\ member[v].instance = Home[v]
          /\ member[v].seq <= seq[Home[v]] /\ member[v].seq \in Nat
      BY <2>4, <2>6 DEF Identified, Busy, Types, TypeOK, Members
    <3>2. new.seq = seq[Home[w]] + 1 /\ new.instance = Home[w]
      OBVIOUS
    <3> HIDE DEF new
    <3> QED
      BY <2>1, <2>4, <3>1, <3>2
  <2>7. ASSUME NEW u \in Workers, NEW v \in Workers, pc'[u] # "idle", pc'[v] # "idle",
               member'[u] = member'[v]
        PROVE  u = v
    BY <2>4, <2>6, <2>7 DEF Identified, Busy
  <2>8. ASSUME NEW j \in Keys, NEW i \in DOMAIN granted[j]
        PROVE  granted[j][i].member.seq <= seq'[granted[j][i].member.instance]
    <3>1. /\ granted[j][i].member.seq \in Nat /\ granted[j][i].member.instance \in Instances
          /\ granted[j][i].member.seq <= seq[granted[j][i].member.instance]
      BY HistoryOf DEF Identified
    <3> QED
      BY <2>3, <3>1
  <2> QED
    BY <2>4, <2>5, <2>7, <2>8 DEF Identified, Busy
<1>3. ASSUME NEW w \in Workers, RunScript(w) PROVE Identified'
  <2>1. seq' = seq /\ pc' = pc /\ member' = member /\ Busy(w)
    BY <1>3, Ran DEF call
  <2>2. ASSUME NEW j \in Keys, NEW i \in DOMAIN granted'[j]
        PROVE  granted'[j][i].member.seq <= seq[granted'[j][i].member.instance]
    <3>1. CASE granted'[j] = granted[j]
      BY <2>2, <3>1 DEF Identified
    <3>2. CASE /\ DOMAIN granted'[j] = 1 .. Len(granted[j]) + 1
               /\ \A n \in DOMAIN granted[j] : granted'[j][n] = granted[j][n]
               /\ granted'[j][Len(granted[j]) + 1] = Admitted(w)
      <4>1. i \in DOMAIN granted[j] \/ i = Len(granted[j]) + 1
        BY <2>2, <3>2, HistoryOf
      <4>2. CASE i \in DOMAIN granted[j]
        BY <3>2, <4>2 DEF Identified
      <4>3. CASE i = Len(granted[j]) + 1
        <5>1. granted'[j][i].member = member[w]
          BY <1>3, <3>2, <4>3, Ran
        <5> QED
          BY <2>1, <5>1 DEF Identified
      <4> QED
        BY <4>1, <4>2, <4>3
    <3> QED
      BY <1>3, <3>1, <3>2, RanHistory
  <2> QED
    BY <2>1, <2>2 DEF Identified, Busy
<1>4. ASSUME NEW r \in Resetters, Del(r) PROVE Identified'
  <2>1. seq' = seq /\ member' = member /\ \A w \in Workers : pc'[w] = pc[w]
    BY <1>4, Deleted DEF call
  <2>2. ASSUME NEW j \in Keys, NEW i \in DOMAIN granted'[j]
        PROVE  granted'[j][i].member.seq <= seq[granted'[j][i].member.instance]
    BY <1>4, <2>2, DeletedHistory DEF Identified
  <2> QED
    BY <2>1, <2>2 DEF Identified, Busy
<1>5. CASE Quiet
  BY <1>5 DEF Quiet, Identified, Busy, call, ghost
<1> QED
  BY <1>1, <1>2, <1>3, <1>4, <1>5, QuietSteps

LEMMA NextCredited ==
    ASSUME Types, Identified, Credited, [Next]_vars
    PROVE  Credited'
<1> USE RedisConstants
<1>1. CASE Tick
  BY <1>1 DEF Tick, Credited, Busy, call, ghost
<1>2. ASSUME NEW w \in Workers, NEW k \in Keys, NEW raw \in Policies, NEW t,
             Send(w, k, raw, t)
      PROVE  Credited'
  <2>1. /\ granted' = granted /\ ~counted'[w]
        /\ member'[w] = [instance |-> Home[w], seq |-> seq[Home[w]] + 1]
    BY <1>2, Sent
  <2>2. \A v \in Workers : v # w =>
            /\ member'[v] = member[v] /\ pc'[v] = pc[v] /\ key'[v] = key[v]
            /\ counted'[v] = counted[v] /\ now'[v] = now[v]
    BY <1>2, Sent, Zenon
  <2>3. ASSUME NEW j \in Keys, NEW i \in DOMAIN granted[j]
        PROVE  granted[j][i].member # member'[w]
    <3>1. /\ granted[j][i].member.seq \in Nat
          /\ granted[j][i].member.seq <= seq[granted[j][i].member.instance]
      BY HistoryOf DEF Identified
    <3>2. member'[w].instance = Home[w] /\ member'[w].seq = seq[Home[w]] + 1
      BY <2>1
    <3>3. seq[Home[w]] \in Nat
      BY DEF Types, TypeOK
    <3> QED
      BY <3>1, <3>2, <3>3
  <2>4. ASSUME NEW v \in Workers, pc'[v] # "idle", counted'[v]
        PROVE  \E i \in DOMAIN granted[key'[v]] : granted[key'[v]][i].member = member'[v]
    BY <2>1, <2>2, <2>4 DEF Credited, Busy
  <2>5. ASSUME NEW j \in Keys, NEW v \in Workers, NEW i \in DOMAIN granted[j],
               pc'[v] # "idle", granted[j][i].member = member'[v]
        PROVE  counted'[v] /\ key'[v] = j /\ granted[j][i].stamp = now'[v]
    BY <2>2, <2>3, <2>5 DEF Credited, Busy
  <2> QED
    BY <2>1, <2>4, <2>5 DEF Credited, Busy
<1>3. ASSUME NEW w \in Workers, RunScript(w) PROVE Credited'
  <2>1. /\ pc' = pc /\ member' = member /\ key' = key /\ now' = now /\ Busy(w)
        /\ key[w] \in Keys
    BY <1>3, Ran, CallOf DEF call
  <2>2. /\ counted[w] \/ Allows(w) => counted'[w]
        /\ counted'[w] => counted[w] \/ Allows(w)
        /\ \A v \in Workers : v # w => counted'[v] = counted[v]
    BY <1>3, Ran
  <2>3. /\ Admitted(w).member = member[w] /\ Admitted(w).stamp = now[w]
    BY <1>3, Ran
  \* an index of the new history is an old one or that of this admission
  <2>4. ASSUME NEW j \in Keys, NEW i \in DOMAIN granted'[j]
        PROVE  \/ i \in DOMAIN granted[j] /\ granted'[j][i] = granted[j][i]
               \/ /\ i = Len(granted[j]) + 1 /\ granted'[j][i] = Admitted(w)
                  /\ j = key[w] /\ Allows(w) /\ ~counted[w]
    BY <1>3, <2>4, RanHistory, HistoryOf
  <2>5. ASSUME NEW j \in Keys, NEW i \in DOMAIN granted[j]
        PROVE  i \in DOMAIN granted'[j] /\ granted'[j][i] = granted[j][i]
    BY <1>3, <2>5, RanHistory, HistoryOf
  <2>6. ASSUME NEW v \in Workers, Busy(v), counted'[v]
        PROVE  \E i \in DOMAIN granted'[key[v]] : granted'[key[v]][i].member = member[v]
    <3>1. key[v] \in Keys
      BY CallOf
    <3>2. CASE counted[v]
      <4>1. PICK i \in DOMAIN granted[key[v]] : granted[key[v]][i].member = member[v]
        BY <2>6, <3>2 DEF Credited
      <4> QED
        BY <2>5, <3>1, <4>1
    <3>3. CASE ~counted[v]
      <4>1. v = w /\ Allows(w) /\ ~counted[w]
        BY <2>2, <2>6, <3>3
      <4>2. granted' = [granted EXCEPT ![key[w]] = Append(granted[key[w]], Admitted(w))]
        BY <1>3, <4>1, Ran
      <4>3. granted'[key[w]] = Append(granted[key[w]], Admitted(w))
        BY <2>1, <4>2 DEF Types, TypeOK
      <4>4. /\ granted[key[w]] \in Seq(CountedAdmissions)
            /\ Admitted(w) \in CountedAdmissions
        BY <1>3, <2>1, Ran, HistoryOf
      <4>5. /\ Len(granted[key[w]]) + 1 \in DOMAIN granted'[key[w]]
            /\ granted'[key[w]][Len(granted[key[w]]) + 1] = Admitted(w)
        BY <4>3, <4>4, AppendedTo
      <4> QED
        BY <2>3, <4>1, <4>5
    <3> QED
      BY <3>2, <3>3
  <2>7. ASSUME NEW j \in Keys, NEW v \in Workers, NEW i \in DOMAIN granted'[j],
               Busy(v), granted'[j][i].member = member[v]
        PROVE  counted'[v] /\ key[v] = j /\ granted'[j][i].stamp = now[v]
    <3>1. CASE i \in DOMAIN granted[j] /\ granted'[j][i] = granted[j][i]
      BY <2>2, <2>7, <3>1 DEF Credited
    <3>2. CASE granted'[j][i] = Admitted(w) /\ j = key[w] /\ Allows(w)
      <4>1. v = w
        BY <2>1, <2>3, <2>7, <3>2 DEF Identified
      <4> QED
        BY <2>2, <2>3, <3>2, <4>1
    <3> QED
      BY <2>4, <3>1, <3>2
  <2>8. ASSUME NEW j \in Keys, NEW i \in DOMAIN granted'[j], NEW n \in DOMAIN granted'[j],
               granted'[j][i].member = granted'[j][n].member
        PROVE  i = n
    <3>1. ASSUME NEW a \in DOMAIN granted[j], granted[j][a].member = member[w] PROVE counted[w]
      BY <2>1, <3>1 DEF Credited
    <3> QED
      BY <2>3, <2>4, <2>8, <3>1 DEF Credited
  <2> QED
    BY <2>1, <2>6, <2>7, <2>8 DEF Credited, Busy
<1>4. ASSUME NEW r \in Resetters, Del(r) PROVE Credited'
  <2>1. /\ member' = member /\ key' = key /\ now' = now
        /\ \A w \in Workers : pc'[w] = pc[w]
    BY <1>4, Deleted DEF call
  <2>2. \A w \in Workers : counted'[w] => counted[w] /\ key[w] \notin found[r]
    BY <1>4, Deleted
  <2>3. \A w \in Workers : counted[w] /\ key[w] \notin found[r] => counted'[w]
    BY <1>4, Deleted
  <2>4. \A k \in Keys : \/ DOMAIN granted'[k] = {}
                        \/ granted'[k] = granted[k] /\ k \notin found[r]
    BY <1>4, DeletedHistory
  <2>5. ASSUME NEW w \in Workers, Busy(w), counted'[w]
        PROVE  \E i \in DOMAIN granted'[key[w]] : granted'[key[w]][i].member = member[w]
    <3>1. granted'[key[w]] = granted[key[w]]
      BY <1>4, <2>2, <2>5, Deleted, CallOf
    <3> QED
      BY <2>2, <2>5, <3>1 DEF Credited
  <2>6. ASSUME NEW j \in Keys, NEW v \in Workers, NEW i \in DOMAIN granted'[j],
               Busy(v), granted'[j][i].member = member[v]
        PROVE  counted'[v] /\ key[v] = j /\ granted'[j][i].stamp = now[v]
    BY <2>3, <2>4, <2>6 DEF Credited
  <2> QED
    BY <2>1, <2>4, <2>5, <2>6 DEF Credited, Busy
<1>5. CASE Quiet
  BY <1>5 DEF Quiet, Credited, Busy, call, ghost
<1> QED
  BY <1>1, <1>2, <1>3, <1>4, <1>5, QuietSteps

-----------------------------------------------------------------------------
(* The sorted set and the history. *)

LEMMA NextBacked ==
    ASSUME Types, Types', Punctual, Credited, Backed, [Next]_vars
    PROVE  Backed'
<1> USE RedisConstants
<1>0. clock \in Nat /\ \A k \in Keys : expireAt[k] \in Nat
  BY DEF Types, TypeOK
<1>1. CASE Tick
  <2>1. clock' = clock + 1 /\ zset' = zset /\ expireAt' = expireAt /\ granted' = granted
    BY <1>1 DEF Tick, redis, ghost
  <2>2. \A k \in Keys : \A e \in zset[k] : e.score \in Int
    BY SetOf
  <2> QED
    BY <1>0, <2>1, <2>2 DEF Backed
<1>2. ASSUME NEW w \in Workers, NEW k, NEW raw, NEW t, Send(w, k, raw, t) PROVE Backed'
  BY <1>2 DEF Send, Backed, redis
<1>3. ASSUME NEW w \in Workers, RunScript(w) PROVE Backed'
  <2>1. /\ key[w] \in Keys /\ now[w] \in Int /\ WindowMS(policy[w]) \in Nat
        /\ Entry(w) = [score |-> now[w], member |-> member[w]]
    BY CallOf
  <2>2. /\ now[w] <= clock + MaxAhead /\ ShortestWindow <= WindowMS(policy[w]) /\ Busy(w)
        /\ clock' = clock
    BY <1>3, Ran DEF Punctual
  <2>3. /\ zset' = [zset EXCEPT ![key[w]] = After(w)]
        /\ expireAt' = [expireAt EXCEPT ![key[w]] = clock + WindowMS(policy[w])]
    BY <1>3, Ran, Zenon
  <2>4. ASSUME NEW j \in Keys, NEW i \in DOMAIN granted[j]
        PROVE  i \in DOMAIN granted'[j] /\ granted'[j][i] = granted[j][i]
    BY <1>3, <2>4, RanHistory, HistoryOf
  <2>5. ASSUME Allows(w)
        PROVE  \E i \in DOMAIN granted'[key[w]] : Entry(w) = EntryOf(granted'[key[w]][i])
    <3>1. CASE counted[w]
      <4>1. PICK i \in DOMAIN granted[key[w]] : granted[key[w]][i].member = member[w]
        BY <2>2, <3>1 DEF Credited
      <4>2. granted[key[w]][i].stamp = now[w]
        BY <2>1, <2>2, <4>1 DEF Credited
      <4>3. Entry(w) = EntryOf(granted[key[w]][i])
        BY <2>1, <4>1, <4>2 DEF EntryOf
      <4> QED
        BY <2>1, <2>4, <4>1, <4>3
    <3>2. CASE ~counted[w]
      <4>1. granted' = [granted EXCEPT ![key[w]] = Append(granted[key[w]], Admitted(w))]
        BY <1>3, <2>5, <3>2, Ran
      <4>2. granted'[key[w]] = Append(granted[key[w]], Admitted(w))
        BY <2>1, <4>1 DEF Types, TypeOK
      <4>3. /\ granted[key[w]] \in Seq(CountedAdmissions)
            /\ Admitted(w) \in CountedAdmissions
        BY <1>3, <2>1, Ran, HistoryOf
      <4>4. /\ Len(granted[key[w]]) + 1 \in DOMAIN granted'[key[w]]
            /\ granted'[key[w]][Len(granted[key[w]]) + 1] = Admitted(w)
        BY <4>2, <4>3, AppendedTo
      <4>5. Entry(w) = EntryOf(Admitted(w))
        BY <1>3, <2>1, Ran DEF EntryOf
      <4> QED
        BY <4>4, <4>5
    <3> QED
      BY <3>1, <3>2
  <2>6. ASSUME NEW k \in Keys, NEW e \in zset'[k]
        PROVE  /\ \E i \in DOMAIN granted'[k] : e = EntryOf(granted'[k][i])
               /\ e.score <= clock + MaxAhead
               /\ e.score <= expireAt'[k] + MaxAhead - ShortestWindow
    <3>1. ASSUME e \in zset[k]
          PROVE  /\ \E i \in DOMAIN granted'[k] : e = EntryOf(granted'[k][i])
                 /\ e.score <= clock + MaxAhead /\ e.score \in Int
                 /\ e.score <= expireAt[k] + MaxAhead - ShortestWindow
      <4>1. PICK i \in DOMAIN granted[k] : e = EntryOf(granted[k][i])
        BY <3>1 DEF Backed
      <4>2. \E n \in DOMAIN granted'[k] : e = EntryOf(granted'[k][n])
        BY <2>4, <4>1
      <4> QED
        BY <3>1, <4>2, SetOf DEF Backed
    <3>2. CASE k # key[w]
      <4>1. zset'[k] = zset[k] /\ expireAt'[k] = expireAt[k]
        BY <2>1, <2>3, <3>2 DEF Types, TypeOK
      <4> QED
        BY <2>6, <3>1, <4>1
    <3>3. CASE k = key[w]
      <4>1. zset'[k] = After(w) /\ expireAt'[k] = clock + WindowMS(policy[w])
        BY <2>1, <2>3, <3>3 DEF Types, TypeOK
      <4>2. CASE e \in zset[k]
        BY <1>0, <2>1, <2>2, <3>1, <4>1, <4>2
      <4>3. CASE e \notin zset[k]
        <5>1. e = Entry(w) /\ Allows(w)
          BY <2>6, <3>3, <4>1, <4>3, ScriptOf, SetOf
        <5>2. e.score = now[w]
          BY <2>1, <5>1
        <5> QED
          BY <1>0, <2>1, <2>2, <2>5, <3>3, <4>1, <5>1, <5>2
      <4> QED
        BY <4>2, <4>3
    <3> QED
      BY <3>2, <3>3
  <2> QED
    BY <2>2, <2>6 DEF Backed
<1>4. ASSUME NEW r \in Resetters, Del(r) PROVE Backed'
  <2>1. clock' = clock /\ expireAt' = expireAt
    BY <1>4, Deleted
  <2>2. \A k \in Keys : \/ zset'[k] = {}
                        \/ granted'[k] = granted[k] /\ zset'[k] = zset[k]
    BY <1>4, DeletedHistory
  <2> QED
    BY <2>1, <2>2 DEF Backed
<1>5. CASE Quiet
  BY <1>5 DEF Quiet, Backed, redis, ghost
<1> QED
  BY <1>1, <1>2, <1>3, <1>4, <1>5, QuietSteps

\* What of a key's set a script removes has left every window in use.
LEMMA NextCounted ==
    ASSUME Types, Punctual, Credited, Backed, AdmissionsAreCounted, [Next]_vars
    PROVE  AdmissionsAreCounted'
<1> USE RedisConstants
<1>0. clock \in Nat /\ \A k \in Keys : expireAt[k] \in Nat
  BY DEF Types, TypeOK
<1>1. CASE Tick
  <2>1. clock' = clock + 1 /\ zset' = zset /\ expireAt' = expireAt /\ granted' = granted
    BY <1>1 DEF Tick, redis, ghost
  <2> SUFFICES ASSUME NEW k \in Keys, NEW i \in DOMAIN granted[k]
               PROVE  \/ EntryOf(granted[k][i]) \in Live(k)'
                      \/ granted[k][i].stamp <= clock' + MaxAhead - ShortestWindow
    BY <2>1 DEF AdmissionsAreCounted, EntryOf
  <2>2. granted[k][i].stamp \in Int
    BY HistoryOf
  <2>3. CASE granted[k][i].stamp <= clock + MaxAhead - ShortestWindow
    BY <1>0, <2>1, <2>2, <2>3
  <2>4. CASE EntryOf(granted[k][i]) \in Live(k)
    <3>1. CASE clock + 1 > expireAt[k]
      <4>1. EntryOf(granted[k][i]) \in zset[k]
        BY <2>4, SetOf
      <4>2. EntryOf(granted[k][i]).score <= expireAt[k] + MaxAhead - ShortestWindow
        BY <4>1 DEF Backed
      <4>3. EntryOf(granted[k][i]).score = granted[k][i].stamp
        BY DEF EntryOf
      <4> QED
        BY <1>0, <2>1, <2>2, <3>1, <4>2, <4>3
    <3>2. CASE ~(clock + 1 > expireAt[k])
      <4>1. Live(k)' = zset[k]
        BY <2>1, <3>2 DEF Live
      <4> QED
        BY <2>4, <4>1, SetOf
    <3> QED
      BY <3>1, <3>2
  <2> QED
    BY <2>3, <2>4 DEF AdmissionsAreCounted, EntryOf
<1>2. ASSUME NEW w \in Workers, NEW k, NEW raw, NEW t, Send(w, k, raw, t)
      PROVE  AdmissionsAreCounted'
  BY <1>2 DEF Send, AdmissionsAreCounted, Live, redis
<1>3. ASSUME NEW w \in Workers, RunScript(w) PROVE AdmissionsAreCounted'
  <2>1. /\ key[w] \in Keys /\ now[w] \in Int /\ WindowMS(policy[w]) \in Nat
        /\ Entry(w) = [score |-> now[w], member |-> member[w]]
    BY CallOf
  <2>2. /\ now[w] <= clock + MaxAhead /\ ShortestWindow <= WindowMS(policy[w]) /\ Busy(w)
        /\ clock' = clock
    BY <1>3, Ran DEF Punctual
  <2>3. /\ zset' = [zset EXCEPT ![key[w]] = After(w)]
        /\ expireAt' = [expireAt EXCEPT ![key[w]] = clock + WindowMS(policy[w])]
    BY <1>3, Ran, Zenon
  <2>4. ASSUME NEW k \in Keys, k = key[w] PROVE Live(k)' = After(w)
    <3>1. zset'[k] = After(w) /\ expireAt'[k] = clock + WindowMS(policy[w])
      BY <2>1, <2>3, <2>4 DEF Types, TypeOK
    <3>2. ~(clock' > expireAt'[k])
      BY <1>0, <2>1, <2>2, <3>1
    <3> QED
      BY <3>1, <3>2 DEF Live
  <2>5. ASSUME NEW k \in Keys, k # key[w] PROVE Live(k)' = Live(k)
    BY <2>1, <2>2, <2>3, <2>5 DEF Live, Types, TypeOK
  \* an admission of before
  <2>6. ASSUME NEW k \in Keys, NEW i \in DOMAIN granted[k]
        PROVE  \/ EntryOf(granted[k][i]) \in Live(k)'
               \/ granted[k][i].stamp <= clock + MaxAhead - ShortestWindow
    <3>1. CASE granted[k][i].stamp <= clock + MaxAhead - ShortestWindow
      BY <3>1
    <3>2. CASE EntryOf(granted[k][i]) \in Live(k) /\ k # key[w]
      BY <2>5, <3>2
    <3>3. CASE EntryOf(granted[k][i]) \in Live(k) /\ k = key[w]
      <4>0. /\ EntryOf(granted[k][i]).score = granted[k][i].stamp
            /\ EntryOf(granted[k][i]).member = granted[k][i].member
            /\ granted[k][i].stamp \in Int
        BY HistoryOf DEF EntryOf
      <4>1. CASE EntryOf(granted[k][i]) \notin Kept(w)
        <5>1. ~(EntryOf(granted[k][i]).score > now[w] - WindowMS(policy[w]))
          BY <3>3, <4>1 DEF Kept
        <5> QED
          BY <1>0, <2>1, <2>2, <4>0, <5>1
      <4>2. CASE EntryOf(granted[k][i]) \in Kept(w) /\ granted[k][i].member # member[w]
        <5>1. EntryOf(granted[k][i]) \in After(w)
          BY <2>1, <4>0, <4>2 DEF After, ZAdd
        <5> QED
          BY <2>4, <3>3, <5>1
      <4>3. CASE EntryOf(granted[k][i]) \in Kept(w) /\ granted[k][i].member = member[w]
        <5>1. granted[k][i].stamp = now[w]
          BY <2>2, <4>3 DEF Credited
        <5>2. EntryOf(granted[k][i]) = Entry(w)
          BY <2>1, <4>3, <5>1 DEF EntryOf
        <5>3. EntryOf(granted[k][i]) \in After(w)
          BY <4>3, <5>2, ScriptOf
        <5> QED
          BY <2>4, <3>3, <5>3
      <4> QED
        BY <4>1, <4>2, <4>3
    <3> QED
      BY <3>1, <3>2, <3>3 DEF AdmissionsAreCounted, EntryOf
  <2>7. ASSUME NEW k \in Keys, NEW i \in DOMAIN granted'[k]
        PROVE  \/ EntryOf(granted'[k][i]) \in Live(k)'
               \/ granted'[k][i].stamp <= clock + MaxAhead - ShortestWindow
    <3>1. CASE i \in DOMAIN granted[k] /\ granted'[k][i] = granted[k][i]
      BY <2>6, <3>1
    <3>2. CASE granted'[k][i] = Admitted(w) /\ k = key[w] /\ Allows(w)
      <4>1. EntryOf(Admitted(w)) = Entry(w)
        BY <1>3, <2>1, Ran DEF EntryOf
      <4>2. Entry(w) \in After(w)
        BY <3>2, ScriptOf
      <4> QED
        BY <2>4, <3>2, <4>1, <4>2
    <3> QED
      BY <1>3, <2>7, <3>1, <3>2, RanHistory, HistoryOf
  <2> QED
    BY <2>2, <2>7 DEF AdmissionsAreCounted, EntryOf
<1>4. ASSUME NEW r \in Resetters, Del(r) PROVE AdmissionsAreCounted'
  <2>1. clock' = clock /\ expireAt' = expireAt
    BY <1>4, Deleted
  <2>2. \A k \in Keys : \/ DOMAIN granted'[k] = {}
                        \/ granted'[k] = granted[k] /\ zset'[k] = zset[k]
    BY <1>4, DeletedHistory
  <2> QED
    BY <2>1, <2>2 DEF AdmissionsAreCounted, Live
<1>5. CASE Quiet
  BY <1>5 DEF Quiet, AdmissionsAreCounted, Live, redis, ghost
<1> QED
  BY <1>1, <1>2, <1>3, <1>4, <1>5, QuietSteps

LEMMA NextPaced ==
    ASSUME Types, Punctual, Paced, [Next]_vars
    PROVE  Paced'
<1> USE RedisConstants
<1>0. clock \in Nat
  BY DEF Types, TypeOK
<1>1. CASE Tick
  <2>1. clock' = clock + 1 /\ granted' = granted
    BY <1>1 DEF Tick, ghost
  <2>2. \A k \in Keys : \A i \in DOMAIN granted[k] : granted[k][i].at \in Nat
    BY HistoryOf
  <2> QED
    BY <1>0, <2>1, <2>2 DEF Paced
<1>2. ASSUME NEW w \in Workers, NEW k, NEW raw, NEW t, Send(w, k, raw, t) PROVE Paced'
  BY <1>2 DEF Send, Paced
<1>3. ASSUME NEW w \in Workers, RunScript(w) PROVE Paced'
  <2>1. clock' = clock /\ Busy(w)
    BY <1>3, Ran
  <2>2. /\ Admitted(w).at = clock /\ Admitted(w).stamp = now[w] /\ now[w] \in Int
    BY <1>3, Ran, CallOf
  <2>3. clock <= now[w] + MaxDelay
    BY <2>1 DEF Punctual
  <2>4. ASSUME NEW k \in Keys, NEW i \in DOMAIN granted'[k]
        PROVE  \/ i \in DOMAIN granted[k] /\ granted'[k][i] = granted[k][i]
               \/ i = Len(granted[k]) + 1 /\ granted'[k][i] = Admitted(w)
    BY <1>3, <2>4, RanHistory, HistoryOf
  <2>5. ASSUME NEW k \in Keys, NEW i \in DOMAIN granted'[k]
        PROVE  /\ granted'[k][i].at <= clock
               /\ granted'[k][i].at <= granted'[k][i].stamp + MaxDelay
    BY <1>0, <2>2, <2>3, <2>4, <2>5 DEF Paced
  <2>6. ASSUME NEW k \in Keys, NEW i \in DOMAIN granted'[k], NEW j \in DOMAIN granted'[k],
               j <= i
        PROVE  granted'[k][j].at <= granted'[k][i].at
    <3>1. CASE i \in DOMAIN granted[k] /\ granted'[k][i] = granted[k][i]
      <4>1. j \in DOMAIN granted[k] /\ granted'[k][j] = granted[k][j]
        BY <2>4, <2>6, <3>1, HistoryOf
      <4> QED
        BY <2>6, <3>1, <4>1 DEF Paced
    <3>2. CASE granted'[k][i] = Admitted(w)
      BY <2>2, <2>5, <3>2
    <3> QED
      BY <2>4, <3>1, <3>2
  <2> QED
    BY <2>1, <2>5, <2>6 DEF Paced
<1>4. ASSUME NEW r \in Resetters, Del(r) PROVE Paced'
  <2>1. clock' = clock
    BY <1>4, Deleted
  <2>2. \A k \in Keys : DOMAIN granted'[k] = {} \/ granted'[k] = granted[k]
    BY <1>4, DeletedHistory
  <2> QED
    BY <2>1, <2>2 DEF Paced
<1>5. CASE Quiet
  BY <1>5 DEF Quiet, Paced, ghost
<1> QED
  BY <1>1, <1>2, <1>3, <1>4, <1>5, QuietSteps

(***************************************************************************)
(* The pigeonhole: more admissions than the script counts members, so one  *)
(* of them has left every window in use.                                   *)
(***************************************************************************)
LEMMA OneIsOld ==
    ASSUME Types, Punctual, Credited, AdmissionsAreCounted,
           NEW w \in Workers, Busy(w), NEW k \in Keys, k = key[w],
           NEW m \in Nat, m >= 1, m <= Len(granted[k]),
           Cardinality(Kept(w)) < Len(granted[k]) - m + 1
    PROVE  \E i \in DOMAIN granted[k] :
                m <= i /\ granted[k][i].stamp <= clock + MaxAhead - ShortestWindow
<1> USE RedisConstants
<1>1. PICK n \in Nat : n = Len(granted[k]) /\ DOMAIN granted[k] = 1 .. n
  BY HistoryOf
<1> SUFFICES ASSUME \A i \in m .. n :
                      ~(granted[k][i].stamp <= clock + MaxAhead - ShortestWindow)
             PROVE  FALSE
  BY <1>1
<1>2. /\ now[w] \in Int /\ WindowMS(policy[w]) \in Nat /\ clock \in Nat
      /\ now[w] <= clock + MaxAhead /\ ShortestWindow <= WindowMS(policy[w])
  BY CallOf DEF Punctual
<1>3. ASSUME NEW i \in m .. n PROVE EntryOf(granted[k][i]) \in Kept(w)
  <2>1. i \in DOMAIN granted[k] /\ granted[k][i].stamp \in Int
    BY <1>1, HistoryOf
  <2>2. EntryOf(granted[k][i]) \in Live(k)
    BY <2>1 DEF AdmissionsAreCounted, EntryOf
  <2>3. EntryOf(granted[k][i]).score > now[w] - WindowMS(policy[w])
    <3>1. EntryOf(granted[k][i]).score = granted[k][i].stamp
      BY DEF EntryOf
    <3>2. granted[k][i].stamp > clock + MaxAhead - ShortestWindow
      <4> DEFINE s == granted[k][i].stamp
                 c == clock + MaxAhead - ShortestWindow
      <4>1. ~(s <= c)
        OBVIOUS
      <4>2. s \in Int /\ c \in Int
        BY <1>2, <2>1
      <4> HIDE DEF s, c
      <4>3. s > c
        BY <4>1, <4>2
      <4> QED
        BY <4>3 DEF s, c
    <3> QED
      BY <1>2, <2>1, <3>1, <3>2
  <2> QED
    BY <2>2, <2>3 DEF Kept
<1> DEFINE f == [i \in m .. n |-> EntryOf(granted[k][i])]
<1>4. f \in [m .. n -> Kept(w)]
  BY <1>3
<1>5. ASSUME NEW i \in m .. n, NEW j \in m .. n, f[i] = f[j] PROVE i = j
  <2>1. EntryOf(granted[k][i]).member = EntryOf(granted[k][j]).member
    BY <1>5
  <2>2. granted[k][i].member = granted[k][j].member
    BY <2>1 DEF EntryOf
  <2> QED
    BY <1>1, <2>2 DEF Credited
<1>6. IsFiniteSet(Kept(w)) /\ Cardinality(Kept(w)) \in Nat
  BY ScriptOf
<1>7. IsFiniteSet(m .. n) /\ Cardinality(m .. n) = n - m + 1
  BY <1>1, FS_Interval
<1> HIDE DEF f
<1>8. Cardinality(Kept(w)) < Cardinality(m .. n)
  BY <1>1, <1>7
<1>9. \E i, j \in m .. n : i # j /\ f[i] = f[j]
  BY <1>4, <1>6, <1>7, <1>8, FS_PigeonHole
<1> QED
  BY <1>5, <1>9

LEMMA NextSpread ==
    ASSUME Types, Punctual, Credited, AdmissionsAreCounted, Paced, Spread, [Next]_vars
    PROVE  Spread'
<1> USE RedisConstants
<1>1. CASE Tick
  BY <1>1 DEF Tick, Spread, ghost
<1>2. ASSUME NEW w \in Workers, NEW k, NEW raw, NEW t, Send(w, k, raw, t) PROVE Spread'
  BY <1>2 DEF Send, Spread
<1>3. ASSUME NEW w \in Workers, RunScript(w) PROVE Spread'
  <2> SUFFICES ASSUME NEW k \in Keys, NEW i \in DOMAIN granted'[k], NEW j,
                      j = i - granted'[k][i].limit, j >= 1
               PROVE  granted'[k][i].at - granted'[k][j].at
                        >= ShortestWindow - MaxDelay - MaxAhead
    BY DEF Spread
  <2>1. PICK n \in Nat : n = Len(granted[k]) /\ DOMAIN granted[k] = 1 .. n
    BY HistoryOf
  <2>2. CASE granted'[k] = granted[k]
    BY <2>2 DEF Spread
  <2>3. CASE /\ k = key[w] /\ Allows(w)
             /\ DOMAIN granted'[k] = 1 .. n + 1
             /\ \A a \in 1 .. n : granted'[k][a] = granted[k][a]
             /\ granted'[k][n + 1] = Admitted(w)
    <3>1. /\ clock \in Nat /\ policy[w].limit \in Nat /\ policy[w].limit >= 1
          /\ Admitted(w).at = clock /\ Admitted(w).limit = policy[w].limit /\ Busy(w)
      BY <1>3, CallOf, Ran
    <3>2. CASE i \in 1 .. n
      <4>1. granted'[k][i] = granted[k][i] /\ granted[k][i].limit \in Nat
        BY <2>1, <2>3, <3>2, HistoryOf
      <4>2. j \in 1 .. n /\ j = i - granted[k][i].limit
        BY <2>1, <3>2, <4>1
      <4>3. granted'[k][j] = granted[k][j]
        BY <2>3, <4>2
      <4>4. granted[k][i].at - granted[k][j].at >= ShortestWindow - MaxDelay - MaxAhead
        BY <2>1, <3>2, <4>2 DEF Spread
      <4> QED
        BY <4>1, <4>3, <4>4
    <3>3. CASE i = n + 1
      <4>1. granted'[k][i].at = clock /\ granted'[k][i].limit = policy[w].limit
        BY <2>3, <3>1, <3>3
      <4>2. j \in 1 .. n /\ j = n + 1 - policy[w].limit
        BY <2>1, <3>1, <3>3, <4>1
      <4>3. Cardinality(Kept(w)) < n - j + 1
        <5>1. Cardinality(Kept(w)) < policy[w].limit
          BY <2>3 DEF Allows
        <5>2. Cardinality(Kept(w)) \in Nat
          BY <3>1, ScriptOf
        <5> QED
          BY <2>1, <3>1, <4>2, <5>1, <5>2
      <4>4. PICK o \in 1 .. n :
              j <= o /\ granted[k][o].stamp <= clock + MaxAhead - ShortestWindow
        <5>1. j \in Nat /\ j >= 1 /\ j <= Len(granted[k])
          BY <2>1, <4>2
        <5>2. k = key[w] /\ Busy(w) /\ Cardinality(Kept(w)) < Len(granted[k]) - j + 1
          BY <2>1, <2>3, <3>1, <4>3
        <5>3. \E o \in DOMAIN granted[k] :
                j <= o /\ granted[k][o].stamp <= clock + MaxAhead - ShortestWindow
          BY <5>1, <5>2, OneIsOld, Zenon
        <5> QED
          BY <2>1, <5>3
      <4>5. /\ granted[k][j].at \in Nat /\ granted[k][o].at \in Nat
            /\ granted[k][o].stamp \in Int
        BY <2>1, <4>2, HistoryOf
      <4>6. /\ granted[k][o].at <= granted[k][o].stamp + MaxDelay
            /\ granted[k][j].at <= granted[k][o].at
        BY <2>1, <4>2, <4>4 DEF Paced
      <4>7. clock - granted[k][j].at >= ShortestWindow - MaxDelay - MaxAhead
        BY <3>1, <4>4, <4>5, <4>6
      <4>8. granted'[k][j] = granted[k][j]
        BY <2>3, <4>2
      <4> QED
        BY <4>1, <4>7, <4>8
    <3> QED
      BY <2>1, <2>3, <3>2, <3>3
  <2> QED
    BY <1>3, <2>1, <2>2, <2>3, RanHistory
<1>4. ASSUME NEW r \in Resetters, Del(r) PROVE Spread'
  <2>1. \A k \in Keys : DOMAIN granted'[k] = {} \/ granted'[k] = granted[k]
    BY <1>4, DeletedHistory
  <2> QED
    BY <2>1 DEF Spread
<1>5. CASE Quiet
  BY <1>5 DEF Quiet, Spread, ghost
<1> QED
  BY <1>1, <1>2, <1>3, <1>4, <1>5, QuietSteps

-----------------------------------------------------------------------------
LEMMA InitInv == Init => RedisInv
<1> SUFFICES ASSUME Init PROVE RedisInv
  OBVIOUS
<1>1. \A w \in Workers : ~Busy(w)
  BY DEF Init, Busy
<1>2. \A k \in Keys : zset[k] = {} /\ DOMAIN granted[k] = {}
  <2>1. <<>> \in Seq(Int) /\ Len(<<>>) = 0
    BY EmptySeq
  <2>2. DOMAIN <<>> = {}
    BY <2>1, LenProperties
  <2> QED
    BY <2>2 DEF Init
<1>3. Punctual
  BY <1>1 DEF Punctual
<1>4. Identified /\ Credited
  BY <1>1, <1>2 DEF Identified, Credited
<1>5. Backed /\ Paced /\ AdmissionsAreCounted /\ Spread
  BY <1>2 DEF Backed, Paced, AdmissionsAreCounted, Spread
<1> QED
  BY <1>3, <1>4, <1>5, InitTyped DEF RedisInv

LEMMA Invariance == Spec => []RedisInv
<1>1. RedisInv /\ [Next]_vars => RedisInv'
  <2> SUFFICES ASSUME RedisInv, [Next]_vars PROVE RedisInv'
    OBVIOUS
  <2>1. Types'
    BY NextTyped DEF RedisInv
  <2>2. Punctual' /\ Identified' /\ Credited'
    BY NextPunctual, NextIdentified, NextCredited DEF RedisInv
  <2>3. Backed' /\ AdmissionsAreCounted'
    BY <2>1, NextBacked, NextCounted DEF RedisInv
  <2>4. Paced' /\ Spread'
    BY NextPaced, NextSpread DEF RedisInv
  <2> QED
    BY <2>1, <2>2, <2>3, <2>4 DEF RedisInv
<1> QED
  BY <1>1, InitInv, PTL DEF Spec

(***************************************************************************)
(* The types of redis.go's calls and of the sorted sets hold throughout;   *)
(* a policy is enforceable when the script sees it (Allow's Normalize).    *)
(***************************************************************************)
THEOREM RedisIsTyped == Spec => []TypeOK
<1>1. RedisInv => TypeOK
  BY DEF RedisInv, Types
<1> QED
  BY <1>1, Invariance, PTL

(***************************************************************************)
(* All instances together enforce one limit per key: no more admissions    *)
(* than the limit fit into less than a window, up to skew and delay        *)
(* (allowScript), however often commands are resent and whoever resets.    *)
(***************************************************************************)
THEOREM RedisKeepsWindows == Spec => []WindowBound
<1>1. RedisInv => WindowBound
  <2> SUFFICES ASSUME RedisInv, NEW k \in Keys
               PROVE  AtMostLimitWithin(granted[k], ShortestWindow - MaxDelay - MaxAhead)
    BY DEF WindowBound
  <2>1. PICK n \in Nat : n = Len(granted[k]) /\ DOMAIN granted[k] = 1 .. n
    BY HistoryOf DEF RedisInv
  <2>2. \A i \in 1 .. n : granted[k][i].at \in Int /\ granted[k][i].limit \in Nat
    BY <2>1, HistoryOf DEF RedisInv
  <2>3. ShortestWindow - MaxDelay - MaxAhead \in Int
    BY RedisConstants
  <2>4. Apart(granted[k], ShortestWindow - MaxDelay - MaxAhead)
    <3>1. \A i \in 1 .. n : \A j \in 1 .. i : granted[k][j].at <= granted[k][i].at
      BY <2>1 DEF RedisInv, Paced
    <3> QED
      BY <2>1, <3>1 DEF RedisInv, Spread, Apart
  <2> QED
    BY <2>1, <2>2, <2>3, <2>4, ApartCounts
<1> QED
  BY <1>1, Invariance, PTL

(***************************************************************************)
(* No admission is forgotten, by ZREMRANGEBYSCORE, ZADD or PEXPIRE, before *)
(* it has left every window in use.                                        *)
(***************************************************************************)
THEOREM RedisCountsAdmissions == Spec => []AdmissionsAreCounted
<1>1. RedisInv => AdmissionsAreCounted
  BY DEF RedisInv
<1> QED
  BY <1>1, Invariance, PTL

(***************************************************************************)
(* A call takes one slot however often its command is resent, and no two   *)
(* calls share one (RedisLimiter.seq, ARGV[4]).                            *)
(***************************************************************************)
THEOREM RedisCallTakesOneSlot == Spec => []OneSlotPerCall
<1>1. RedisInv => OneSlotPerCall
  <2> SUFFICES ASSUME RedisInv, NEW k \in Keys
               PROVE  /\ \A i, j \in DOMAIN granted[k] :
                            granted[k][i].member = granted[k][j].member => i = j
                      /\ \A e \in Live(k) : \E i \in DOMAIN granted[k] :
                            granted[k][i].member = e.member
    BY DEF OneSlotPerCall
  <2>1. \A i, j \in DOMAIN granted[k] : granted[k][i].member = granted[k][j].member => i = j
    BY DEF RedisInv, Credited
  <2>2. ASSUME NEW e \in Live(k)
        PROVE  \E i \in DOMAIN granted[k] : granted[k][i].member = e.member
    <3>1. e \in zset[k]
      BY SetOf DEF RedisInv
    <3>2. PICK i \in DOMAIN granted[k] : e = EntryOf(granted[k][i])
      BY <3>1 DEF RedisInv, Backed
    <3>3. e.member = granted[k][i].member
      BY <3>2 DEF EntryOf
    <3> QED
      BY <3>3
  <2> QED
    BY <2>1, <2>2
<1> QED
  BY <1>1, Invariance, PTL

-----------------------------------------------------------------------------
(* What the script replies to a refused call. *)

\* A set of entries after some instant has an oldest one.
LEMMA OldestOf ==
    ASSUME NEW S, S # {}, NEW c \in Int, \A e \in S : e.score \in Int /\ e.score > c
    PROVE  /\ Oldest(S) \in Int
           /\ \A e \in S : Oldest(S) <= e.score
           /\ \E e \in S : e.score = Oldest(S)
<1> DEFINE T == {x \in Nat : \E e \in S : e.score = c + x}
<1>1. T # {} /\ T \subseteq Nat
  <2>1. PICK e \in S : TRUE
    OBVIOUS
  <2>2. e.score - c \in Nat /\ e.score = c + (e.score - c)
    OBVIOUS
  <2> QED
    BY <2>2
<1>2. PICK m \in T : \A x \in T : ~(<<x, m>> \in OpToRel(<, Nat))
  BY <1>1, WFMin, NatLessThanWellFounded
<1>3. \A x \in T : ~(x < m)
  BY <1>2 DEF OpToRel
<1>4. ASSUME NEW e \in S PROVE c + m <= e.score
  <2>1. PICK x \in Nat : e.score = c + x
    <3>1. e.score - c \in Nat /\ e.score = c + (e.score - c)
      OBVIOUS
    <3> QED
      BY <3>1
  <2>2. x \in T /\ m \in Nat
    BY <2>1
  <2>3. ~(x < m)
    BY <1>3, <2>2
  <2> HIDE DEF T
  <2> QED
    BY <2>1, <2>2, <2>3
<1>5. c + m \in Scores(S) /\ \A r \in Scores(S) : c + m <= r
  BY <1>4 DEF Scores
<1>6. Oldest(S) \in Scores(S) /\ \A r \in Scores(S) : Oldest(S) <= r
  BY <1>5 DEF Oldest
<1> QED
  BY <1>6 DEF Scores

LEMMA RefusedOf ==
    ASSUME RedisInv, NEW w \in Workers, Pending(w), ~Reply(w).allowed
    PROVE  /\ Busy(w) /\ policy[w].limit \in Nat /\ policy[w].limit >= 1
           /\ IsFiniteSet(Kept(w)) /\ Cardinality(Kept(w)) \in Nat
           /\ Oldest(Kept(w)) \in Int /\ WindowMS(policy[w]) \in Nat /\ now[w] \in Int
           /\ \A e \in Kept(w) : e.score \in Int /\ Oldest(Kept(w)) <= e.score
           /\ \E e \in Kept(w) : e.score = Oldest(Kept(w))
           /\ Reply(w).reset = Oldest(Kept(w)) + WindowMS(policy[w]) - now[w]
           /\ Reply(w).reset >= 1
           /\ Oldest(Kept(w)) <= clock + MaxAhead /\ clock \in Nat
<1> USE DEF RedisInv
<1>1. /\ key[w] \in Keys /\ now[w] \in Int /\ WindowMS(policy[w]) \in Nat /\ clock \in Nat
      /\ policy[w].limit \in Nat /\ policy[w].limit >= 1
  BY CallOf
<1>2. ~Allows(w)
  BY DEF Reply
<1>3. /\ IsFiniteSet(Kept(w)) /\ Cardinality(Kept(w)) \in Nat /\ After(w) = Kept(w)
      /\ Kept(w) \subseteq zset[key[w]]
  BY <1>1, <1>2, ScriptOf, SetOf
<1>4. Kept(w) # {}
  <2> SUFFICES ASSUME Kept(w) = {} PROVE FALSE
    OBVIOUS
  <2>1. Cardinality(Kept(w)) = 0
    BY FS_EmptySet
  <2> QED
    BY <1>1, <1>2, <2>1 DEF Allows
<1>5. now[w] - WindowMS(policy[w]) \in Int
  BY <1>1
<1>6. \A e \in Kept(w) : e.score \in Int /\ e.score > now[w] - WindowMS(policy[w])
  BY <1>1, <1>3, SetOf DEF Kept
<1>7. /\ Oldest(Kept(w)) \in Int
      /\ \A e \in Kept(w) : Oldest(Kept(w)) <= e.score
      /\ \E e \in Kept(w) : e.score = Oldest(Kept(w))
  BY <1>4, <1>5, <1>6, OldestOf
<1>8. Oldest(Kept(w)) > now[w] - WindowMS(policy[w])
  BY <1>6, <1>7
<1>9. Reply(w).reset = ResetIn(w)
  BY DEF Reply
<1>10. ResetIn(w) = NonNegative(Oldest(Kept(w)) + WindowMS(policy[w]) - now[w])
  BY <1>3, Zenon DEF ResetIn
<1>11. /\ Reply(w).reset = Oldest(Kept(w)) + WindowMS(policy[w]) - now[w]
       /\ Reply(w).reset >= 1
  BY <1>1, <1>7, <1>8, <1>9, <1>10 DEF NonNegative
<1>12. Oldest(Kept(w)) <= clock + MaxAhead
  <2>1. PICK e \in Kept(w) : e.score = Oldest(Kept(w))
    BY <1>7
  <2>2. e \in zset[key[w]]
    BY <1>3
  <2> QED
    BY <1>1, <2>1, <2>2 DEF Backed
<1>13. Busy(w)
  BY DEF Pending, Busy
<1> QED
  BY <1>1, <1>3, <1>6, <1>7, <1>11, <1>12, <1>13

(***************************************************************************)
(* RetryAfter, the script's reset_ms, is positive and at most a window     *)
(* plus what the callers' clocks may differ.                               *)
(***************************************************************************)
THEOREM RedisRetryIsBounded == Spec => []RetryAfterBounded
<1>1. RedisInv => RetryAfterBounded
  <2> SUFFICES ASSUME RedisInv, NEW w \in Workers, Pending(w), ~Reply(w).allowed
               PROVE  Reply(w).reset \in 1 .. WindowMS(policy[w]) + MaxDelay + MaxAhead
    BY DEF RetryAfterBounded
  <2>1. /\ Busy(w) /\ Oldest(Kept(w)) \in Int /\ WindowMS(policy[w]) \in Nat /\ now[w] \in Int
        /\ Reply(w).reset = Oldest(Kept(w)) + WindowMS(policy[w]) - now[w]
        /\ Reply(w).reset >= 1
        /\ Oldest(Kept(w)) <= clock + MaxAhead /\ clock \in Nat
    BY RefusedOf
  <2>2. clock <= now[w] + MaxDelay
    BY <2>1 DEF RedisInv, Punctual
  <2> QED
    BY <2>1, <2>2, RedisConstants
<1> QED
  BY <1>1, Invariance, PTL

(***************************************************************************)
(* While all policies in use have the same limit L, a set never holds more *)
(* than L members.                                                         *)
(***************************************************************************)
NotOverfull(L) == \A k \in Keys : Cardinality(zset[k]) <= L

Uniform(L) == \A w \in Workers : Busy(w) => policy[w].limit = L

LEMMA NextNotOverfull ==
    ASSUME NEW L \in Nat, \A raw \in Policies : Normalize(raw).limit = L,
           Types, Types', NotOverfull(L), Uniform(L), [Next]_vars
    PROVE  NotOverfull(L)' /\ Uniform(L)'
<1> USE RedisConstants
<1>1. CASE Tick
  BY <1>1 DEF Tick, NotOverfull, Uniform, Busy, redis, call
<1>2. ASSUME NEW w \in Workers, NEW k \in Keys, NEW raw \in Policies, NEW t,
             Send(w, k, raw, t)
      PROVE  NotOverfull(L)' /\ Uniform(L)'
  <2>1. NotOverfull(L)'
    BY <1>2 DEF Send, NotOverfull, redis
  <2>2. policy'[w] = Normalize(raw)
    BY <1>2, Sent, Zenon
  <2>3. \A v \in Workers : v # w => policy'[v] = policy[v] /\ pc'[v] = pc[v]
    BY <1>2, Sent, Zenon
  <2> QED
    BY <2>1, <2>2, <2>3 DEF Uniform, Busy
<1>3. ASSUME NEW w \in Workers, RunScript(w) PROVE NotOverfull(L)' /\ Uniform(L)'
  <2>1. pc' = pc /\ policy' = policy /\ Busy(w)
    BY <1>3, Ran DEF call
  <2>2. zset' = [zset EXCEPT ![key[w]] = After(w)]
    BY <1>3, Ran, Zenon
  <2>3. key[w] \in Keys /\ policy[w].limit = L
    BY <2>1, CallOf DEF Uniform
  <2>4. Cardinality(After(w)) <= L
    <3>1. CASE Allows(w)
      BY <2>3, <3>1, ScriptOf DEF Allows
    <3>2. CASE ~Allows(w)
      <4>1. After(w) \in SUBSET zset[key[w]] /\ IsFiniteSet(zset[key[w]])
        BY <2>3, <3>2, ScriptOf, SetOf
      <4>2. /\ Cardinality(After(w)) <= Cardinality(zset[key[w]])
            /\ Cardinality(After(w)) \in Nat /\ Cardinality(zset[key[w]]) \in Nat
        BY <4>1, FS_Subset, FS_CardinalityType
      <4> QED
        BY <2>3, <4>2 DEF NotOverfull
    <3> QED
      BY <3>1, <3>2
  <2>5. NotOverfull(L)'
    BY <2>2, <2>3, <2>4 DEF NotOverfull, Types, TypeOK
  <2> QED
    BY <2>1, <2>5 DEF Uniform, Busy
<1>4. ASSUME NEW r \in Resetters, Del(r) PROVE NotOverfull(L)' /\ Uniform(L)'
  <2>1. policy' = policy /\ \A w \in Workers : pc'[w] = pc[w]
    BY <1>4, Deleted DEF call
  <2>2. \A k \in Keys : zset'[k] = {} \/ zset'[k] = zset[k]
    BY <1>4, DeletedHistory
  <2> QED
    BY <2>1, <2>2, FS_EmptySet DEF NotOverfull, Uniform, Busy
<1>5. CASE Quiet
  BY <1>5 DEF Quiet, NotOverfull, Uniform, Busy, redis, call
<1> QED
  BY <1>1, <1>2, <1>3, <1>4, <1>5, QuietSteps

(***************************************************************************)
(* ResetAt frees a slot while all policies in use have the same limit: the *)
(* members are then at most the limit, and the oldest is gone at ResetAt   *)
(* whichever instance stamped it.                                          *)
(***************************************************************************)
THEOREM RedisResetFreesSlot ==
    ASSUME NEW L \in Nat, \A raw \in Policies : Normalize(raw).limit = L
    PROVE  Spec => []ResetFreesSlot
<1> DEFINE Inv == Types /\ NotOverfull(L) /\ Uniform(L)
<1>1. Init => Inv
  <2> SUFFICES ASSUME Init PROVE Inv
    OBVIOUS
  <2>1. \A k \in Keys : zset[k] = {}
    BY DEF Init
  <2> QED
    BY <2>1, InitTyped, FS_EmptySet DEF Init, NotOverfull, Uniform, Busy
<1>2. Inv /\ [Next]_vars => Inv'
  BY NextTyped, NextNotOverfull
<1>3. Inv /\ RedisInv => ResetFreesSlot
  <2> SUFFICES ASSUME Inv, RedisInv PROVE ResetFreesSlot
    OBVIOUS
  <2> SUFFICES ASSUME NEW w \in Workers, Pending(w), ~Reply(w).allowed
               PROVE  Cardinality({e \in Kept(w) :
                          e.score > (now[w] + Reply(w).reset) - WindowMS(policy[w])})
                        < policy[w].limit
    BY Zenon DEF ResetFreesSlot
  <2>1. /\ Busy(w) /\ policy[w].limit \in Nat /\ policy[w].limit >= 1
        /\ IsFiniteSet(Kept(w)) /\ Cardinality(Kept(w)) \in Nat
        /\ Oldest(Kept(w)) \in Int /\ WindowMS(policy[w]) \in Nat /\ now[w] \in Int
        /\ \A e \in Kept(w) : e.score \in Int /\ Oldest(Kept(w)) <= e.score
        /\ Reply(w).reset = Oldest(Kept(w)) + WindowMS(policy[w]) - now[w]
    BY RefusedOf
  <2>2. PICK old \in Kept(w) : old.score = Oldest(Kept(w))
    BY RefusedOf
  <2>3. (now[w] + Reply(w).reset) - WindowMS(policy[w]) = old.score /\ old.score \in Int
    BY <2>1, <2>2
  <2> DEFINE later == {e \in Kept(w) :
                          e.score > (now[w] + Reply(w).reset) - WindowMS(policy[w])}
  <2>4. later \in SUBSET (Kept(w) \ {old})
    BY <2>3
  <2>5. /\ IsFiniteSet(Kept(w) \ {old})
        /\ Cardinality(Kept(w) \ {old}) = Cardinality(Kept(w)) - 1
    BY <2>1, <2>2, FS_RemoveElement
  <2> HIDE DEF later
  <2>6. Cardinality(later) <= Cardinality(Kept(w)) - 1 /\ Cardinality(later) \in Nat
    BY <2>4, <2>5, FS_Subset, FS_CardinalityType
  <2>7. Cardinality(Kept(w)) <= L
    <3>1. key[w] \in Keys
      BY CallOf
    <3>2. Kept(w) \in SUBSET zset[key[w]] /\ IsFiniteSet(zset[key[w]])
      BY <3>1, ScriptOf, SetOf
    <3>3. /\ Cardinality(Kept(w)) <= Cardinality(zset[key[w]])
          /\ Cardinality(zset[key[w]]) \in Nat
      BY <3>2, FS_Subset, FS_CardinalityType
    <3>4. Cardinality(zset[key[w]]) <= L
      BY <3>1 DEF NotOverfull
    <3> QED
      BY <2>1, <3>3, <3>4
  <2>8. policy[w].limit = L
    BY <2>1 DEF Uniform
  <2>9. Cardinality(later) < policy[w].limit
    BY <2>1, <2>6, <2>7, <2>8
  <2> QED
    BY <2>9, Zenon DEF later
<1> HIDE DEF Inv
<1> QED
  BY <1>1, <1>2, <1>3, Invariance, PTL DEF Spec
=============================================================================
