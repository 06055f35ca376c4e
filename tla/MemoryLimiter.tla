--------------------------- MODULE MemoryLimiter ---------------------------
(***************************************************************************)
(* internal/limiter/memory.go: the process-local sliding-window limiter.   *)
(*                                                                         *)
(* Request goroutines (Workers) run Allow and Peek, callers of the         *)
(* dashboard's "clear clients" (Resetters) run Reset, and one Janitor runs *)
(* cleanup on a ticker until Close.  They share a sync.Map from keys to    *)
(* entries; an entry's fields are guarded by its mutex, except lastSeen,   *)
(* which is atomic, and an entry may be retired (dead) by one goroutine    *)
(* while another already holds a pointer to it.                            *)
(*                                                                         *)
(* A step is what one goroutine does between two points where another can  *)
(* interfere: a sync.Map operation, an atomic store, or a whole critical   *)
(* section of an entry's mutex.  Entry identities are reused once nothing  *)
(* refers to them, as the garbage collector allows.                        *)
(*                                                                         *)
(* granted and kills are history variables: the code has no such state.    *)
(***************************************************************************)
EXTENDS SlidingWindow

CONSTANTS
    Keys, Workers, Resetters, Janitor,
    Entries,         \* identities of memEntry objects
    NoEntry,         \* the nil pointer
    MinTTL,          \* minTTL: an entry idle for less is never evicted
    MaxAttempts,     \* the attempt on which Allow stops retrying (8)
    MaxScan          \* longest time a cleanup takes

Scanners == Resetters \cup {Janitor}

Procs == Workers \cup Scanners

ASSUME MemoryAssumption ==
    /\ Keys # {}
    /\ MinTTL \in Nat \ {0} /\ MaxAttempts \in Nat \ {0} /\ MaxScan \in Nat
    /\ NoEntry \notin Entries
    /\ Janitor \notin Resetters /\ Workers \cap Scanners = {}
    \* the epoch lies further back than any idle period, so that the zero
    \* lastSeen of a new entry always looks idle
    /\ StartClock > MinTTL /\ StartClock > 2 * MaxWindow

VARIABLES
    clock,      \* time.Now
    entries,    \* sync.Map: key -> entry, NoEntry when absent
    hits,       \* memEntry.hits
    window,     \* memEntry.window, the window last applied
    dead,       \* memEntry.dead
    lastSeen,   \* memEntry.lastSeen
    pc,         \* where each goroutine is
    key,        \* the key it works on
    ptr,        \* the entry it holds a pointer to
    now,        \* the instant its call read from the clock
    policy,     \* Allow, Peek: the normalised policy of the call
    attempt,    \* Allow: the loop counter
    left,       \* Range: the keys still to visit
    stopped,    \* the stop channel is closed
    granted,    \* per key, the counted admissions since its last Reset
    kills       \* per worker, retirements of its key during the call

heap  == <<hits, window, dead, lastSeen>>
local == <<key, now, policy>>
ghost == <<granted, kills>>
vars  == <<clock, entries, heap, pc, local, ptr, attempt, left, stopped, ghost>>

\* The stamps that count for a key: those of the entry the map holds for it,
\* unless it is retired.
LiveHits(k) ==
    IF entries[k] = NoEntry \/ dead[entries[k]] THEN <<>> ELSE hits[entries[k]]

Log == INSTANCE WindowLog WITH log <- [k \in Keys |-> LiveHits(k)]

Free(e) == (\A k \in Keys : entries[k] # e) /\ (\A p \in Procs : ptr[p] # e)

MaxOf(a, b) == IF a >= b THEN a ELSE b
MinOf(a, b) == IF a <= b THEN a ELSE b

-----------------------------------------------------------------------------
Init ==
    /\ clock = StartClock
    /\ entries = [k \in Keys |-> NoEntry]
    /\ hits = [e \in Entries |-> <<>>]
    /\ window = [e \in Entries |-> 0]
    /\ dead = [e \in Entries |-> FALSE]
    /\ lastSeen = [e \in Entries |-> 0]
    \* a non-positive interval starts no janitor
    /\ \E j \in {"idle", "exited"} :
        pc = [p \in Procs |-> IF p = Janitor THEN j ELSE "idle"]
    /\ key = [p \in Procs |-> CHOOSE k \in Keys : TRUE]
    /\ ptr = [p \in Procs |-> NoEntry]
    /\ now = [p \in Procs |-> StartClock]
    /\ policy = [w \in Workers |-> [limit |-> 1, window |-> DefaultWindow]]
    /\ attempt = [w \in Workers |-> 0]
    /\ left = [s \in Scanners |-> {}]
    /\ stopped = FALSE
    /\ granted = [k \in Keys |-> <<>>]
    /\ kills = [w \in Workers |-> 0]

-----------------------------------------------------------------------------
(***************************************************************************)
(* Time passes, but never so much that a request in flight decides for an  *)
(* instant more than MaxDelay ago: MaxDelay bounds the time the scheduler  *)
(* keeps a goroutine between its reading the clock and its lock section.   *)
(* MaxScan bounds a cleanup in the same way; no property depends on it.    *)
(***************************************************************************)
Tick ==
    /\ clock < MaxClock
    /\ \A w \in Workers : pc[w] # "idle" => clock + 1 - now[w] <= MaxDelay
    /\ pc[Janitor] \notin {"idle", "exited"} => clock + 1 - now[Janitor] <= MaxScan
    /\ clock' = clock + 1
    /\ UNCHANGED <<entries, heap, pc, local, ptr, attempt, left, stopped, ghost>>

CompareAndDelete(k, e) ==
    entries' = [entries EXCEPT ![k] = IF @ = e THEN NoEntry ELSE @]

Goto(p, label) == pc' = [pc EXCEPT ![p] = label]

Point(p, e) == ptr' = [ptr EXCEPT ![p] = e]

Release(p, label) == Point(p, NoEntry) /\ Goto(p, label)

-----------------------------------------------------------------------------
(* Allow *)

BeginAllow(w, k, raw) ==
    /\ pc[w] = "idle"
    /\ Goto(w, "load")
    /\ key' = [key EXCEPT ![w] = k]
    /\ policy' = [policy EXCEPT ![w] = Normalize(raw)]
    /\ now' = [now EXCEPT ![w] = clock]
    /\ attempt' = [attempt EXCEPT ![w] = 0]
    /\ kills' = [kills EXCEPT ![w] = 0]
    /\ UNCHANGED <<clock, entries, heap, ptr, left, stopped, granted>>

\* LoadOrStore finds an entry, or publishes a new one.
LoadHit(w) ==
    /\ pc[w] = "load"
    /\ entries[key[w]] # NoEntry
    /\ Point(w, entries[key[w]])
    /\ Goto(w, "seen")
    /\ UNCHANGED <<clock, entries, heap, local, attempt, left, stopped, ghost>>

LoadMiss(w) ==
    /\ pc[w] = "load"
    /\ entries[key[w]] = NoEntry
    /\ \E e \in Entries : Free(e)
    /\ LET e == CHOOSE e \in Entries : Free(e) IN
        /\ entries' = [entries EXCEPT ![key[w]] = e]
        /\ hits' = [hits EXCEPT ![e] = <<>>]
        /\ window' = [window EXCEPT ![e] = 0]
        /\ dead' = [dead EXCEPT ![e] = FALSE]
        /\ lastSeen' = [lastSeen EXCEPT ![e] = 0]
        /\ Point(w, e)
    /\ Goto(w, "seen")
    /\ UNCHANGED <<clock, local, attempt, left, stopped, ghost>>

\* e.lastSeen.Store(nowNS), outside the lock and with the instant of the call.
StoreLastSeen(w) ==
    /\ pc[w] = "seen"
    /\ lastSeen' = [lastSeen EXCEPT ![ptr[w]] = now[w]]
    /\ Goto(w, "lock")
    /\ UNCHANGED <<clock, entries, hits, window, dead, local, ptr, attempt, left,
                   stopped, ghost>>

\* The critical section: the entry was retired meanwhile, or the request is
\* admitted and counted, or refused.
MeetDead(w) ==
    /\ pc[w] = "lock"
    /\ dead[ptr[w]]
    /\ Goto(w, "drop")
    /\ UNCHANGED <<clock, entries, heap, local, ptr, attempt, left, stopped, ghost>>

Kept(w) == Prune(hits[ptr[w]], now[w] - policy[w].window)

Verdict(w) == Decide(hits[ptr[w]], policy[w], now[w])

CountRequest(w) ==
    /\ pc[w] = "lock"
    /\ Verdict(w).allowed
    /\ window' = [window EXCEPT ![ptr[w]] = policy[w].window]
    /\ hits' = [hits EXCEPT ![ptr[w]] = Append(Kept(w), now[w])]
    /\ granted' = [granted EXCEPT ![key[w]] =
                      Append(@, Admission(clock, now[w], policy[w].limit))]
    /\ Release(w, "idle")
    /\ UNCHANGED <<clock, entries, dead, lastSeen, local, attempt, left, stopped, kills>>

\* Fault: the entry is not checked for being dead.
AdmitUnchecked(w) == CountRequest(w)

Admit(w) == CountRequest(w) /\ ~dead[ptr[w]]

Refuse(w) ==
    /\ pc[w] = "lock"
    /\ ~dead[ptr[w]]
    /\ ~Verdict(w).allowed
    /\ window' = [window EXCEPT ![ptr[w]] = policy[w].window]
    /\ hits' = [hits EXCEPT ![ptr[w]] = Kept(w)]
    /\ Release(w, "idle")
    /\ UNCHANGED <<clock, entries, dead, lastSeen, local, attempt, left, stopped, ghost>>

LoadAgain(w, n) ==
    /\ pc[w] = "drop"
    /\ Release(w, "load")
    /\ attempt' = [attempt EXCEPT ![w] = n]
    /\ UNCHANGED <<clock, heap, local, left, stopped, ghost>>

\* Fault: one attempt too many.
RetryOnceMore(w) ==
    attempt[w] <= MaxAttempts /\ CompareAndDelete(key[w], ptr[w]) /\ LoadAgain(w, attempt[w] + 1)

\* Fault: the retired entry is left to whoever retired it.
RetryInPlace(w) ==
    attempt[w] < MaxAttempts /\ UNCHANGED entries /\ LoadAgain(w, attempt[w] + 1)

\* Fault: the attempts are not counted.
RetryForever(w) == CompareAndDelete(key[w], ptr[w]) /\ LoadAgain(w, attempt[w])

\* A retired entry is taken out of the map and the lookup repeated ...
Retry(w) ==
    attempt[w] < MaxAttempts /\ CompareAndDelete(key[w], ptr[w]) /\ LoadAgain(w, attempt[w] + 1)

\* ... until the last attempt, which decides on an entry nobody else can see:
\* empty, so the request is admitted, and garbage afterwards, so uncounted.
AdmitDetached(w) ==
    /\ pc[w] = "drop"
    /\ attempt[w] >= MaxAttempts
    /\ Decide(<<>>, policy[w], now[w]).allowed
    /\ CompareAndDelete(key[w], ptr[w])
    /\ Release(w, "idle")
    /\ UNCHANGED <<clock, heap, local, attempt, left, stopped, ghost>>

-----------------------------------------------------------------------------
(***************************************************************************)
(* Peek: an unknown key is answered at once and changes nothing.  The code *)
(* reads the clock just after the lookup; an entry retired in between is   *)
(* dead, and what is pruned from it no longer matters.                     *)
(***************************************************************************)

BeginPeek(w, k, raw) ==
    /\ pc[w] = "idle"
    /\ entries[k] # NoEntry
    /\ Point(w, entries[k])
    /\ key' = [key EXCEPT ![w] = k]
    /\ policy' = [policy EXCEPT ![w] = Normalize(raw)]
    /\ now' = [now EXCEPT ![w] = clock]
    /\ Goto(w, "peek")
    /\ UNCHANGED <<clock, entries, heap, attempt, left, stopped, ghost>>

PeekPrune(w) ==
    /\ pc[w] = "peek"
    /\ hits' = [hits EXCEPT ![ptr[w]] = Kept(w)]
    /\ Release(w, "idle")
    /\ UNCHANGED <<clock, entries, window, dead, lastSeen, local, attempt, left,
                   stopped, ghost>>

-----------------------------------------------------------------------------
(***************************************************************************)
(* Reset and cleanup range over the map: every key is visited at most      *)
(* once, in any order, with the entry it has when it is visited.           *)
(***************************************************************************)
StartScan(s) ==
    /\ pc[s] = "idle"
    /\ now' = [now EXCEPT ![s] = clock]
    /\ left' = [left EXCEPT ![s] = Keys]
    /\ Goto(s, "range")
    /\ UNCHANGED <<clock, entries, heap, key, policy, ptr, attempt, stopped, ghost>>

\* Fault: a visited key is visited again.
VisitForever(s, k) ==
    /\ pc[s] = "range"
    /\ k \in left[s]
    /\ entries[k] # NoEntry
    /\ key' = [key EXCEPT ![s] = k]
    /\ Point(s, entries[k])
    /\ Goto(s, "lock")
    /\ UNCHANGED <<clock, entries, heap, now, policy, attempt, left, stopped, ghost>>

Visit(s, k) ==
    /\ pc[s] = "range"
    /\ k \in left[s]
    /\ left' = [left EXCEPT ![s] = @ \ {k}]
    /\ IF entries[k] = NoEntry
       THEN UNCHANGED <<key, ptr, pc>>
       ELSE /\ key' = [key EXCEPT ![s] = k]
            /\ Point(s, entries[k])
            /\ Goto(s, "lock")
    /\ UNCHANGED <<clock, entries, heap, now, policy, attempt, stopped, ghost>>

EndScan(s) ==
    /\ pc[s] = "range"
    /\ left[s] = {}
    /\ Goto(s, "idle")
    /\ UNCHANGED <<clock, entries, heap, local, ptr, attempt, left, stopped, ghost>>

\* Fault: the entry is removed without being marked.
RetireUnmarked(s) ==
    /\ UNCHANGED <<dead, kills>>
    /\ Goto(s, "drop")

\* Marking the entry dead retires it for every request that holds it.
Retire(s) ==
    /\ dead' = [dead EXCEPT ![ptr[s]] = TRUE]
    /\ kills' = [w \in Workers |->
                   IF pc[w] # "idle" /\ key[w] = key[s] /\ ~dead[ptr[s]]
                   THEN MinOf(kills[w] + 1, MaxAttempts)
                   ELSE kills[w]]
    /\ Goto(s, "drop")

ResetMark(s) ==
    /\ pc[s] = "lock"
    /\ Retire(s)
    /\ granted' = [granted EXCEPT ![key[s]] = IF dead[ptr[s]] THEN @ ELSE <<>>]
    /\ UNCHANGED <<clock, entries, hits, window, lastSeen, local, ptr, attempt, left,
                   stopped>>

\* Fault: the idle time ignores the entry's own window.
TTLFlat(e) == MaxOf(0, MinTTL)

TTL(e) == MaxOf(2 * window[e], MinTTL)

IdleEntry(s) == now[s] - lastSeen[ptr[s]] > TTL(ptr[s])

Evict ==
    /\ pc[Janitor] = "lock"
    /\ IdleEntry(Janitor)
    /\ Retire(Janitor)
    /\ hits' = [hits EXCEPT ![ptr[Janitor]] = <<>>]
    /\ UNCHANGED <<clock, entries, window, lastSeen, local, ptr, attempt, left,
                   stopped, granted>>

CleanupPrune ==
    LET e == ptr[Janitor] IN
    /\ pc[Janitor] = "lock"
    /\ ~IdleEntry(Janitor)
    /\ hits' = [hits EXCEPT ![e] = Prune(@, now[Janitor] - window[e])]
    /\ Release(Janitor, "range")
    /\ UNCHANGED <<clock, entries, window, dead, lastSeen, local, attempt, left,
                   stopped, ghost>>

\* Fault: a marked entry is left in the map for the next cleanup.
ScanLeave(s) ==
    /\ pc[s] = "drop"
    /\ Release(s, "range")
    /\ UNCHANGED <<clock, entries, heap, local, attempt, left, stopped, ghost>>

\* CompareAndDelete after the unlock.
ScanDelete(s) ==
    /\ pc[s] = "drop"
    /\ CompareAndDelete(key[s], ptr[s])
    /\ Release(s, "range")
    /\ UNCHANGED <<clock, heap, local, attempt, left, stopped, ghost>>

-----------------------------------------------------------------------------
\* Close, once; the janitor leaves when its select sees the closed channel.
Close ==
    /\ ~stopped
    /\ stopped' = TRUE
    /\ UNCHANGED <<clock, entries, heap, pc, local, ptr, attempt, left, ghost>>

JanitorExit ==
    /\ pc[Janitor] = "idle"
    /\ stopped
    /\ Goto(Janitor, "exited")
    /\ UNCHANGED <<clock, entries, heap, local, ptr, attempt, left, stopped, ghost>>

WorkerStep(w) ==
    \/ LoadHit(w) \/ LoadMiss(w) \/ StoreLastSeen(w)
    \/ MeetDead(w) \/ Admit(w) \/ Refuse(w)
    \/ Retry(w) \/ AdmitDetached(w) \/ PeekPrune(w)

ScanStep(s) ==
    \/ \E k \in Keys : Visit(s, k)
    \/ EndScan(s)
    \/ s \in Resetters /\ ResetMark(s)
    \/ s = Janitor /\ (Evict \/ CleanupPrune)
    \/ ScanDelete(s)

Next ==
    \/ Tick
    \/ \E w \in Workers :
        \/ \E k \in Keys, raw \in Policies : BeginAllow(w, k, raw) \/ BeginPeek(w, k, raw)
        \/ WorkerStep(w)
    \/ \E s \in Scanners : StartScan(s) \/ ScanStep(s)
    \/ Close
    \/ JanitorExit

Spec == Init /\ [][Next]_vars

(***************************************************************************)
(* Every goroutine that is inside a call keeps running, and no mutex is    *)
(* held across a step.  The janitor's select draws at random between a     *)
(* tick and the closed stop channel, so it cannot always miss the latter.  *)
(***************************************************************************)
Fairness ==
    /\ \A w \in Workers : WF_vars(WorkerStep(w))
    /\ \A s \in Scanners : WF_vars(ScanStep(s))
    /\ SF_vars(JanitorExit)

FairSpec == Spec /\ Fairness

-----------------------------------------------------------------------------
HeapTypes ==
    /\ entries \in [Keys -> Entries \cup {NoEntry}]
    /\ hits \in [Entries -> Seq(Int)]
    /\ window \in [Entries -> Nat]
    /\ dead \in [Entries -> BOOLEAN]
    /\ lastSeen \in [Entries -> Nat]

Labels == {"idle", "load", "seen", "lock", "drop", "peek", "range", "exited"}

ProcTypes ==
    /\ pc \in [Procs -> Labels]
    /\ key \in [Procs -> Keys]
    /\ ptr \in [Procs -> Entries \cup {NoEntry}]
    /\ now \in [Procs -> Nat]
    /\ policy \in [Workers -> EnforcedPolicies]
    /\ attempt \in [Workers -> 0 .. MaxAttempts]
    /\ left \in [Scanners -> SUBSET Keys]

(***************************************************************************)
(* The types; in particular Allow makes at most MaxAttempts retries.       *)
(***************************************************************************)
TypeOK ==
    /\ clock \in Nat
    /\ HeapTypes
    /\ ProcTypes
    /\ stopped \in BOOLEAN
    /\ granted \in [Keys -> Seq(Admissions)]
    /\ kills \in [Workers -> 0 .. MaxAttempts]

(***************************************************************************)
(* The dead flag does its job: an entry that a goroutine loaded and that   *)
(* is not dead when it takes the lock (Allow's check) is still the one the *)
(* map holds for the key, so no request is counted on an entry that the    *)
(* janitor, a Reset or another request's CompareAndDelete has detached.    *)
(***************************************************************************)
LiveIsMapped ==
    \A p \in Procs : ptr[p] # NoEntry /\ ~dead[ptr[p]] => entries[key[p]] = ptr[p]

(***************************************************************************)
(* Eviction and Reset mark first and remove later: a dead entry that is    *)
(* still in the map always has a goroutine about to remove it, so the map  *)
(* keeps no entry that every later Allow would have to retry on.           *)
(***************************************************************************)
ZombieIsBeingRemoved ==
    \A k \in Keys : entries[k] # NoEntry /\ dead[entries[k]] =>
        \E p \in Procs : pc[p] = "drop" /\ ptr[p] = entries[k]

(***************************************************************************)
(* What the limiter is for: looking back over less than a window from any  *)
(* admission, there are no more counted admissions of its key since the    *)
(* last Reset than its limit.  This is real time: the window is shorter by *)
(* the delay of a call, because calls read the clock before they lock and  *)
(* the janitor evicts with a clock of its own.                             *)
(***************************************************************************)
WindowBound ==
    \A k \in Keys : AtMostLimitWithin(granted[k], ShortestWindow - MaxDelay)

(***************************************************************************)
(* No admission is forgotten while it matters: the hits of the live entry  *)
(* are the latest admissions of the key, and every admission that prune or *)
(* an eviction has dropped is out of every window in use.                  *)
(***************************************************************************)
LogMatchesGranted ==
    \A k \in Keys : Timely(granted[k], clock) /\ SuffixOf(granted[k], LiveHits(k), clock)

(***************************************************************************)
(* "hits stores the nanosecond timestamps of the requests still inside the *)
(* window, in ascending order" (memEntry, on which prune's "single scan    *)
(* from the front" relies).  Violated: two calls append in the order of    *)
(* their lock sections, not in that of their clock readings.               *)
(***************************************************************************)
HitsAscending ==
    \A e \in Entries : \A i, j \in DOMAIN hits[e] : i < j => hits[e][i] <= hits[e][j]

Deciding(w) == pc[w] = "lock" /\ ~dead[ptr[w]]

(***************************************************************************)
(* A refused client is told to come back later, never at once and never    *)
(* after more than a window and the delay of a call (deny's RetryAfter).   *)
(***************************************************************************)
RetryAfterBounded ==
    \A w \in Workers : Deciding(w) /\ ~Verdict(w).allowed =>
        Verdict(w).retryAfter \in 1 .. policy[w].window + MaxDelay

(***************************************************************************)
(* "ResetAt is the instant at which the window frees up at least one slot" *)
(* (Decision): a client refused now and deciding again at ResetAt, with no *)
(* other request in between, is admitted.  Holds while the limit stays the *)
(* same, whatever SetPolicy does to the window, and not when it lowers the *)
(* limit below what the window already holds.                              *)
(***************************************************************************)
ResetFreesSlot ==
    \A w \in Workers : Deciding(w) /\ ~Verdict(w).allowed =>
        Decide(Kept(w), policy[w], Verdict(w).resetAt).allowed

(***************************************************************************)
(* Allow retries, and in the end admits uncounted, only because the key is *)
(* really retired again and again during the call.  The first dead entry   *)
(* it meets may have been retired before; each one after that is a         *)
(* retirement during the call, because a dead entry is removed before the  *)
(* next lookup.  So the uncounted admission takes MaxAttempts of them.     *)
(***************************************************************************)
RetriesAreCaused ==
    \A w \in Workers : pc[w] = "drop" => kills[w] >= attempt[w]

(***************************************************************************)
(* The concurrent limiter behaves like one log per key that every decision *)
(* reads and updates in one step (the lock section of Allow).              *)
(***************************************************************************)
Refinement == Log!Spec

(***************************************************************************)
(* Allow, Peek and Reset return: no request spins on retired entries, not  *)
(* even under endless Resets and evictions.                                *)
(***************************************************************************)
CallsReturn ==
    \A p \in Workers \cup Resetters : pc[p] # "idle" ~> pc[p] = "idle"

\* How far a goroutine is from the end of its attempt, and of its call.
Stage(label) ==
    CASE label = "load" -> 5 [] label = "seen" -> 4 [] label = "lock" -> 3
      [] label = "drop" -> 2 [] label \in {"peek", "range"} -> 1 [] OTHER -> 0

StepsLeft(w) == 4 * (MaxAttempts - attempt[w]) + Stage(pc[w])

Advance ==
    /\ \A w \in Workers : pc[w] # "idle" =>
        \/ UNCHANGED <<pc[w], attempt[w]>>
        \/ StepsLeft(w)' < StepsLeft(w)
    /\ \A s \in Scanners : pc[s] # "idle" =>
        \/ UNCHANGED <<pc[s], left[s]>>
        \/ left'[s] \subseteq left[s] /\ left'[s] # left[s]
        \/ left'[s] = left[s] /\ Stage(pc'[s]) < Stage(pc[s])

(***************************************************************************)
(* Why they return: whatever the others do, every step of a call brings it *)
(* nearer to its end.  Allow never goes back to an attempt, nor Reset and  *)
(* cleanup to a key, and nobody sends another goroutine back.              *)
(***************************************************************************)
CallsAdvance == [][Advance]_vars

(***************************************************************************)
(* Close's wait ends: the janitor leaves even if it was in a cleanup.      *)
(***************************************************************************)
CloseStopsJanitor == stopped ~> pc[Janitor] = "exited"
=============================================================================
