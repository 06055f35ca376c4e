----------------------------- MODULE Collector -----------------------------
(***************************************************************************)
(* internal/metrics/metrics.go: the request counters, the ring of          *)
(* per-second buckets and the client table behind the dashboard.           *)
(*                                                                         *)
(* Recorders are request goroutines inside Record.  Beside them the Keeper *)
(* runs a Snapshot, a Sweep or a ResetClients, one at a time: the first    *)
(* only reads and the others only delete from the table, so they do not    *)
(* disturb each other.  The counters are atomics, added to and loaded one  *)
(* by one; the ring has a mutex, and so has each client row; the table is  *)
(* a sync.Map, one step per operation (a Range that only counts or         *)
(* collects is one step).  A row outlives its entry in the table for as    *)
(* long as a Recorder holds it.  The latency sums are left out.            *)
(***************************************************************************)
EXTENDS Integers, Sequences, FiniteSets, FiniteSetsExt

CONSTANTS
    Recorders,
    Keys, NoKey,     \* client keys, and the key of an event without one
    Events,          \* what may be recorded: [key, allowed, error]
    RingLen,         \* seconds of history
    ClientTTL,
    MaxClients, CapSlack,  \* 500 and 64 in the code
    MaxTime, MaxEvents,    \* bounds
    MaxDelay         \* seconds a Record may take; see SeriesExact

ASSUME CollectorAssumption ==
    /\ IsFiniteSet(Recorders) /\ NoKey \notin Keys
    /\ Events \subseteq [key : Keys \cup {NoKey}, allowed : BOOLEAN, error : BOOLEAN]
    /\ RingLen \in Nat \ {0} /\ MaxDelay \in 0 .. RingLen - 1
    /\ {ClientTTL, MaxClients, MaxTime} \subseteq Nat \ {0}
    /\ {CapSlack, MaxEvents} \subseteq Nat

VARIABLES
    clock,    \* seconds, from 1; 0 is the second of an unused bucket
    counter,  \* the atomics
    ring,     \* series: index -> bucket
    table,    \* clients: key -> row, or 0
    row,      \* every row ever made, numbered by the event that made it
    rec,      \* where each Recorder is
    keeper,   \* where the Keeper is
    events,   \* events begun
    perSecond \* history: events entered into the series, by their second

vars == <<clock, counter, ring, table, row, rec, keeper, events, perSecond>>

Counters == {"total", "allowed", "blocked", "errors", "latCount"}

Bucket(ts) == [ts |-> ts, total |-> 0, allowed |-> 0, blocked |-> 0, errors |-> 0]

Never == -ClientTTL - 1  \* the zero time: before every cutoff

NewRow == [requests |-> 0, allowed |-> 0, blocked |-> 0, lastSeen |-> Never]

Idle == [pc |-> "idle"]

Init ==
    /\ clock = 1
    /\ counter = [c \in Counters |-> 0]
    /\ ring = [i \in 0 .. RingLen - 1 |-> Bucket(0)]
    /\ table = [k \in Keys |-> 0]
    /\ row = [e \in 1 .. MaxEvents |-> NewRow]
    /\ rec = [r \in Recorders |-> Idle]
    /\ keeper = Idle
    /\ events = 0
    /\ perSecond = [t \in 1 .. MaxTime |-> 0]

Busy(r) == rec[r].pc # "idle"

\* No Record takes longer than MaxDelay.
Tick ==
    /\ clock < MaxTime
    /\ \A r \in Recorders : Busy(r) => clock + 1 - rec[r].now <= MaxDelay
    /\ clock' = clock + 1
    /\ UNCHANGED <<counter, ring, table, row, rec, keeper, events, perSecond>>

-----------------------------------------------------------------------------
(* Record, up to recordSeries: the counters it adds to, in order. *)

One(name, cond) == IF cond THEN <<name>> ELSE <<>>

\* Fault: the total is added to last.
AddsTotalLast(ev) ==
    One("allowed", ev.allowed) \o One("blocked", ~ev.allowed) \o One("errors", ev.error)
        \o <<"latCount", "total">>

\* Fault: a request that failed is not timed.
AddsUntimed(ev) ==
    <<"total">> \o One("allowed", ev.allowed) \o One("blocked", ~ev.allowed)
        \o One("errors", ev.error) \o One("latCount", ~ev.error)

Adds(ev) ==
    <<"total">> \o One("allowed", ev.allowed) \o One("blocked", ~ev.allowed)
        \o One("errors", ev.error) \o <<"latCount">>

Begin(r, ev) ==
    /\ ~Busy(r) /\ events < MaxEvents
    /\ events' = events + 1
    /\ rec' = [rec EXCEPT ![r] = [pc |-> "add", ev |-> ev, now |-> clock, id |-> events + 1,
                                  todo |-> Adds(ev), row |-> 0, victims |-> {}]]
    /\ UNCHANGED <<clock, counter, ring, table, row, keeper, perSecond>>

Add(r) ==
    /\ rec[r].pc = "add" /\ rec[r].todo # <<>>
    /\ counter' = [counter EXCEPT ![Head(rec[r].todo)] = @ + 1]
    /\ rec' = [rec EXCEPT ![r].todo = Tail(@)]
    /\ UNCHANGED <<clock, ring, table, row, keeper, events, perSecond>>

Bit(b) == IF b THEN 1 ELSE 0

Counted(b, ev) ==
    [b EXCEPT !.total = @ + 1, !.allowed = @ + Bit(ev.allowed),
              !.blocked = @ + Bit(~ev.allowed), !.errors = @ + Bit(ev.error)]

\* Fault: a slot is not cleared when the ring comes round to it.
FreshKept(b, sec) == [b EXCEPT !.ts = sec]

Fresh(b, sec) == IF b.ts # sec THEN Bucket(sec) ELSE b

\* Fault: the slot of the second after.
SlotAfter(sec) == (sec + 1) % RingLen

Slot(sec) == sec % RingLen

\* recordSeries, one critical section; an event without a key is then done.
RecordSeries(r) ==
    /\ rec[r].pc = "add" /\ rec[r].todo = <<>>
    /\ LET sec == rec[r].now IN
       /\ ring' = [ring EXCEPT ![Slot(sec)] = Counted(Fresh(@, sec), rec[r].ev)]
       /\ perSecond' = [perSecond EXCEPT ![sec] = @ + 1]
    /\ rec' = IF rec[r].ev.key = NoKey THEN [rec EXCEPT ![r] = Idle]
              ELSE [rec EXCEPT ![r].pc = "client"]
    /\ UNCHANGED <<clock, counter, table, row, keeper, events>>

-----------------------------------------------------------------------------
(* recordClient and enforceClientCap *)

Tracked == {k \in Keys : table[k] # 0}

\* A Record of a key in progress excuses a sweep that forgets it.
Touch(k) ==
    keeper' = IF keeper.pc = "delete" /\ keeper.key = k
              THEN [keeper EXCEPT !.touched = TRUE] ELSE keeper

LoadOrStore(r) ==
    /\ rec[r].pc = "client"
    /\ LET k == rec[r].ev.key IN
       /\ IF table[k] # 0
          THEN /\ rec' = [rec EXCEPT ![r].pc = "row", ![r].row = table[k]]
               /\ UNCHANGED table
          ELSE /\ rec' = [rec EXCEPT ![r].pc = "count", ![r].row = rec[r].id]
               /\ table' = [table EXCEPT ![k] = rec[r].id]
       /\ Touch(k)
    /\ UNCHANGED <<clock, counter, ring, row, events, perSecond>>

\* Fault: the cap is only looked at once it is exceeded by one more.
WithinCapLate == Cardinality(Tracked) <= MaxClients + CapSlack + 1

WithinCap == Cardinality(Tracked) <= MaxClients + CapSlack

CountRows(r) ==
    /\ rec[r].pc = "count"
    /\ rec' = [rec EXCEPT ![r].pc = IF WithinCap THEN "row" ELSE "collect"]
    /\ UNCHANGED <<clock, counter, ring, table, row, keeper, events, perSecond>>

\* The sort is not stable: among equally old rows any may come first.
Oldest(victims) ==
    /\ Cardinality(victims) = Max({0, Cardinality(Tracked) - MaxClients})
    /\ \A v \in victims, k \in Tracked \ victims :
        row[table[v]].lastSeen <= row[table[k]].lastSeen

CollectRows(r) ==
    /\ rec[r].pc = "collect"
    /\ \E victims \in SUBSET Tracked :
        /\ Oldest(victims)
        /\ rec' = [rec EXCEPT ![r].pc = "evict", ![r].victims = victims]
    /\ UNCHANGED <<clock, counter, ring, table, row, keeper, events, perSecond>>

\* By key: it may be another row than the one collected.
Evict(r) ==
    /\ rec[r].pc = "evict"
    /\ \E k \in rec[r].victims :
        /\ table' = [table EXCEPT ![k] = 0]
        /\ rec' = [rec EXCEPT ![r].victims = @ \ {k}]
    /\ UNCHANGED <<clock, counter, ring, row, keeper, events, perSecond>>

EvictDone(r) ==
    /\ rec[r].pc = "evict" /\ rec[r].victims = {}
    /\ rec' = [rec EXCEPT ![r].pc = "row"]
    /\ UNCHANGED <<clock, counter, ring, table, row, keeper, events, perSecond>>

UpdateRow(r) ==
    /\ rec[r].pc = "row"
    /\ row' = [row EXCEPT ![rec[r].row] =
                 [requests |-> @.requests + 1, lastSeen |-> rec[r].now,
                  allowed |-> @.allowed + Bit(rec[r].ev.allowed),
                  blocked |-> @.blocked + Bit(~rec[r].ev.allowed)]]
    /\ rec' = [rec EXCEPT ![r] = Idle]
    /\ Touch(rec[r].ev.key)
    /\ UNCHANGED <<clock, counter, ring, table, events, perSecond>>

-----------------------------------------------------------------------------
(* Snapshot: the loads, in order.  Series and the rows come in between. *)

Loads == <<"total", "blocked", "latCount", "allowed", "errors">>

SnapshotBegin ==
    /\ keeper = Idle
    /\ keeper' = [pc |-> "snapshot", todo |-> Loads, got |-> [c \in Counters |-> 0]]
    /\ UNCHANGED <<clock, counter, ring, table, row, rec, events, perSecond>>

SnapshotLoad ==
    /\ keeper.pc = "snapshot" /\ keeper.todo # <<>>
    /\ LET c == Head(keeper.todo) IN
       keeper' = [keeper EXCEPT !.todo = Tail(@), !.got[c] = counter[c]]
    /\ UNCHANGED <<clock, counter, ring, table, row, rec, events, perSecond>>

SnapshotEnd ==
    /\ keeper.pc = "snapshot" /\ keeper.todo = <<>>
    /\ keeper' = Idle
    /\ UNCHANGED <<clock, counter, ring, table, row, rec, events, perSecond>>

\* Series(now): the bucket of each second, zero where the slot holds another.
Series(now) ==
    [sec \in now - RingLen + 1 .. now |->
        LET b == ring[sec % RingLen] IN IF b.ts # sec THEN Bucket(sec) ELSE b]

-----------------------------------------------------------------------------
(* Sweep: a row's age is read under its lock and acted on after the unlock. *)

SweepBegin ==
    /\ keeper = Idle
    /\ keeper' = [pc |-> "scan", cutoff |-> clock - ClientTTL, left |-> Keys]
    /\ UNCHANGED <<clock, counter, ring, table, row, rec, events, perSecond>>

\* Fault: the age is compared the wrong way round.
StaleReversed(k, cutoff) == row[table[k]].lastSeen >= cutoff

Stale(k, cutoff) == row[table[k]].lastSeen < cutoff

RecordingNow(k) ==
    \E r \in Recorders : rec[r].pc \in {"count", "collect", "evict", "row"} /\ rec[r].ev.key = k

SweepCheck(k) ==
    /\ keeper.pc = "scan" /\ k \in keeper.left
    /\ keeper' = IF k \in Tracked /\ Stale(k, keeper.cutoff)
                 THEN [pc |-> "delete", cutoff |-> keeper.cutoff, left |-> keeper.left \ {k},
                       key |-> k, touched |-> RecordingNow(k)]
                 ELSE [keeper EXCEPT !.left = @ \ {k}]
    /\ UNCHANGED <<clock, counter, ring, table, row, rec, events, perSecond>>

SweepDelete ==
    /\ keeper.pc = "delete"
    /\ table' = [table EXCEPT ![keeper.key] = 0]
    /\ keeper' = [pc |-> "scan", cutoff |-> keeper.cutoff, left |-> keeper.left]
    /\ UNCHANGED <<clock, counter, ring, row, rec, events, perSecond>>

SweepEnd ==
    /\ keeper.pc = "scan" /\ keeper.left = {}
    /\ keeper' = Idle
    /\ UNCHANGED <<clock, counter, ring, table, row, rec, events, perSecond>>

ResetClients ==
    /\ keeper = Idle
    /\ keeper' = [pc |-> "reset", left |-> Keys]
    /\ UNCHANGED <<clock, counter, ring, table, row, rec, events, perSecond>>

ResetDelete(k) ==
    /\ keeper.pc = "reset" /\ k \in keeper.left
    /\ table' = [table EXCEPT ![k] = 0]
    /\ keeper' = [keeper EXCEPT !.left = @ \ {k}]
    /\ UNCHANGED <<clock, counter, ring, row, rec, events, perSecond>>

ResetEnd ==
    /\ keeper.pc = "reset" /\ keeper.left = {}
    /\ keeper' = Idle
    /\ UNCHANGED <<clock, counter, ring, table, row, rec, events, perSecond>>

-----------------------------------------------------------------------------
Next ==
    \/ Tick
    \/ \E r \in Recorders :
        \/ \E ev \in Events : Begin(r, ev)
        \/ Add(r) \/ RecordSeries(r) \/ LoadOrStore(r) \/ CountRows(r)
        \/ CollectRows(r) \/ Evict(r) \/ EvictDone(r) \/ UpdateRow(r)
    \/ SnapshotBegin \/ SnapshotLoad \/ SnapshotEnd
    \/ SweepBegin \/ SweepDelete \/ SweepEnd
    \/ ResetClients \/ ResetEnd
    \/ \E k \in Keys : SweepCheck(k) \/ ResetDelete(k)

Spec == Init /\ [][Next]_vars

-----------------------------------------------------------------------------
\* The types of the shared state; a tracked key's row is one that an event made.
TypeOK ==
    /\ clock \in 1 .. MaxTime /\ events \in 0 .. MaxEvents
    /\ counter \in [Counters -> Nat]
    /\ table \in [Keys -> 0 .. events]
    /\ \A i \in DOMAIN ring : ring[i].ts \in {t \in 0 .. clock : t = 0 \/ t % RingLen = i}
    /\ \A e \in DOMAIN row : row[e].lastSeen \in {Never} \cup 1 .. clock
    /\ keeper.pc \in {"idle", "snapshot", "scan", "delete", "reset"}

\* A Snapshot is finished.
Viewed == keeper.pc = "snapshot" /\ keeper.todo = <<>>

(***************************************************************************)
(* "Record folds one request outcome into every aggregate": whatever the   *)
(* interleaving, no counter runs ahead of those Record adds to before it,  *)
(* and with nobody inside Record they agree exactly.  A Snapshot, which    *)
(* loads the total first, is short of at most the requests in progress.    *)
(***************************************************************************)
Reconciled ==
    LET decided == counter["allowed"] + counter["blocked"] IN
    /\ decided <= counter["total"] /\ counter["errors"] <= decided
    /\ counter["latCount"] <= decided
    /\ (\A r \in Recorders : ~Busy(r)) =>
        counter["total"] = decided /\ decided = counter["latCount"]
    /\ Viewed => LET got == keeper.got IN
        got["total"] <= got["allowed"] + got["blocked"] + Cardinality(Recorders)

\* What the counts of S add up to, as a set: <<x, n>> is the n-th request of x.
Tally(S, count) == UNION {{x} \X (1 .. count[x]) : x \in S}

InGraph == Tally(DOMAIN ring, [i \in DOMAIN ring |-> ring[i].total])
InRows  == Tally(Tracked, [k \in Tracked |-> row[table[k]].requests])

(***************************************************************************)
(* The aggregates that Record reaches after the counters, the graph and    *)
(* the client rows, never add up to more requests than the counters show,  *)
(* although buckets are reused and rows are forgotten and made again.      *)
(***************************************************************************)
SumsReconciled ==
    /\ Cardinality(InGraph) <= counter["latCount"]
    /\ Cardinality(InRows) <= counter["latCount"]

(***************************************************************************)
(* Series returns the rolling window: every second of it shows exactly the *)
(* events recorded in that second, although the ring is written at the     *)
(* time Record began, is reused every RingLen seconds and is never cleared *)
(* by a clock.  True only while no Record takes RingLen seconds from its   *)
(* c.now() to recordSeries: a later one would wipe the newer bucket.       *)
(***************************************************************************)
SeriesExact ==
    \A sec \in 1 .. clock :
        sec > clock - RingLen => Series(clock)[sec].total = perSecond[sec]

(***************************************************************************)
(* enforceClientCap "keeps the tracked client table bounded": new keys may *)
(* be stored by many requests at once and evicted by each of them from its *)
(* own list, but with nobody between the two the table is within its cap.  *)
(***************************************************************************)
TableBounded ==
    (\A r \in Recorders : rec[r].pc \notin {"count", "collect", "evict"}) =>
        Cardinality(Tracked) <= MaxClients + CapSlack

(***************************************************************************)
(* "Sweep forgets clients idle for longer than the configured TTL": the    *)
(* age it saw may be out of date when it deletes, but the only clients it  *)
(* forgets too early are those with a request in recordClient meanwhile.   *)
(***************************************************************************)
SweptIsIdle ==
    [][keeper.pc = "delete" /\ keeper'.pc = "scan" /\ keeper.key \in Tracked =>
        keeper.touched \/ row[table[keeper.key]].lastSeen < clock - ClientTTL]_vars
=============================================================================
