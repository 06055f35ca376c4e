-------------------------- MODULE CollectorProofs --------------------------
(***************************************************************************)
(* The metrics collector, for any number of requests, clients and seconds. *)
(*                                                                         *)
(* The types of where each goroutine is; the ring, in which a slot belongs *)
(* to one second of the window; the table, whose excess is always some     *)
(* recorder's to evict; the rows, which belong to one key each, so that a  *)
(* sweep that finds its row younger has been touched; and the counters,    *)
(* whose differences are the requests between two additions.               *)
(***************************************************************************)
EXTENDS Collector, SequenceTheorems, FiniteSetTheorems, TLAPS

Stages == {"add", "client", "count", "collect", "evict", "row"}

Active ==
    [pc : Stages, ev : Events, now : Nat, id : Nat, todo : Seq(Counters), row : Nat,
     victims : SUBSET Keys]

\* A recorder is out of Record, or inside it since an instant not long ago.
Recording(a, t, n) ==
    /\ a \in Active
    /\ a.now >= 1 /\ a.now <= t /\ t <= a.now + MaxDelay
    /\ a.id >= 1 /\ a.id <= n /\ a.row <= n
    /\ a.pc # "add" => a.ev.key \in Keys
    /\ a.pc \notin {"add", "client"} => a.row >= 1

Snapshots == [pc : {"snapshot"}, todo : Seq(Counters), got : [Counters -> Nat]]
Scans == [pc : {"scan"}, cutoff : Int, left : SUBSET Keys]
Deletes == [pc : {"delete"}, cutoff : Int, left : SUBSET Keys, key : Keys, touched : BOOLEAN]
Resets == [pc : {"reset"}, left : SUBSET Keys]

Buckets == [ts : Nat, total : Nat, allowed : Nat, blocked : Nat, errors : Nat]

Rows == [requests : Nat, allowed : Nat, blocked : Nat, lastSeen : Int]

Shared ==
    /\ clock \in 1 .. MaxTime /\ events \in 0 .. MaxEvents
    /\ counter \in [Counters -> Nat]
    /\ ring \in [0 .. RingLen - 1 -> Buckets]
    /\ \A i \in 0 .. RingLen - 1 :
        ring[i].ts <= clock /\ (ring[i].ts = 0 \/ ring[i].ts % RingLen = i)
    /\ table \in [Keys -> Nat] /\ \A k \in Keys : table[k] <= events
    /\ row \in [1 .. MaxEvents -> Rows]
    /\ \A e \in 1 .. MaxEvents :
        row[e].lastSeen = Never \/ (row[e].lastSeen >= 1 /\ row[e].lastSeen <= clock)
    /\ perSecond \in [1 .. MaxTime -> Nat]

Recorded ==
    /\ rec = [r \in Recorders |-> rec[r]]
    /\ \A r \in Recorders : rec[r] = Idle \/ Recording(rec[r], clock, events)

Kept == keeper = Idle \/ keeper \in Snapshots \cup Scans \cup Deletes \cup Resets

Types == Shared /\ Recorded /\ Kept

LEMMA CollectorConstants ==
    /\ NoKey \notin Keys /\ RingLen \in Nat /\ RingLen >= 1
    /\ MaxDelay \in Nat /\ MaxDelay < RingLen
    /\ ClientTTL \in Nat /\ ClientTTL >= 1 /\ MaxClients \in Nat /\ MaxClients >= 1
    /\ CapSlack \in Nat /\ MaxTime \in Nat /\ MaxTime >= 1 /\ MaxEvents \in Nat
    /\ Never \in Int /\ Never < 0
    /\ \A ev \in Events : /\ ev.key \in Keys \cup {NoKey} /\ ev.allowed \in BOOLEAN
                          /\ ev.error \in BOOLEAN
  BY CollectorAssumption DEF Never

LEMMA AddsType ==
    ASSUME NEW ev \in Events
    PROVE  Adds(ev) \in Seq(Counters)
<1>1. \A n \in Counters, c \in BOOLEAN : One(n, c) \in Seq(Counters)
  BY EmptySeq DEF One
<1>2. ev.allowed \in BOOLEAN /\ ev.error \in BOOLEAN /\ (~ev.allowed) \in BOOLEAN
  BY CollectorConstants
<1>3. {"total", "allowed", "blocked", "errors", "latCount"} = Counters
  BY DEF Counters
<1>4. /\ One("allowed", ev.allowed) \in Seq(Counters)
      /\ One("blocked", ~ev.allowed) \in Seq(Counters)
      /\ One("errors", ev.error) \in Seq(Counters)
  BY <1>1, <1>2, <1>3
<1>5. <<"total">> \in Seq(Counters) /\ <<"latCount">> \in Seq(Counters)
  BY <1>3
<1> QED
  BY <1>4, <1>5, ConcatProperties DEF Adds

LEMMA InitTyped == Init => Types
<1> SUFFICES ASSUME Init PROVE Types
  OBVIOUS
<1> USE CollectorConstants
<1>1. Bucket(0) \in Buckets /\ Bucket(0).ts = 0 /\ NewRow \in Rows /\ NewRow.lastSeen = Never
  BY DEF Bucket, Buckets, NewRow, Rows
<1>2. Shared
  BY <1>1 DEF Init, Shared
<1>3. Recorded /\ Kept
  BY DEF Init, Recorded, Kept
<1> QED
  BY <1>2, <1>3 DEF Types

-----------------------------------------------------------------------------
(* What a step of a recorder does to its own state, field by field. *)

LEMMA Inside ==
    ASSUME Types, NEW r \in Recorders, rec[r].pc # "idle"
    PROVE  /\ Recording(rec[r], clock, events) /\ rec[r] \in Active
           /\ rec[r].now \in 1 .. MaxTime /\ rec[r].now <= clock
           /\ clock <= rec[r].now + MaxDelay
           /\ rec[r].ev \in Events /\ rec[r].id \in Nat /\ rec[r].row \in Nat
           /\ rec[r].todo \in Seq(Counters) /\ rec[r].victims \subseteq Keys
           /\ clock \in Nat /\ events \in Nat
<1>1. Recording(rec[r], clock, events)
  BY DEF Types, Recorded, Idle
<1>2. rec[r] \in Active /\ clock \in Nat /\ clock <= MaxTime /\ events \in Nat
  BY <1>1, CollectorConstants DEF Recording, Types, Shared
<1>3. /\ rec[r].now \in Nat /\ rec[r].ev \in Events /\ rec[r].id \in Nat /\ rec[r].row \in Nat
      /\ rec[r].todo \in Seq(Counters) /\ rec[r].victims \subseteq Keys
  BY <1>2 DEF Active
<1> QED
  BY <1>1, <1>2, <1>3, CollectorConstants DEF Recording

\* Record goes on: its event, its instant and its id stay.
Goes(r, p) ==
    /\ rec' = [rec EXCEPT ![r] = rec'[r]]
    /\ rec'[r] \in Active /\ rec'[r].pc = p
    /\ rec'[r].ev = rec[r].ev /\ rec'[r].now = rec[r].now /\ rec'[r].id = rec[r].id

Leaves(r) == rec' = [rec EXCEPT ![r] = Idle] /\ rec'[r] = Idle

LEMMA Steps ==
    ASSUME Types, NEW r \in Recorders
    PROVE  /\ Add(r) => /\ Goes(r, "add")
                        /\ rec'[r].todo = Tail(rec[r].todo)
                        /\ rec'[r].row = rec[r].row /\ rec'[r].victims = rec[r].victims
           /\ RecordSeries(r) => \/ Leaves(r) /\ rec[r].ev.key = NoKey
                                 \/ /\ Goes(r, "client") /\ rec[r].ev.key # NoKey
                                    /\ rec'[r].row = rec[r].row
                                    /\ rec'[r].todo = rec[r].todo
           /\ LoadOrStore(r) => \/ /\ Goes(r, "row") /\ table[rec[r].ev.key] # 0
                                   /\ rec'[r].row = table[rec[r].ev.key]
                                \/ /\ Goes(r, "count") /\ table[rec[r].ev.key] = 0
                                   /\ rec'[r].row = rec[r].id
           /\ CountRows(r) => /\ \/ Goes(r, "row") /\ WithinCap
                                 \/ Goes(r, "collect") /\ ~WithinCap
                              /\ rec'[r].row = rec[r].row
           /\ CollectRows(r) => /\ Goes(r, "evict") /\ rec'[r].row = rec[r].row
                                /\ rec'[r].victims \subseteq Tracked
                                /\ Oldest(rec'[r].victims)
           /\ Evict(r) => /\ Goes(r, "evict") /\ rec'[r].row = rec[r].row
                          /\ \E k \in rec[r].victims :
                                /\ table' = [table EXCEPT ![k] = 0]
                                /\ rec'[r].victims = rec[r].victims \ {k}
           /\ EvictDone(r) => Goes(r, "row") /\ rec'[r].row = rec[r].row
           /\ UpdateRow(r) => Leaves(r)
<1>0. rec = [q \in Recorders |-> rec[q]]
  BY DEF Types, Recorded
<1>1. ASSUME rec[r].pc # "idle"
      PROVE  /\ rec[r].todo \in Seq(Counters) /\ rec[r].row \in Nat
             /\ rec[r].victims \in SUBSET Keys /\ rec[r].pc \in Stages /\ rec[r] \in Active
  BY <1>1, Inside DEF Active
<1>2. ASSUME rec[r].pc # "idle", NEW p \in Stages, rec' = [rec EXCEPT ![r].pc = p]
      PROVE  /\ Goes(r, p) /\ rec'[r].todo = rec[r].todo /\ rec'[r].row = rec[r].row
             /\ rec'[r].victims = rec[r].victims
  BY <1>0, <1>1, <1>2 DEF Goes, Active
<1>3. ASSUME rec[r].pc # "idle", NEW p \in Stages, NEW n \in Nat,
             rec' = [rec EXCEPT ![r].pc = p, ![r].row = n]
      PROVE  Goes(r, p) /\ rec'[r].row = n
  BY <1>0, <1>1, <1>3 DEF Goes, Active
<1>4. ASSUME rec' = [rec EXCEPT ![r] = Idle] PROVE Leaves(r)
  BY <1>0, <1>4 DEF Leaves
<1>5. ASSUME Add(r)
      PROVE  /\ Goes(r, "add") /\ rec'[r].todo = Tail(rec[r].todo)
             /\ rec'[r].row = rec[r].row /\ rec'[r].victims = rec[r].victims
  <2>1. rec[r].pc = "add" /\ rec[r].pc # "idle" /\ rec[r].todo # <<>>
    BY <1>5 DEF Add
  <2>2. Tail(rec[r].todo) \in Seq(Counters)
    BY <1>1, <2>1, HeadTailProperties
  <2> QED
    BY <1>0, <1>1, <1>5, <2>1, <2>2 DEF Add, Goes, Active
<1>6. ASSUME RecordSeries(r)
      PROVE  \/ Leaves(r) /\ rec[r].ev.key = NoKey
             \/ /\ Goes(r, "client") /\ rec[r].ev.key # NoKey
                /\ rec'[r].row = rec[r].row /\ rec'[r].todo = rec[r].todo
  <2>1. rec[r].pc # "idle"
    BY <1>6 DEF RecordSeries
  <2>2. \/ rec' = [rec EXCEPT ![r] = Idle] /\ rec[r].ev.key = NoKey
        \/ rec' = [rec EXCEPT ![r].pc = "client"] /\ rec[r].ev.key # NoKey
    BY <1>6 DEF RecordSeries
  <2> QED
    BY <1>2, <1>4, <2>1, <2>2 DEF Stages
<1>7. ASSUME LoadOrStore(r)
      PROVE  \/ /\ Goes(r, "row") /\ table[rec[r].ev.key] # 0
                /\ rec'[r].row = table[rec[r].ev.key]
             \/ /\ Goes(r, "count") /\ table[rec[r].ev.key] = 0
                /\ rec'[r].row = rec[r].id
  <2>1. rec[r].pc # "idle" /\ rec[r].id \in Nat /\ rec[r].ev.key \in Keys
    <3>1. rec[r].pc = "client"
      BY <1>7 DEF LoadOrStore
    <3> QED
      BY <3>1, Inside DEF Recording
  <2>2. table[rec[r].ev.key] \in Nat
    BY <2>1 DEF Types, Shared
  <2>3. \/ /\ table[rec[r].ev.key] # 0
           /\ rec' = [rec EXCEPT ![r].pc = "row", ![r].row = table[rec[r].ev.key]]
        \/ /\ table[rec[r].ev.key] = 0
           /\ rec' = [rec EXCEPT ![r].pc = "count", ![r].row = rec[r].id]
    BY <1>7 DEF LoadOrStore
  <2> QED
    BY <1>3, <2>1, <2>2, <2>3 DEF Stages
<1>8. ASSUME CountRows(r)
      PROVE  /\ \/ Goes(r, "row") /\ WithinCap
                \/ Goes(r, "collect") /\ ~WithinCap
             /\ rec'[r].row = rec[r].row
  <2>1. rec[r].pc # "idle"
    BY <1>8 DEF CountRows
  <2>2. \/ rec' = [rec EXCEPT ![r].pc = "row"] /\ WithinCap
        \/ rec' = [rec EXCEPT ![r].pc = "collect"] /\ ~WithinCap
    BY <1>8 DEF CountRows
  <2> QED
    BY <1>2, <2>1, <2>2 DEF Stages
<1>9. ASSUME CollectRows(r)
      PROVE  /\ Goes(r, "evict") /\ rec'[r].row = rec[r].row
             /\ rec'[r].victims \subseteq Tracked /\ Oldest(rec'[r].victims)
  <2>1. rec[r].pc # "idle"
    BY <1>9 DEF CollectRows
  <2>2. PICK V \in SUBSET Tracked :
          Oldest(V) /\ rec' = [rec EXCEPT ![r].pc = "evict", ![r].victims = V]
    BY <1>9 DEF CollectRows
  <2>3. V \in SUBSET Keys
    BY DEF Tracked
  <2>4. Goes(r, "evict") /\ rec'[r].row = rec[r].row /\ rec'[r].victims = V
    BY <1>0, <1>1, <2>1, <2>2, <2>3 DEF Stages, Goes, Active
  <2> QED
    BY <2>2, <2>4, Zenon
<1>10. ASSUME Evict(r)
       PROVE  /\ Goes(r, "evict") /\ rec'[r].row = rec[r].row
              /\ \E k \in rec[r].victims :
                    /\ table' = [table EXCEPT ![k] = 0]
                    /\ rec'[r].victims = rec[r].victims \ {k}
  <2>1. rec[r].pc # "idle" /\ rec[r].pc = "evict"
    BY <1>10 DEF Evict
  <2>2. PICK k \in rec[r].victims :
          /\ table' = [table EXCEPT ![k] = 0]
          /\ rec' = [rec EXCEPT ![r].victims = @ \ {k}]
    BY <1>10 DEF Evict
  <2>3. rec[r].victims \ {k} \in SUBSET Keys
    BY <1>1, <2>1
  <2>4. Goes(r, "evict") /\ rec'[r].row = rec[r].row /\ rec'[r].victims = rec[r].victims \ {k}
    BY <1>0, <1>1, <2>1, <2>2, <2>3 DEF Stages, Goes, Active
  <2> QED
    BY <2>2, <2>4, Zenon
<1>11. ASSUME EvictDone(r) PROVE Goes(r, "row") /\ rec'[r].row = rec[r].row
  <2>1. rec[r].pc # "idle" /\ rec' = [rec EXCEPT ![r].pc = "row"]
    BY <1>11 DEF EvictDone
  <2> QED
    BY <1>2, <2>1 DEF Stages
<1>12. ASSUME UpdateRow(r) PROVE Leaves(r)
  BY <1>4, <1>12 DEF UpdateRow
<1> QED
  BY <1>5, <1>6, <1>7, <1>8, <1>9, <1>10, <1>11, <1>12

-----------------------------------------------------------------------------
(* Types. *)

LEMMA BitType == \A x : Bit(x) \in Nat /\ Bit(x) <= 1
  BY DEF Bit

\* An event in a bucket of its second or in one that is taken over for it.
LEMMA CountedBucket ==
    ASSUME NEW b \in Buckets, NEW sec \in Nat, NEW ev
    PROVE  /\ Counted(Fresh(b, sec), ev) \in Buckets /\ Counted(Fresh(b, sec), ev).ts = sec
           /\ Counted(Fresh(b, sec), ev).total = IF b.ts = sec THEN b.total + 1 ELSE 1
<1>1. PICK f : f = Fresh(b, sec)
  OBVIOUS
<1>2. f \in Buckets /\ f.ts = sec /\ f.total = IF b.ts = sec THEN b.total ELSE 0
  BY <1>1 DEF Fresh, Bucket, Buckets
<1>3. PICK x \in Nat, y \in Nat, z \in Nat :
        Counted(f, ev) = [f EXCEPT !.total = @ + 1, !.allowed = @ + x, !.blocked = @ + y,
                                   !.errors = @ + z]
  <2>1. Bit(ev.allowed) \in Nat /\ Bit(~ev.allowed) \in Nat /\ Bit(ev.error) \in Nat
    BY BitType
  <2> QED
    BY <2>1, Zenon DEF Counted
<1>4. Counted(f, ev) \in Buckets /\ Counted(f, ev).ts = sec
      /\ Counted(f, ev).total = f.total + 1
  <2>1. /\ f.ts \in Nat /\ f.total \in Nat /\ f.allowed \in Nat /\ f.blocked \in Nat
        /\ f.errors \in Nat
        /\ f = [ts |-> f.ts, total |-> f.total, allowed |-> f.allowed,
                blocked |-> f.blocked, errors |-> f.errors]
    BY <1>2 DEF Buckets
  <2>2. Counted(f, ev) = [ts |-> f.ts, total |-> f.total + 1, allowed |-> f.allowed + x,
                          blocked |-> f.blocked + y, errors |-> f.errors + z]
    BY <1>3, <2>1
  <2> QED
    BY <1>2, <2>1, <2>2 DEF Buckets
<1>5. f.total + 1 = IF b.ts = sec THEN b.total + 1 ELSE 1
  BY <1>2
<1> QED
  BY <1>1, <1>4, <1>5

LEMMA GoesTyped ==
    ASSUME Types, NEW r \in Recorders, rec[r].pc # "idle", NEW p \in Stages, Goes(r, p),
           clock' = clock, events' = events, p # "add" => rec[r].ev.key \in Keys,
           rec'[r].row <= events, p \notin {"add", "client"} => rec'[r].row >= 1
    PROVE  Recorded'
<1>1. rec = [q \in Recorders |-> rec[q]]
  BY DEF Types, Recorded
<1>2. rec' = [q \in Recorders |-> rec'[q]] /\ \A q \in Recorders : q # r => rec'[q] = rec[q]
  BY <1>1 DEF Goes
<1>3. Recording(rec[r], clock, events)
  BY Inside
<1>4. Recording(rec'[r], clock, events)
  BY <1>3 DEF Goes, Recording
<1> QED
  BY <1>2, <1>4 DEF Types, Recorded

LEMMA LeavesTyped ==
    ASSUME Types, NEW r \in Recorders, Leaves(r), clock' = clock, events' = events
    PROVE  Recorded'
<1>1. rec = [q \in Recorders |-> rec[q]]
  BY DEF Types, Recorded
<1>2. rec' = [q \in Recorders |-> rec'[q]] /\ \A q \in Recorders : q # r => rec'[q] = rec[q]
  BY <1>1 DEF Leaves
<1> QED
  BY <1>2 DEF Types, Recorded, Leaves

LEMMA TouchTyped ==
    ASSUME Kept, NEW k, Touch(k)
    PROVE  Kept'
<1>1. CASE keeper' = keeper
  BY <1>1 DEF Kept
<1>2. CASE keeper.pc = "delete" /\ keeper' = [keeper EXCEPT !.touched = TRUE]
  <2>1. keeper \in Deletes
    BY <1>2 DEF Kept, Idle, Snapshots, Scans, Resets
  <2> QED
    BY <1>2, <2>1 DEF Kept, Deletes
<1> QED
  BY <1>1, <1>2 DEF Touch

LEMMA TickTyped ==
    ASSUME Types, Tick
    PROVE  Types'
<1> USE CollectorConstants
<1>1. /\ clock' = clock + 1 /\ clock' \in 1 .. MaxTime /\ clock \in Nat
      /\ UNCHANGED <<counter, ring, table, row, rec, keeper, events, perSecond>>
  BY DEF Tick, Types, Shared
<1>2. Shared'
  <2>1. /\ \A i \in 0 .. RingLen - 1 : ring[i].ts \in Nat
        /\ \A e \in 1 .. MaxEvents : row[e].lastSeen \in Int
    BY DEF Types, Shared, Buckets, Rows
  <2>2. \A i \in 0 .. RingLen - 1 :
            ring[i].ts <= clock' /\ (ring[i].ts = 0 \/ ring[i].ts % RingLen = i)
    BY <1>1, <2>1 DEF Types, Shared
  <2>3. \A e \in 1 .. MaxEvents :
            row[e].lastSeen = Never \/ (row[e].lastSeen >= 1 /\ row[e].lastSeen <= clock')
    BY <1>1, <2>1 DEF Types, Shared
  <2> QED
    BY <1>1, <2>2, <2>3 DEF Types, Shared
<1>3. Recorded'
  <2>1. ASSUME NEW r \in Recorders, rec[r] # Idle PROVE Recording(rec[r], clock', events)
    <3>1. Recording(rec[r], clock, events)
      BY <2>1 DEF Types, Recorded
    <3>2. rec[r].pc # "idle" /\ rec[r].now \in Nat
      BY <3>1 DEF Recording, Active, Stages
    <3>3. clock + 1 - rec[r].now <= MaxDelay
      BY <3>2 DEF Tick, Busy
    <3> QED
      BY <1>1, <3>1, <3>2, <3>3 DEF Recording
  <2> QED
    BY <1>1, <2>1 DEF Types, Recorded
<1> QED
  BY <1>1, <1>2, <1>3 DEF Types, Kept

LEMMA RecorderTyped ==
    ASSUME Types, NEW r \in Recorders,
           \/ \E ev \in Events : Begin(r, ev)
           \/ Add(r) \/ RecordSeries(r) \/ LoadOrStore(r) \/ CountRows(r)
           \/ CollectRows(r) \/ Evict(r) \/ EvictDone(r) \/ UpdateRow(r)
    PROVE  Types'
<1> USE CollectorConstants
<1>00. Shared /\ Recorded /\ Kept
  BY DEF Types
<1>0. /\ clock \in Nat /\ clock >= 1 /\ events \in Nat /\ Shared /\ Recorded /\ Kept
      /\ events <= MaxEvents
  BY <1>00 DEF Shared
<1>1. ASSUME NEW ev \in Events, Begin(r, ev) PROVE Types'
  <2> DEFINE new == [pc |-> "add", ev |-> ev, now |-> clock, id |-> events + 1,
                     todo |-> Adds(ev), row |-> 0, victims |-> {}]
  <2>1. /\ rec' = [rec EXCEPT ![r] = new] /\ events' = events + 1 /\ events < MaxEvents
        /\ UNCHANGED <<clock, counter, ring, table, row, keeper, perSecond>>
    BY <1>1 DEF Begin
  <2>2. Recording(new, clock, events + 1)
    <3>1. new \in Active
      BY <1>0, AddsType DEF Active, Stages
    <3>2. new.now = clock /\ new.id = events + 1 /\ new.row = 0 /\ new.pc = "add"
      OBVIOUS
    <3> HIDE DEF new
    <3> QED
      BY <1>0, <3>1, <3>2 DEF Recording
  <2> HIDE DEF new
  <2>3. rec' = [q \in Recorders |-> rec'[q]] /\ rec'[r] = new
        /\ \A q \in Recorders : q # r => rec'[q] = rec[q]
    BY <1>0, <2>1 DEF Recorded
  <2>4. ASSUME NEW a, Recording(a, clock, events) PROVE Recording(a, clock, events + 1)
    BY <1>0, <2>4 DEF Recording, Active
  <2>5. Recorded'
    BY <1>0, <2>1, <2>2, <2>3, <2>4 DEF Recorded
  <2>6. Shared'
    <3>1. \A k \in Keys : table[k] <= events + 1
      BY <1>0 DEF Shared
    <3> QED
      BY <1>0, <2>1, <3>1 DEF Shared
  <2> QED
    BY <1>0, <2>1, <2>5, <2>6 DEF Types, Kept
<1>2. CASE Add(r)
  <2>1. /\ rec[r].pc = "add" /\ rec[r].todo # <<>>
        /\ counter' = [counter EXCEPT ![Head(rec[r].todo)] = @ + 1]
        /\ UNCHANGED <<clock, ring, table, row, keeper, events, perSecond>>
    BY <1>2 DEF Add
  <2>2. Head(rec[r].todo) \in Counters
    BY <2>1, Inside, HeadTailProperties
  <2>3. counter' \in [Counters -> Nat]
    BY <1>0, <2>1, <2>2 DEF Shared
  <2>4. Shared'
    BY <1>0, <2>1, <2>3 DEF Shared
  <2>5. Recorded'
    <3>1. Goes(r, "add") /\ rec'[r].row = rec[r].row
      BY <1>2, Steps
    <3>2. rec[r].row <= events
      BY <2>1, Inside DEF Recording
    <3> QED
      BY <2>1, <3>1, <3>2, GoesTyped DEF Stages
  <2> QED
    BY <1>0, <2>1, <2>4, <2>5 DEF Types, Kept
<1>3. CASE RecordSeries(r)
  <2>1. /\ rec[r].pc = "add" /\ rec[r].now \in 1 .. MaxTime /\ rec[r].now <= clock
        /\ UNCHANGED <<clock, counter, table, row, keeper, events>>
        /\ ring' = [ring EXCEPT ![Slot(rec[r].now)] =
                      Counted(Fresh(@, rec[r].now), rec[r].ev)]
        /\ perSecond' = [perSecond EXCEPT ![rec[r].now] = @ + 1]
    BY <1>3, Inside DEF RecordSeries
  <2>2. Slot(rec[r].now) \in 0 .. RingLen - 1
    BY <2>1 DEF Slot
  <2>3. PICK i \in 0 .. RingLen - 1 : i = Slot(rec[r].now)
    BY <2>2
  <2>4. PICK b : b = Counted(Fresh(ring[i], rec[r].now), rec[r].ev)
    OBVIOUS
  <2>5. b \in Buckets /\ b.ts = rec[r].now
    <3>1. ring[i] \in Buckets /\ rec[r].now \in Nat
      BY <1>0, <2>1 DEF Shared
    <3> QED
      BY <2>4, <3>1, CountedBucket
  <2>6. ring' = [ring EXCEPT ![i] = b]
    BY <1>0, <2>1, <2>3, <2>4 DEF Shared
  <2>7. perSecond' \in [1 .. MaxTime -> Nat]
    BY <1>0, <2>1 DEF Shared
  <2>8. Shared'
    <3>1. ring' \in [0 .. RingLen - 1 -> Buckets]
      BY <1>0, <2>5, <2>6 DEF Shared
    <3>2. ASSUME NEW j \in 0 .. RingLen - 1
          PROVE  ring'[j].ts <= clock /\ (ring'[j].ts = 0 \/ ring'[j].ts % RingLen = j)
      <4>1. CASE j # i
        BY <1>0, <2>6, <4>1 DEF Shared
      <4>2. CASE j = i
        <5>1. ring'[j].ts = rec[r].now
          BY <1>0, <2>5, <2>6, <4>2 DEF Shared
        <5> QED
          BY <2>1, <2>3, <4>2, <5>1 DEF Slot
      <4> QED
        BY <4>1, <4>2
    <3> QED
      BY <1>0, <2>1, <2>7, <3>1, <3>2 DEF Shared
  <2>9. Recorded'
    <3>1. rec[r].ev.key \in Keys \cup {NoKey} /\ rec[r].row <= events
      BY <2>1, Inside DEF Recording
    <3>2. CASE Leaves(r)
      BY <2>1, <3>2, LeavesTyped
    <3>3. CASE Goes(r, "client") /\ rec[r].ev.key # NoKey /\ rec'[r].row = rec[r].row
      BY <2>1, <3>1, <3>3, GoesTyped DEF Stages
    <3> QED
      BY <1>3, <3>2, <3>3, Steps
  <2> QED
    BY <1>0, <2>1, <2>8, <2>9 DEF Types, Kept
<1>4. CASE LoadOrStore(r)
  <2>1. /\ rec[r].pc = "client" /\ rec[r].ev.key \in Keys /\ rec[r].id \in Nat
        /\ rec[r].id >= 1 /\ rec[r].id <= events
    BY <1>4, Inside DEF LoadOrStore, Recording
  <2>2. /\ UNCHANGED <<clock, counter, ring, row, events, perSecond>>
        /\ Touch(rec[r].ev.key)
        /\ table' = table \/ table' = [table EXCEPT ![rec[r].ev.key] = rec[r].id]
    BY <1>4 DEF LoadOrStore
  <2>3. table' \in [Keys -> Nat] /\ \A k \in Keys : table'[k] <= events
    BY <1>0, <2>1, <2>2 DEF Shared
  <2>4. Shared'
    BY <1>0, <2>2, <2>3 DEF Shared
  <2>5. table[rec[r].ev.key] \in Nat /\ table[rec[r].ev.key] <= events
    BY <1>0, <2>1 DEF Shared
  <2>6. Recorded'
    <3>1. CASE /\ Goes(r, "row") /\ table[rec[r].ev.key] # 0
               /\ rec'[r].row = table[rec[r].ev.key]
      BY <2>1, <2>2, <2>5, <3>1, GoesTyped DEF Stages
    <3>2. CASE Goes(r, "count") /\ rec'[r].row = rec[r].id
      BY <2>1, <2>2, <3>2, GoesTyped DEF Stages
    <3> QED
      BY <1>4, <3>1, <3>2, Steps
  <2> QED
    BY <1>0, <2>2, <2>4, <2>6, TouchTyped DEF Types
<1>5. ASSUME CountRows(r) \/ CollectRows(r) \/ Evict(r) \/ EvictDone(r)
      PROVE  Types'
  <2>1. /\ rec[r].pc \in {"count", "collect", "evict"}
        /\ UNCHANGED <<clock, counter, ring, row, keeper, events, perSecond>>
    BY <1>5 DEF CountRows, CollectRows, Evict, EvictDone
  <2>2. /\ rec[r].ev.key \in Keys /\ rec[r].row <= events /\ rec[r].row >= 1
        /\ rec[r].victims \subseteq Keys
    BY <2>1, Inside DEF Recording
  <2>3. table' \in [Keys -> Nat] /\ \A k \in Keys : table'[k] <= events
    <3>1. table' = table \/ \E k \in rec[r].victims : table' = [table EXCEPT ![k] = 0]
      BY <1>5 DEF CountRows, CollectRows, Evict, EvictDone
    <3>2. ASSUME NEW k \in Keys, table' = [table EXCEPT ![k] = 0]
          PROVE  table' \in [Keys -> Nat] /\ \A j \in Keys : table'[j] <= events
      BY <1>0, <3>2 DEF Shared
    <3> QED
      BY <1>0, <2>2, <3>1, <3>2 DEF Shared
  <2>4. Shared'
    BY <1>0, <2>1, <2>3 DEF Shared
  <2>5. PICK p \in {"collect", "evict", "row"} : Goes(r, p) /\ rec'[r].row = rec[r].row
    BY <1>5, Steps
  <2>6. Recorded'
    BY <2>1, <2>2, <2>5, GoesTyped DEF Stages
  <2> QED
    BY <1>0, <2>1, <2>4, <2>6 DEF Types, Kept
<1>6. CASE UpdateRow(r)
  <2>1. /\ rec[r].pc = "row" /\ rec[r].row \in Nat /\ rec[r].row >= 1 /\ rec[r].row <= events
        /\ rec[r].now \in Nat /\ rec[r].now >= 1 /\ rec[r].now <= clock
    BY <1>6, Inside DEF UpdateRow, Recording
  <2>2. UNCHANGED <<clock, counter, ring, table, events, perSecond>> /\ Touch(rec[r].ev.key)
    BY <1>6 DEF UpdateRow
  <2>3. rec[r].row \in 1 .. MaxEvents
    BY <1>0, <2>1
  <2>4. PICK b : b = [requests |-> row[rec[r].row].requests + 1, lastSeen |-> rec[r].now,
                      allowed |-> row[rec[r].row].allowed + Bit(rec[r].ev.allowed),
                      blocked |-> row[rec[r].row].blocked + Bit(~rec[r].ev.allowed)]
    OBVIOUS
  <2>5. b \in Rows /\ b.lastSeen = rec[r].now
    <3>1. row[rec[r].row] \in Rows
      BY <1>0, <2>3 DEF Shared
    <3>2. Bit(rec[r].ev.allowed) \in Nat /\ Bit(~rec[r].ev.allowed) \in Nat
      BY BitType
    <3> QED
      BY <2>1, <2>4, <3>1, <3>2 DEF Rows
  <2>6. row' = [row EXCEPT ![rec[r].row] = b]
    BY <1>0, <1>6, <2>3, <2>4 DEF UpdateRow, Shared
  <2>7. row' \in [1 .. MaxEvents -> Rows]
    BY <1>0, <2>3, <2>5, <2>6 DEF Shared
  <2>8. \A e \in 1 .. MaxEvents :
            row'[e].lastSeen = Never \/ (row'[e].lastSeen >= 1 /\ row'[e].lastSeen <= clock)
    BY <1>0, <2>1, <2>3, <2>5, <2>6 DEF Shared
  <2>9. Shared'
    BY <1>0, <2>2, <2>7, <2>8 DEF Shared
  <2>10. Recorded'
    BY <1>6, <2>2, LeavesTyped, Steps
  <2> QED
    BY <1>0, <2>2, <2>9, <2>10, TouchTyped DEF Types
<1> QED
  BY <1>1, <1>2, <1>3, <1>4, <1>5, <1>6

KeeperStep ==
    \/ SnapshotBegin \/ SnapshotLoad \/ SnapshotEnd
    \/ SweepBegin \/ SweepDelete \/ SweepEnd
    \/ ResetClients \/ ResetEnd
    \/ \E k \in Keys : SweepCheck(k) \/ ResetDelete(k)

\* The Keeper changes nothing of the shared state but the table, where it deletes.
LEMMA KeeperDeletes ==
    ASSUME Types, KeeperStep
    PROVE  /\ UNCHANGED <<clock, counter, ring, row, rec, events, perSecond>>
           /\ table' = table \/ \E k \in Keys : table' = [table EXCEPT ![k] = 0]
<1>1. keeper.pc = "delete" => keeper.key \in Keys
  BY DEF Types, Kept, Idle, Snapshots, Scans, Deletes, Resets
<1>2. CASE SweepDelete
  BY <1>1, <1>2 DEF SweepDelete
<1>3. CASE \E k \in Keys : ResetDelete(k)
  BY <1>3 DEF ResetDelete
<1>4. CASE SnapshotBegin \/ SnapshotLoad \/ SnapshotEnd \/ SweepBegin \/ SweepEnd
           \/ ResetClients \/ ResetEnd
  BY <1>4 DEF SnapshotBegin, SnapshotLoad, SnapshotEnd, SweepBegin, SweepEnd, ResetClients,
              ResetEnd
<1>5. CASE \E k \in Keys : SweepCheck(k)
  BY <1>5 DEF SweepCheck
<1> QED
  BY <1>2, <1>3, <1>4, <1>5 DEF KeeperStep

LEMMA KeeperTyped ==
    ASSUME Types, KeeperStep
    PROVE  Types'
<1> USE CollectorConstants
<1>1. /\ clock' = clock /\ counter' = counter /\ ring' = ring /\ row' = row /\ rec' = rec
      /\ events' = events /\ perSecond' = perSecond
      /\ Shared /\ Recorded /\ Kept
  BY KeeperDeletes DEF Types
<1>2. Shared'
  <2>1. CASE table' = table
    BY <1>1, <2>1 DEF Shared
  <2>2. ASSUME NEW k \in Keys, table' = [table EXCEPT ![k] = 0] PROVE Shared'
    <3>1. table' \in [Keys -> Nat] /\ \A j \in Keys : table'[j] <= events
      BY <1>1, <2>2 DEF Shared
    <3> QED
      BY <1>1, <3>1 DEF Shared
  <2> QED
    BY <2>1, <2>2, KeeperDeletes
<1>3. Recorded'
  BY <1>1 DEF Recorded
<1>4. Kept'
  <2>1. CASE SnapshotBegin
    <3>1. Loads \in Seq(Counters)
      BY DEF Loads, Counters
    <3>2. [c \in Counters |-> 0] \in [Counters -> Nat]
      OBVIOUS
    <3> QED
      BY <2>1, <3>1, <3>2 DEF SnapshotBegin, Kept, Snapshots
  <2>2. CASE SnapshotLoad
    <3>1. keeper \in Snapshots /\ keeper.todo # <<>>
      BY <1>1, <2>2 DEF SnapshotLoad, Kept, Idle, Scans, Deletes, Resets
    <3>2. keeper.todo \in Seq(Counters) /\ keeper.got \in [Counters -> Nat]
      BY <3>1 DEF Snapshots
    <3>3. Head(keeper.todo) \in Counters /\ Tail(keeper.todo) \in Seq(Counters)
      BY <3>1, <3>2, HeadTailProperties
    <3>4. counter[Head(keeper.todo)] \in Nat
      BY <1>1, <3>3 DEF Shared
    <3>5. [keeper.got EXCEPT ![Head(keeper.todo)] = counter[Head(keeper.todo)]]
            \in [Counters -> Nat]
      BY <3>2, <3>3, <3>4
    <3>6. keeper' = [keeper EXCEPT !.todo = Tail(keeper.todo),
                        !.got = [keeper.got EXCEPT ![Head(keeper.todo)] =
                                    counter[Head(keeper.todo)]]]
      BY <2>2, <3>1 DEF SnapshotLoad, Snapshots
    <3>7. keeper' \in Snapshots
      BY <3>1, <3>3, <3>5, <3>6 DEF Snapshots
    <3> QED
      BY <3>7 DEF Kept
  <2>3. CASE SnapshotEnd \/ SweepEnd \/ ResetEnd
    BY <2>3 DEF SnapshotEnd, SweepEnd, ResetEnd, Kept
  <2>4. CASE SweepBegin
    BY <1>1, <2>4 DEF SweepBegin, Kept, Scans, Shared
  <2>5. CASE SweepDelete
    <3>1. keeper \in Deletes
      BY <1>1, <2>5 DEF SweepDelete, Kept, Idle, Snapshots, Scans, Resets
    <3> QED
      BY <2>5, <3>1 DEF SweepDelete, Deletes, Scans, Kept
  <2>6. CASE ResetClients
    BY <2>6 DEF ResetClients, Kept, Resets
  <2>7. ASSUME NEW k \in Keys, SweepCheck(k) PROVE Kept'
    <3>1. keeper \in Scans
      BY <1>1, <2>7 DEF SweepCheck, Kept, Idle, Snapshots, Deletes, Resets
    <3>2. CASE keeper' = [keeper EXCEPT !.left = @ \ {k}]
      BY <3>1, <3>2 DEF Scans, Kept
    <3>3. CASE keeper' = [pc |-> "delete", cutoff |-> keeper.cutoff, left |-> keeper.left \ {k},
                          key |-> k, touched |-> RecordingNow(k)]
      <4>1. RecordingNow(k) \in BOOLEAN
        BY DEF RecordingNow
      <4>2. keeper.cutoff \in Int /\ keeper.left \ {k} \in SUBSET Keys
        BY <3>1 DEF Scans
      <4>3. keeper' \in Deletes
        BY <3>3, <4>1, <4>2, Zenon DEF Deletes
      <4> QED
        BY <4>3 DEF Kept
    <3> QED
      BY <2>7, <3>2, <3>3 DEF SweepCheck
  <2>8. ASSUME NEW k \in Keys, ResetDelete(k) PROVE Kept'
    <3>1. keeper \in Resets
      BY <1>1, <2>8 DEF ResetDelete, Kept, Idle, Snapshots, Scans, Deletes
    <3> QED
      BY <2>8, <3>1 DEF ResetDelete, Resets, Kept
  <2> QED
    BY <2>1, <2>2, <2>3, <2>4, <2>5, <2>6, <2>7, <2>8 DEF KeeperStep
<1> QED
  BY <1>2, <1>3, <1>4 DEF Types

RecorderStep(r) ==
    \/ \E ev \in Events : Begin(r, ev)
    \/ Add(r) \/ RecordSeries(r) \/ LoadOrStore(r) \/ CountRows(r)
    \/ CollectRows(r) \/ Evict(r) \/ EvictDone(r) \/ UpdateRow(r)

LEMMA AllSteps ==
    ASSUME [Next]_vars
    PROVE  \/ Tick \/ KeeperStep \/ UNCHANGED vars
           \/ \E r \in Recorders : RecorderStep(r)
  BY DEF Next, KeeperStep, RecorderStep

LEMMA NextTyped ==
    ASSUME Types, [Next]_vars
    PROVE  Types'
<1>1. CASE UNCHANGED vars
  BY <1>1 DEF vars, Types, Shared, Recorded, Kept
<1> QED
  BY <1>1, AllSteps, TickTyped, RecorderTyped, KeeperTyped DEF RecorderStep

(***************************************************************************)
(* The types of metrics.go's state: a bucket is in the slot of its second  *)
(* and a tracked client's row is one that some Record made.                *)
(***************************************************************************)
THEOREM CollectorIsTyped == Spec => []TypeOK
<1> USE CollectorConstants
<1>1. Types => TypeOK
  <2> SUFFICES ASSUME Types PROVE TypeOK
    OBVIOUS
  <2>1. /\ clock \in 1 .. MaxTime /\ events \in 0 .. MaxEvents /\ clock \in Nat
        /\ counter \in [Counters -> Nat] /\ events \in Nat
    BY DEF Types, Shared
  <2>2. table \in [Keys -> 0 .. events]
    BY <2>1 DEF Types, Shared
  <2>3. \A i \in DOMAIN ring : ring[i].ts \in {t \in 0 .. clock : t = 0 \/ t % RingLen = i}
    <3>1. \A i \in 0 .. RingLen - 1 : ring[i].ts \in Nat
      BY DEF Types, Shared, Buckets
    <3> QED
      BY <2>1, <3>1 DEF Types, Shared
  <2>4. \A e \in DOMAIN row : row[e].lastSeen \in {Never} \cup 1 .. clock
    <3>1. \A e \in 1 .. MaxEvents : row[e].lastSeen \in Int
      BY DEF Types, Shared, Rows
    <3> QED
      BY <2>1, <3>1 DEF Types, Shared
  <2>5. keeper.pc \in {"idle", "snapshot", "scan", "delete", "reset"}
    BY DEF Types, Kept, Idle, Snapshots, Scans, Deletes, Resets
  <2> QED
    BY <2>1, <2>2, <2>3, <2>4, <2>5 DEF TypeOK
<1> QED
  BY <1>1, InitTyped, NextTyped, PTL DEF Spec

-----------------------------------------------------------------------------
(* The ring.  A slot holds all the events of its second; a second of the   *)
(* window whose slot holds another has had none; nor has one to come.      *)

RingInv ==
    /\ \A i \in 0 .. RingLen - 1 : ring[i].ts # 0 => ring[i].total = perSecond[ring[i].ts]
    /\ \A sec \in 1 .. MaxTime :
        clock < sec \/ (clock < sec + RingLen /\ ring[Slot(sec)].ts # sec) => perSecond[sec] = 0

\* Within a window of RingLen seconds no two share a slot.
LEMMA SlotIsUnique ==
    ASSUME NEW a \in Nat, NEW b \in Nat, a < b + RingLen, b < a + RingLen, Slot(a) = Slot(b)
    PROVE  a = b
<1> DEFINE p == a \div RingLen
           q == b \div RingLen
           s == a % RingLen
<1>1. RingLen \in Nat /\ RingLen >= 1
  BY CollectorConstants
<1>2. /\ p \in Int /\ q \in Int /\ s \in Int
      /\ a = (p * RingLen) + s /\ b = (q * RingLen) + s
  BY <1>1 DEF Slot
<1> HIDE DEF p, q, s
<1>3. ASSUME NEW x \in Int, NEW y \in Int, x < y
      PROVE  (y * RingLen) >= (x * RingLen) + RingLen
  <2>1. PICK m \in Nat : y = x + 1 + m
    <3>1. y - x - 1 \in Nat /\ y = x + 1 + (y - x - 1)
      BY <1>3
    <3> QED
      BY <3>1
  <2>2. y * RingLen = x * RingLen + RingLen + m * RingLen
    BY <1>1, <2>1
  <2>3. m * RingLen \in Nat /\ x * RingLen \in Int
    BY <1>1
  <2> QED
    BY <1>1, <2>2, <2>3
<1>4. (p * RingLen) \in Int /\ (q * RingLen) \in Int
  BY <1>1, <1>2
<1>5. ~(p < q) /\ ~(q < p)
  <2>1. PICK P \in Int, Q \in Int : P = p * RingLen /\ Q = q * RingLen
    BY <1>4
  <2>2. p < q => Q >= P + RingLen
    BY <1>2, <1>3, <2>1
  <2>3. q < p => P >= Q + RingLen
    BY <1>2, <1>3, <2>1
  <2> QED
    BY <1>1, <1>2, <2>1, <2>2, <2>3
<1> QED
  BY <1>2, <1>5

LEMMA RingStep ==
    ASSUME Types, RingInv, NEW r \in Recorders, RecordSeries(r)
    PROVE  RingInv'
<1> USE CollectorConstants
<1>0. /\ rec[r].pc # "idle" /\ clock' = clock /\ clock \in Nat
      /\ ring \in [0 .. RingLen - 1 -> Buckets] /\ perSecond \in [1 .. MaxTime -> Nat]
  BY DEF RecordSeries, Types, Shared
<1>1. PICK s \in Nat : /\ s = rec[r].now /\ s \in 1 .. MaxTime /\ s <= clock
                       /\ clock < s + RingLen
  <2>1. /\ rec[r].now \in 1 .. MaxTime /\ rec[r].now <= clock
        /\ clock <= rec[r].now + MaxDelay
    BY <1>0, Inside
  <2>2. rec[r].now \in Nat /\ clock < rec[r].now + RingLen
    BY <1>0, <2>1
  <2> QED
    BY <2>1, <2>2
<1>2. PICK i \in 0 .. RingLen - 1 : i = Slot(s)
  BY DEF Slot
<1>3. PICK b : b = Counted(Fresh(ring[i], s), rec[r].ev)
  OBVIOUS
<1>4. /\ clock' = clock /\ clock \in Nat /\ clock < s + RingLen
      /\ ring \in [0 .. RingLen - 1 -> Buckets] /\ perSecond \in [1 .. MaxTime -> Nat]
  BY <1>0, <1>1
<1>5. ring' = [ring EXCEPT ![i] = b] /\ perSecond' = [perSecond EXCEPT ![s] = @ + 1]
  BY <1>1, <1>2, <1>3, <1>4 DEF RecordSeries
<1>6. b.ts = s /\ b.total = IF ring[i].ts = s THEN ring[i].total + 1 ELSE 1
  <2>1. ring[i] \in Buckets /\ s \in Nat
    BY <1>4
  <2> QED
    BY <1>3, <2>1, CountedBucket
<1>7. b.total = perSecond[s] + 1
  <2>1. CASE ring[i].ts = s
    BY <1>1, <1>2, <1>6, <2>1 DEF RingInv
  <2>2. CASE ring[i].ts # s
    BY <1>1, <1>2, <1>4, <1>6, <2>2 DEF RingInv
  <2> QED
    BY <2>1, <2>2
<1>8. ASSUME NEW j \in 0 .. RingLen - 1, ring'[j].ts # 0
      PROVE  ring'[j].total = perSecond'[ring'[j].ts]
  <2>1. CASE j = i
    BY <1>1, <1>4, <1>5, <1>6, <1>7, <2>1
  <2>2. CASE j # i
    <3>1. ring'[j] = ring[j] /\ ring[j].ts # 0
      BY <1>4, <1>5, <1>8, <2>2
    <3>2. ring[j].ts % RingLen = j /\ ring[j].ts \in 1 .. MaxTime
      <4>1. ring[j].ts \in Nat
        BY <1>4 DEF Buckets
      <4>2. ring[j].ts % RingLen = j /\ ring[j].ts <= clock /\ clock <= MaxTime
        BY <3>1 DEF Types, Shared
      <4> QED
        BY <1>4, <3>1, <4>1, <4>2
    <3>3. ring[j].ts # s
      BY <1>2, <2>2, <3>2 DEF Slot
    <3> QED
      BY <1>4, <1>5, <3>1, <3>2, <3>3 DEF RingInv
  <2> QED
    BY <2>1, <2>2
<1>9. ASSUME NEW sec \in 1 .. MaxTime, clock >= sec, clock < sec + RingLen,
             ring'[Slot(sec)].ts # sec
      PROVE  perSecond'[sec] = 0
  <2>1. PICK j \in 0 .. RingLen - 1 : j = Slot(sec)
    BY DEF Slot
  <2>2. sec # s
    BY <1>2, <1>4, <1>5, <1>6, <1>9
  <2>3. CASE j # i
    BY <1>4, <1>5, <1>9, <2>1, <2>2, <2>3 DEF RingInv
  <2>4. CASE j = i
    <3>1. s < sec + RingLen /\ sec < s + RingLen /\ sec \in Nat /\ s \in Nat
      <4>1. /\ s <= clock /\ clock < s + RingLen /\ clock \in Nat
            /\ sec <= clock /\ clock < sec + RingLen
        BY <1>1, <1>4, <1>9
      <4>2. sec \in Nat
        OBVIOUS
      <4> QED
        BY <4>1, <4>2
    <3> QED
      BY <1>2, <2>1, <2>2, <2>4, <3>1, SlotIsUnique
  <2> QED
    BY <2>3, <2>4
<1>10. \A sec \in 1 .. MaxTime : clock < sec => perSecond'[sec] = 0
  BY <1>1, <1>4, <1>5 DEF RingInv
<1>11. \A sec \in 1 .. MaxTime :
        clock < sec \/ (clock < sec + RingLen /\ ring'[Slot(sec)].ts # sec) => perSecond'[sec] = 0
  BY <1>4, <1>9, <1>10
<1> QED
  BY <1>4, <1>8, <1>11 DEF RingInv, Slot

(***************************************************************************)
(* The rolling window is exact: for every second of it Series shows the    *)
(* events recorded in that second, whatever the length of the ring and the *)
(* number of requests, as long as no Record takes as long as the window.   *)
(***************************************************************************)
THEOREM CollectorSeriesIsExact == Spec => []SeriesExact
<1> USE CollectorConstants
<1>1. Init => RingInv
  <2> SUFFICES ASSUME Init PROVE RingInv
    OBVIOUS
  <2>1. \A i \in 0 .. RingLen - 1 : ring[i].ts = 0
    BY DEF Init, Bucket
  <2> QED
    BY <2>1 DEF Init, RingInv
<1>2. Types /\ RingInv /\ [Next]_vars => RingInv'
  <2> SUFFICES ASSUME Types, RingInv, [Next]_vars PROVE RingInv'
    OBVIOUS
  <2>1. CASE Tick
    <3>1. clock' = clock + 1 /\ clock \in Nat /\ ring' = ring /\ perSecond' = perSecond
      BY <2>1 DEF Tick, Types, Shared
    <3>2. ASSUME NEW sec \in 1 .. MaxTime,
                 clock + 1 < sec \/ (clock + 1 < sec + RingLen /\ ring[Slot(sec)].ts # sec)
          PROVE  perSecond[sec] = 0
      BY <3>1, <3>2 DEF RingInv
    <3> QED
      BY <3>1, <3>2 DEF RingInv, Slot
  <2>2. ASSUME NEW r \in Recorders, RecordSeries(r) PROVE RingInv'
    BY <2>2, RingStep
  <2>3. CASE UNCHANGED <<clock, ring, perSecond>>
    BY <2>3 DEF RingInv, Slot
  <2>4. KeeperStep => UNCHANGED <<clock, ring, perSecond>>
    BY KeeperDeletes
  <2>5. ASSUME NEW r \in Recorders, RecorderStep(r)
        PROVE  RecordSeries(r) \/ UNCHANGED <<clock, ring, perSecond>>
    BY <2>5 DEF RecorderStep, Begin, Add, LoadOrStore, CountRows, CollectRows, Evict,
                EvictDone, UpdateRow
  <2> QED
    BY <2>1, <2>2, <2>3, <2>4, <2>5, AllSteps DEF vars
<1>3. Types /\ RingInv => SeriesExact
  <2> SUFFICES ASSUME Types, RingInv, NEW sec \in 1 .. clock, sec > clock - RingLen
               PROVE  Series(clock)[sec].total = perSecond[sec]
    BY DEF SeriesExact
  <2>1. clock \in 1 .. MaxTime /\ ring \in [0 .. RingLen - 1 -> Buckets]
    BY DEF Types, Shared
  <2>2. sec \in 1 .. MaxTime /\ sec \in clock - RingLen + 1 .. clock /\ clock < sec + RingLen
    BY <2>1
  <2>3. PICK j \in 0 .. RingLen - 1 : j = sec % RingLen /\ j = Slot(sec)
    BY <2>2 DEF Slot
  <2>4. Series(clock)[sec] = IF ring[j].ts # sec THEN Bucket(sec) ELSE ring[j]
    BY <2>2, <2>3 DEF Series
  <2>5. CASE ring[j].ts = sec
    BY <2>2, <2>4, <2>5 DEF RingInv
  <2>6. CASE ring[j].ts # sec
    <3>1. Bucket(sec).total = 0
      BY DEF Bucket
    <3> QED
      BY <2>2, <2>3, <2>4, <2>6, <3>1 DEF RingInv
  <2> QED
    BY <2>5, <2>6
<1> QED
  BY <1>1, <1>2, <1>3, InitTyped, NextTyped, PTL DEF Spec

-----------------------------------------------------------------------------
(* The table.  When it is over its cap, some recorder is on its way to     *)
(* count it, or holds a list of victims that would bring it back.          *)

Cap == MaxClients + CapSlack

Excused(r) ==
    \/ rec[r].pc \in {"count", "collect"}
    \/ rec[r].pc = "evict" /\ Cardinality(Tracked \ rec[r].victims) <= Cap

TableInv ==
    /\ IsFiniteSet(Tracked)
    /\ Cardinality(Tracked) <= Cap \/ \E r \in Recorders : Excused(r)

LEMMA TrackedShrinks ==
    ASSUME IsFiniteSet(Tracked), Tracked' \subseteq Tracked
    PROVE  /\ IsFiniteSet(Tracked')
           /\ Cardinality(Tracked) <= Cap => Cardinality(Tracked') <= Cap
           /\ \A q \in Recorders : Excused(q) /\ rec'[q] = rec[q] => Excused(q)'
<1>1. Cap \in Nat /\ Cap' = Cap
  BY CollectorConstants DEF Cap
<1>2. ASSUME NEW V PROVE
        /\ IsFiniteSet(Tracked' \ V)
        /\ Cardinality(Tracked \ V) <= Cap => Cardinality(Tracked' \ V) <= Cap
  <2>1. IsFiniteSet(Tracked \ V)
    BY FS_Difference
  <2>2. Tracked' \ V \subseteq Tracked \ V
    OBVIOUS
  <2>3. /\ IsFiniteSet(Tracked' \ V) /\ Cardinality(Tracked' \ V) <= Cardinality(Tracked \ V)
        /\ Cardinality(Tracked' \ V) \in Nat /\ Cardinality(Tracked \ V) \in Nat
    BY <2>1, <2>2, FS_Subset, FS_CardinalityType
  <2> QED
    BY <1>1, <2>3
<1>3. Tracked \ {} = Tracked /\ Tracked' \ {} = Tracked'
  OBVIOUS
<1>4. /\ IsFiniteSet(Tracked')
      /\ Cardinality(Tracked) <= Cap => Cardinality(Tracked') <= Cap
  BY <1>2, <1>3
<1>5. ASSUME NEW q \in Recorders, Excused(q), rec'[q] = rec[q]
      PROVE  Excused(q)'
  <2>1. CASE rec[q].pc \in {"count", "collect"}
    BY <1>5, <2>1 DEF Excused
  <2>2. CASE rec[q].pc = "evict" /\ Cardinality(Tracked \ rec[q].victims) <= Cap
    <3>1. Cardinality(Tracked' \ rec[q].victims) <= Cap
      BY <1>2, <2>2
    <3> QED
      BY <1>1, <1>5, <2>2, <3>1 DEF Excused
  <2> QED
    BY <1>5, <2>1, <2>2 DEF Excused
<1> QED
  BY <1>4, <1>5

\* The victims of a collection are as many as there are rows too many.
LEMMA OldestSuffice ==
    ASSUME IsFiniteSet(Tracked), NEW V \in SUBSET Tracked, Oldest(V)
    PROVE  Cardinality(Tracked \ V) <= Cap
<1> USE CollectorConstants
<1>1. PICK c \in Nat : c = Cardinality(Tracked)
  BY FS_CardinalityType
<1>2. Cardinality(V) = Max({0, c - MaxClients})
  BY <1>1 DEF Oldest
<1>3. Max({0, c - MaxClients}) >= c - MaxClients
  <2>1. \E x \in {0, c - MaxClients} : \A y \in {0, c - MaxClients} : x >= y
    BY <1>1
  <2>2. \A y \in {0, c - MaxClients} : Max({0, c - MaxClients}) >= y
    BY <2>1 DEF Max
  <2> QED
    BY <2>2
<1>4. IsFiniteSet(V) /\ Cardinality(V) \in Nat /\ Tracked \cap V = V
  BY FS_Subset, FS_CardinalityType
<1>5. Cardinality(Tracked \ V) = Cardinality(Tracked) - Cardinality(Tracked \cap V)
  BY FS_Difference
<1>6. PICK v \in Nat : v = Cardinality(V) /\ v >= c - MaxClients
  BY <1>2, <1>3, <1>4
<1>7. Cardinality(Tracked \ V) = c - v
  BY <1>1, <1>4, <1>5, <1>6
<1> QED
  BY <1>6, <1>7 DEF Cap

LEMMA TableStep ==
    ASSUME Types, TableInv, NEW r \in Recorders, RecorderStep(r)
    PROVE  TableInv'
<1> USE CollectorConstants
<1>0. IsFiniteSet(Tracked) /\ rec = [q \in Recorders |-> rec[q]]
      /\ table \in [Keys -> Nat]
  BY DEF TableInv, Types, Recorded, Shared
<1>1. CASE LoadOrStore(r)
  <2>1. PICK k \in Keys : k = rec[r].ev.key
    BY <1>1, Inside DEF LoadOrStore, Recording
  <2>2. CASE table[k] # 0
    <3>1. table' = table /\ Tracked' = Tracked
      BY <1>1, <2>1, <2>2 DEF LoadOrStore, Tracked
    <3>2. \A q \in Recorders : q # r => rec'[q] = rec[q]
      BY <1>0, <1>1, Steps DEF Goes
    <3>3. ~Excused(r)
      BY <1>1 DEF LoadOrStore, Excused
    <3> QED
      BY <3>1, <3>2, <3>3, TrackedShrinks DEF TableInv, Cap
  <2>3. CASE table[k] = 0
    <3>1. table' = [table EXCEPT ![k] = rec[r].id] /\ rec'[r].pc = "count"
      BY <1>1, <2>1, <2>3, Steps DEF LoadOrStore, Goes
    <3>2. Tracked' \subseteq Tracked \cup {k}
      BY <1>0, <3>1 DEF Tracked
    <3>3. IsFiniteSet(Tracked')
      BY <1>0, <3>2, FS_AddElement, FS_Subset
    <3> QED
      BY <3>1, <3>3 DEF TableInv, Excused
  <2> QED
    BY <2>2, <2>3
<1>2. ASSUME ~LoadOrStore(r) PROVE Tracked' \subseteq Tracked
  <2>1. table' = table \/ \E k \in Keys : table' = [table EXCEPT ![k] = 0]
    <3>1. CASE Evict(r)
      <4>1. rec[r].victims \subseteq Keys
        BY <3>1, Inside DEF Evict
      <4> QED
        BY <3>1, <4>1 DEF Evict
    <3> QED
      BY <1>2, <3>1 DEF RecorderStep, Begin, Add, RecordSeries, CountRows, CollectRows,
                        EvictDone, UpdateRow
  <2> QED
    BY <1>0, <2>1 DEF Tracked
<1>3. ASSUME ~LoadOrStore(r), ~Excused(r) PROVE TableInv'
  <2>1. \A q \in Recorders : q # r => rec'[q] = rec[q]
    BY <1>0, <1>3, Steps DEF RecorderStep, Begin, Goes, Leaves
  <2> QED
    BY <1>0, <1>2, <1>3, <2>1, TrackedShrinks DEF TableInv, Cap
<1>4. CASE CountRows(r)
  <2>1. table' = table /\ Tracked' = Tracked
    BY <1>4 DEF CountRows, Tracked
  <2>2. rec'[r].pc = "collect" \/ WithinCap
    BY <1>4, Steps DEF Goes
  <2> QED
    BY <1>0, <2>1, <2>2 DEF TableInv, Excused, WithinCap, Cap
<1>5. CASE CollectRows(r)
  <2>1. /\ Goes(r, "evict") /\ rec'[r].victims \in SUBSET Tracked
        /\ Oldest(rec'[r].victims) /\ table' = table /\ Tracked' = Tracked
    BY <1>5, Steps DEF CollectRows, Tracked
  <2>2. Cardinality(Tracked \ rec'[r].victims) <= Cap
    BY <1>0, <2>1, OldestSuffice
  <2> QED
    BY <1>0, <2>1, <2>2 DEF TableInv, Excused, Goes, Cap
<1>6. CASE Evict(r)
  <2>1. PICK k \in rec[r].victims : /\ table' = [table EXCEPT ![k] = 0]
                                    /\ rec'[r].victims = rec[r].victims \ {k}
    BY <1>6, Steps
  <2>2. Goes(r, "evict") /\ rec[r].pc = "evict" /\ Tracked' \subseteq Tracked
    BY <1>2, <1>6, Steps DEF Evict, LoadOrStore
  <2>3. Tracked' \ rec'[r].victims = Tracked \ rec[r].victims
    BY <1>0, <2>1 DEF Tracked
  <2>4. Excused(r) => Excused(r)'
    BY <2>2, <2>3 DEF Excused, Goes, Cap
  <2>5. \A q \in Recorders : q # r => rec'[q] = rec[q]
    BY <1>0, <2>2 DEF Goes
  <2> QED
    BY <1>0, <2>2, <2>4, <2>5, TrackedShrinks DEF TableInv, Cap
<1>7. CASE EvictDone(r)
  <2>1. rec[r].pc = "evict" /\ rec[r].victims = {} /\ Tracked' = Tracked /\ Goes(r, "row")
    BY <1>7, Steps DEF EvictDone, Tracked
  <2>2. Excused(r) => Cardinality(Tracked) <= Cap
    <3>1. Tracked \ {} = Tracked
      OBVIOUS
    <3> QED
      BY <2>1, <3>1 DEF Excused
  <2>3. \A q \in Recorders : q # r => rec'[q] = rec[q]
    BY <1>0, <2>1 DEF Goes
  <2> QED
    BY <1>0, <2>1, <2>2, <2>3, TrackedShrinks DEF TableInv, Cap
<1>8. Excused(r) /\ ~LoadOrStore(r) => CountRows(r) \/ CollectRows(r) \/ Evict(r) \/ EvictDone(r)
  BY DEF RecorderStep, Begin, Busy, Add, RecordSeries, UpdateRow, Excused
<1> QED
  BY <1>1, <1>3, <1>4, <1>5, <1>6, <1>7, <1>8

(***************************************************************************)
(* enforceClientCap keeps the table bounded, for any number of requests    *)
(* that store new clients and evict old ones at once.                      *)
(***************************************************************************)
THEOREM CollectorTableIsBounded == Spec => []TableBounded
<1> USE CollectorConstants
<1>1. Init => TableInv
  <2> SUFFICES ASSUME Init PROVE TableInv
    OBVIOUS
  <2>1. Tracked = {}
    BY DEF Init, Tracked
  <2> QED
    BY <2>1, FS_EmptySet DEF TableInv, Cap
<1>2. Types /\ TableInv /\ [Next]_vars => TableInv'
  <2> SUFFICES ASSUME Types, TableInv, [Next]_vars PROVE TableInv'
    OBVIOUS
  <2>1. ASSUME UNCHANGED rec, Tracked' \subseteq Tracked PROVE TableInv'
    BY <2>1, TrackedShrinks DEF TableInv, Cap
  <2>2. CASE Tick \/ UNCHANGED vars
    BY <2>1, <2>2 DEF Tick, vars, Tracked
  <2>3. CASE KeeperStep
    <3>1. table \in [Keys -> Nat]
      BY DEF Types, Shared
    <3> QED
      BY <2>1, <2>3, <3>1, KeeperDeletes DEF Tracked
  <2> QED
    BY <2>2, <2>3, AllSteps, TableStep
<1>3. TableInv => TableBounded
  BY DEF TableInv, Excused, TableBounded, Cap
<1> QED
  BY <1>1, <1>2, <1>3, InitTyped, NextTyped, PTL DEF Spec

-----------------------------------------------------------------------------
(* The rows.  Each belongs to one key, and no one else holds the row that  *)
(* a recorder may still store; so only a Record of a key writes the row of *)
(* that key, and a sweep about to delete it has been touched by then.      *)

Holding(r) == rec[r].pc \in {"count", "collect", "evict", "row"}

Unstored(r) == rec[r].pc \in {"add", "client"}

OneOwner == \A j, k \in Keys : table[j] = table[k] /\ table[j] # 0 => j = k

HeldByOwner ==
    \A r \in Recorders : Holding(r) =>
        \A k \in Keys : table[k] = rec[r].row => k = rec[r].ev.key

Unused ==
    \A r \in Recorders : Unstored(r) =>
        /\ \A k \in Keys : table[k] # rec[r].id
        /\ \A q \in Recorders :
            /\ Holding(q) => rec[q].row # rec[r].id
            /\ Unstored(q) /\ rec[q].id = rec[r].id => q = r

Owned == OneOwner /\ HeldByOwner /\ Unused

Sweeping ==
    /\ keeper.pc \in {"scan", "delete"} => keeper.cutoff <= clock - ClientTTL
    /\ keeper.pc = "delete" /\ ~keeper.touched /\ keeper.key \in Tracked =>
        row[table[keeper.key]].lastSeen < keeper.cutoff

LEMMA OwnedKept ==
    ASSUME Types, Owned,
           \A k \in Keys : table'[k] = table[k] \/ table'[k] = 0,
           \A q \in Recorders : Holding(q)' =>
                Holding(q) /\ rec'[q].row = rec[q].row /\ rec'[q].ev = rec[q].ev,
           \A q \in Recorders : Unstored(q)' => Unstored(q) /\ rec'[q].id = rec[q].id
    PROVE  Owned'
<1>1. \A q \in Recorders : Holding(q) => rec[q].row \in Nat /\ rec[q].row # 0
  BY Inside DEF Holding, Recording
<1>2. \A q \in Recorders : Unstored(q) => rec[q].id \in Nat /\ rec[q].id # 0
  BY Inside DEF Unstored, Recording
<1>3. OneOwner'
  BY DEF Owned, OneOwner
<1>4. HeldByOwner'
  BY <1>1 DEF Owned, HeldByOwner
<1>5. Unused'
  <2> SUFFICES ASSUME NEW r \in Recorders, Unstored(r)'
               PROVE  /\ \A k \in Keys : table'[k] # rec'[r].id
                      /\ \A q \in Recorders :
                            /\ Holding(q)' => rec'[q].row # rec'[r].id
                            /\ Unstored(q)' /\ rec'[q].id = rec'[r].id => q = r
    BY DEF Unused
  <2>1. Unstored(r) /\ rec'[r].id = rec[r].id
    OBVIOUS
  <2> QED
    BY <1>2, <2>1 DEF Owned, Unused
<1> QED
  BY <1>3, <1>4, <1>5 DEF Owned

LEMMA OwnedStep ==
    ASSUME Types, Owned, NEW r \in Recorders, RecorderStep(r)
    PROVE  Owned'
<1> USE CollectorConstants
<1>0. /\ rec = [q \in Recorders |-> rec[q]] /\ table \in [Keys -> Nat] /\ events \in Nat
      /\ \A k \in Keys : table[k] <= events
  BY DEF Types, Recorded, Shared
<1>1. ASSUME NEW ev \in Events, Begin(r, ev) PROVE Owned'
  <2>1. /\ rec'[r].pc = "add" /\ rec'[r].id = events + 1 /\ table' = table
        /\ \A q \in Recorders : q # r => rec'[q] = rec[q]
    BY <1>0, <1>1 DEF Begin
  <2>2. Unstored(r)' /\ ~Holding(r)'
    BY <2>1 DEF Unstored, Holding
  <2>3. \A q \in Recorders : /\ Holding(q) => rec[q].row # events + 1
                             /\ Unstored(q) => rec[q].id # events + 1
    <3> SUFFICES ASSUME NEW q \in Recorders, Holding(q) \/ Unstored(q)
                 PROVE  rec[q].row # events + 1 /\ rec[q].id # events + 1
      OBVIOUS
    <3>1. rec[q].pc # "idle"
      BY DEF Holding, Unstored
    <3>2. Recording(rec[q], clock, events) /\ rec[q].row \in Nat /\ rec[q].id \in Nat
      BY <3>1, Inside
    <3> QED
      BY <1>0, <3>2 DEF Recording
  <2>4. \A q \in Recorders : q # r => (Holding(q)' <=> Holding(q)) /\ (Unstored(q)' <=> Unstored(q))
    BY <2>1 DEF Holding, Unstored
  <2>5. OneOwner' /\ HeldByOwner'
    BY <2>1, <2>2, <2>4 DEF Owned, OneOwner, HeldByOwner
  <2>6. Unused'
    <3> SUFFICES ASSUME NEW p \in Recorders, Unstored(p)'
                 PROVE  /\ \A k \in Keys : table[k] # rec'[p].id
                        /\ \A q \in Recorders :
                              /\ Holding(q)' => rec'[q].row # rec'[p].id
                              /\ Unstored(q)' /\ rec'[q].id = rec'[p].id => q = p
      BY <2>1 DEF Unused
    <3>1. CASE p = r
      <4>1. \A k \in Keys : table[k] # events + 1
        BY <1>0
      <4> QED
        BY <2>1, <2>2, <2>3, <2>4, <3>1, <4>1
    <3>2. CASE p # r
      BY <2>1, <2>2, <2>3, <2>4, <3>2 DEF Owned, Unused
    <3> QED
      BY <3>1, <3>2
  <2> QED
    BY <2>5, <2>6 DEF Owned
<1>2. CASE LoadOrStore(r)
  <2>1. PICK k \in Keys : k = rec[r].ev.key
    BY <1>2, Inside DEF LoadOrStore, Recording
  <2>2. /\ rec[r].pc = "client" /\ Unstored(r) /\ rec[r].id \in Nat
        /\ \A q \in Recorders : q # r => rec'[q] = rec[q]
        /\ rec'[r].ev = rec[r].ev /\ Holding(r)' /\ ~Unstored(r)'
    BY <1>0, <1>2, Inside, Steps DEF LoadOrStore, Goes, Unstored, Holding
  <2>3. \A q \in Recorders : q # r => (Holding(q)' <=> Holding(q)) /\ (Unstored(q)' <=> Unstored(q))
    BY <2>2 DEF Holding, Unstored
  <2>4. CASE table[k] # 0
    <3>1. rec'[r].row = table[k] /\ table' = table
      BY <1>2, <2>1, <2>4, Steps DEF LoadOrStore
    <3>2. OneOwner'
      BY <3>1 DEF Owned, OneOwner
    <3>3. HeldByOwner'
      BY <2>1, <2>2, <2>3, <2>4, <3>1 DEF Owned, OneOwner, HeldByOwner
    <3>4. Unused'
      BY <2>2, <2>3, <3>1 DEF Owned, Unused
    <3> QED
      BY <3>2, <3>3, <3>4 DEF Owned
  <2>5. CASE table[k] = 0
    <3>1. rec'[r].row = rec[r].id /\ table' = [table EXCEPT ![k] = rec[r].id]
      BY <1>2, <2>1, <2>5, Steps DEF LoadOrStore
    <3>2. table'[k] = rec[r].id /\ \A j \in Keys : j # k => table'[j] = table[j]
      BY <1>0, <3>1
    <3>3. \A j \in Keys : table[j] # rec[r].id
      BY <2>2 DEF Owned, Unused
    <3>4. OneOwner'
      BY <3>2, <3>3 DEF Owned, OneOwner
    <3>5. HeldByOwner'
      BY <2>1, <2>2, <2>3, <3>1, <3>2, <3>3 DEF Owned, Unused, HeldByOwner
    <3>6. Unused'
      BY <2>2, <2>3, <3>1, <3>2 DEF Owned, Unused
    <3> QED
      BY <3>4, <3>5, <3>6 DEF Owned
  <2> QED
    BY <2>4, <2>5
<1>3. ASSUME Add(r) \/ RecordSeries(r) \/ CountRows(r) \/ CollectRows(r) \/ Evict(r)
             \/ EvictDone(r) \/ UpdateRow(r)
      PROVE  Owned'
  <2>1. \A q \in Recorders : q # r => rec'[q] = rec[q]
    BY <1>0, <1>3, Steps DEF Goes, Leaves
  <2>2. /\ Holding(r)' => Holding(r) /\ rec'[r].row = rec[r].row /\ rec'[r].ev = rec[r].ev
        /\ Unstored(r)' => Unstored(r) /\ rec'[r].id = rec[r].id
    <3>1. CASE Leaves(r)
      BY <3>1 DEF Leaves, Idle, Holding, Unstored
    <3>2. CASE Add(r) \/ RecordSeries(r)
      BY <3>1, <3>2, Steps DEF Goes, Holding, Unstored, Add, RecordSeries
    <3>3. CASE CountRows(r) \/ CollectRows(r) \/ Evict(r) \/ EvictDone(r)
      BY <3>3, Steps DEF Goes, Holding, Unstored, CountRows, CollectRows, Evict, EvictDone
    <3> QED
      BY <1>3, <3>1, <3>2, <3>3, Steps
  <2>3. \A k \in Keys : table'[k] = table[k] \/ table'[k] = 0
    <3>1. CASE table' = table
      BY <3>1
    <3>2. ASSUME NEW j, table' = [table EXCEPT ![j] = 0]
          PROVE  \A k \in Keys : table'[k] = table[k] \/ table'[k] = 0
      BY <1>0, <3>2
    <3> QED
      BY <1>3, <3>1, <3>2 DEF Add, RecordSeries, CountRows, CollectRows, Evict, EvictDone,
                              UpdateRow
  <2>4. \A q \in Recorders :
          /\ Holding(q)' => Holding(q) /\ rec'[q].row = rec[q].row /\ rec'[q].ev = rec[q].ev
          /\ Unstored(q)' => Unstored(q) /\ rec'[q].id = rec[q].id
    BY <2>1, <2>2 DEF Holding, Unstored
  <2> QED
    BY <2>3, <2>4, OwnedKept
<1> QED
  BY <1>1, <1>2, <1>3 DEF RecorderStep

LEMMA SweeperFields ==
    ASSUME Types, keeper.pc \in {"scan", "delete"}
    PROVE  /\ keeper.cutoff \in Int
           /\ keeper.pc = "scan" => keeper \in Scans
           /\ keeper.pc = "delete" => keeper \in Deletes /\ keeper.key \in Keys
                                      /\ keeper.touched \in BOOLEAN
<1>1. keeper \in Scans \cup Deletes
  BY DEF Types, Kept, Idle, Snapshots, Resets
<1>2. /\ keeper.pc = "scan" => keeper \in Scans
      /\ keeper.pc = "delete" => keeper \in Deletes
  BY <1>1 DEF Scans, Deletes
<1> QED
  BY <1>1, <1>2 DEF Scans, Deletes

\* A row that is in the table is one of the rows.
LEMMA TrackedRow ==
    ASSUME Types, NEW k \in Tracked
    PROVE  /\ k \in Keys /\ table[k] \in 1 .. MaxEvents /\ row[table[k]].lastSeen \in Int
<1>1. k \in Keys /\ table[k] # 0
  BY DEF Tracked
<1>2. table[k] \in Nat /\ table[k] <= events /\ events \in Nat /\ events <= MaxEvents
  BY <1>1, CollectorConstants DEF Types, Shared
<1>3. table[k] \in 1 .. MaxEvents
  BY <1>1, <1>2, CollectorConstants
<1> QED
  BY <1>1, <1>3 DEF Types, Shared, Rows

\* A step of recordClient: it marks the sweep of its own key and no other.
LEMMA TouchKeeps ==
    ASSUME Types, Sweeping, NEW k, Touch(k), clock' = clock,
           \A j \in Keys : j # k /\ j \in Tracked' =>
                j \in Tracked /\ row'[table'[j]] = row[table[j]]
    PROVE  Sweeping'
<1>1. CASE keeper.pc = "delete" /\ keeper.key = k
  <2>1. keeper' = [keeper EXCEPT !.touched = TRUE] /\ keeper \in Deletes
    BY <1>1, SweeperFields DEF Touch
  <2>2. keeper'.pc = "delete" /\ keeper'.touched = TRUE /\ keeper'.cutoff = keeper.cutoff
    BY <1>1, <2>1 DEF Deletes
  <2> QED
    BY <1>1, <2>2 DEF Sweeping
<1>2. CASE ~(keeper.pc = "delete" /\ keeper.key = k)
  <2>1. keeper' = keeper
    BY <1>2 DEF Touch
  <2>2. ASSUME keeper.pc = "delete", ~keeper.touched, keeper.key \in Tracked'
        PROVE  row'[table'[keeper.key]].lastSeen < keeper.cutoff
    <3>1. keeper.key \in Keys /\ keeper.key # k
      BY <1>2, <2>2, SweeperFields
    <3>2. keeper.key \in Tracked /\ row'[table'[keeper.key]] = row[table[keeper.key]]
      BY <2>2, <3>1
    <3> QED
      BY <2>2, <3>2 DEF Sweeping
  <2> QED
    BY <2>1, <2>2 DEF Sweeping
<1> QED
  BY <1>1, <1>2

LEMMA SweepingStep ==
    ASSUME Types, Owned, Sweeping, NEW r \in Recorders, RecorderStep(r)
    PROVE  Sweeping'
<1> USE CollectorConstants
<1>0. /\ table \in [Keys -> Nat] /\ row \in [1 .. MaxEvents -> Rows]
  BY DEF Types, Shared
<1>1. CASE LoadOrStore(r)
  <2>1. PICK k \in Keys : k = rec[r].ev.key
    BY <1>1, Inside DEF LoadOrStore, Recording
  <2>2. /\ Touch(k) /\ clock' = clock /\ row' = row
        /\ table' = table \/ table' = [table EXCEPT ![k] = rec[r].id]
    BY <1>1, <2>1 DEF LoadOrStore
  <2>3. \A j \in Keys : j # k /\ j \in Tracked' => j \in Tracked /\ table'[j] = table[j]
    BY <1>0, <2>2 DEF Tracked
  <2> QED
    BY <2>2, <2>3, TouchKeeps
<1>2. CASE UpdateRow(r)
  <2>1. /\ Touch(rec[r].ev.key) /\ clock' = clock /\ table' = table /\ Tracked' = Tracked
        /\ Holding(r)
    BY <1>2 DEF UpdateRow, Tracked, Holding
  <2>2. PICK n : row' = [row EXCEPT ![rec[r].row] = n]
    BY <1>2 DEF UpdateRow
  <2>3. ASSUME NEW j \in Tracked, j # rec[r].ev.key PROVE row'[table[j]] = row[table[j]]
    <3>1. table[j] # rec[r].row
      BY <2>1, <2>3, TrackedRow DEF Owned, HeldByOwner
    <3> QED
      BY <1>0, <2>2, <3>1, TrackedRow
  <2> QED
    BY <2>1, <2>3, TouchKeeps
<1>3. ASSUME ~LoadOrStore(r), ~UpdateRow(r) PROVE Sweeping'
  <2>1. /\ keeper' = keeper /\ clock' = clock /\ row' = row
        /\ table' = table \/ \E k : table' = [table EXCEPT ![k] = 0]
    BY <1>3 DEF RecorderStep, Begin, Add, RecordSeries, CountRows, CollectRows, Evict, EvictDone
  <2>2. \A j \in Tracked' : j \in Tracked /\ table'[j] = table[j]
    BY <1>0, <2>1 DEF Tracked
  <2>3. Sweeping
    OBVIOUS
  <2> QED
    BY <2>1, <2>2, <2>3 DEF Sweeping
<1> QED
  BY <1>1, <1>2, <1>3

LEMMA SweepingKeeper ==
    ASSUME Types, Sweeping, KeeperStep
    PROVE  Sweeping'
<1> USE CollectorConstants
<1>0. /\ clock' = clock /\ row' = row /\ clock \in Nat
      /\ table' = table \/ \E k \in Keys : table' = [table EXCEPT ![k] = 0]
  BY KeeperDeletes DEF Types, Shared
<1>1. CASE SnapshotBegin \/ SnapshotLoad \/ SnapshotEnd \/ SweepEnd \/ ResetClients \/ ResetEnd
           \/ \E k \in Keys : ResetDelete(k)
  <2>1. keeper'.pc \in {"snapshot", "idle", "reset"}
    <3>1. ASSUME SnapshotLoad PROVE keeper'.pc = "snapshot"
      BY <3>1 DEF SnapshotLoad, Types, Kept, Idle, Snapshots, Scans, Deletes, Resets
    <3>2. ASSUME NEW k \in Keys, ResetDelete(k) PROVE keeper'.pc = "reset"
      BY <3>2 DEF ResetDelete, Types, Kept, Idle, Snapshots, Scans, Deletes, Resets
    <3> QED
      BY <1>1, <3>1, <3>2 DEF SnapshotBegin, SnapshotEnd, SweepEnd, ResetClients, ResetEnd, Idle
  <2> QED
    BY <2>1 DEF Sweeping
<1>2. CASE SweepBegin
  BY <1>0, <1>2 DEF SweepBegin, Sweeping
<1>3. CASE SweepDelete
  BY <1>0, <1>3 DEF SweepDelete, Sweeping
<1>4. ASSUME NEW k \in Keys, SweepCheck(k) PROVE Sweeping'
  <2>1. keeper \in Scans /\ keeper.cutoff <= clock - ClientTTL /\ table' = table
        /\ Tracked' = Tracked
    BY <1>4, SweeperFields DEF SweepCheck, Sweeping, Tracked
  <2>2. CASE keeper' = [keeper EXCEPT !.left = @ \ {k}]
    <3>1. keeper'.pc = "scan" /\ keeper'.cutoff = keeper.cutoff
      BY <2>1, <2>2 DEF Scans
    <3> QED
      BY <1>0, <2>1, <3>1 DEF Sweeping
  <2>3. CASE /\ Stale(k, keeper.cutoff)
             /\ keeper' = [pc |-> "delete", cutoff |-> keeper.cutoff,
                           left |-> keeper.left \ {k}, key |-> k, touched |-> RecordingNow(k)]
    BY <1>0, <2>1, <2>3 DEF Sweeping, Stale
  <2> QED
    BY <1>4, <2>2, <2>3 DEF SweepCheck
<1> QED
  BY <1>1, <1>2, <1>3, <1>4 DEF KeeperStep

LEMMA InitOwned == Init => Owned
  BY CollectorConstants DEF Init, Owned, OneOwner, HeldByOwner, Unused, Holding, Unstored, Idle

LEMMA OwnedNext ==
    ASSUME Types, Owned, [Next]_vars
    PROVE  Owned'
<1>0. table \in [Keys -> Nat]
  BY DEF Types, Shared
<1>1. ASSUME UNCHANGED rec, \A k \in Keys : table'[k] = table[k] \/ table'[k] = 0
      PROVE  Owned'
  BY <1>1, OwnedKept DEF Holding, Unstored
<1>2. CASE Tick \/ KeeperStep \/ UNCHANGED vars
  BY <1>0, <1>1, <1>2, KeeperDeletes DEF Tick, vars
<1> QED
  BY <1>2, AllSteps, OwnedStep

(***************************************************************************)
(* Sweep forgets no client that was seen within its TTL, except one with a *)
(* request in recordClient between the look at its row and the delete.     *)
(***************************************************************************)
THEOREM CollectorSweepsIdle == Spec => SweptIsIdle
<1> USE CollectorConstants
<1> DEFINE Inv == Types /\ Owned /\ Sweeping
<1>1. Init => Inv
  <2> SUFFICES ASSUME Init PROVE Sweeping
    BY InitTyped, InitOwned
  <2> QED
    BY DEF Init, Sweeping, Idle
<1>2. Inv /\ [Next]_vars => Inv'
  <2> SUFFICES ASSUME Types, Owned, Sweeping, [Next]_vars PROVE Sweeping'
    BY NextTyped, OwnedNext
  <2>1. clock \in Nat
    BY DEF Types, Shared
  <2>2. CASE Tick
    <3>1. clock' = clock + 1 /\ UNCHANGED <<table, row, rec, keeper>>
      BY <2>2 DEF Tick
    <3>2. Tracked' = Tracked
      BY <3>1 DEF Tracked
    <3> QED
      BY <2>1, <3>1, <3>2, SweeperFields DEF Sweeping
  <2>3. CASE UNCHANGED vars
    BY <2>3 DEF vars, Sweeping, Tracked
  <2>4. CASE KeeperStep
    BY <2>4, SweepingKeeper
  <2> QED
    BY <2>2, <2>3, <2>4, AllSteps, SweepingStep
<1>3. Inv => (keeper.pc = "delete" /\ keeper'.pc = "scan" /\ keeper.key \in Tracked =>
                keeper.touched \/ row[table[keeper.key]].lastSeen < clock - ClientTTL)
  <2> SUFFICES ASSUME Types, Sweeping, keeper.pc = "delete", keeper.key \in Tracked,
                      ~keeper.touched
               PROVE  row[table[keeper.key]].lastSeen < clock - ClientTTL
    OBVIOUS
  <2>1. /\ row[table[keeper.key]].lastSeen \in Int /\ keeper.cutoff \in Int /\ clock \in Int
    BY TrackedRow, SweeperFields DEF Types, Shared
  <2>2. row[table[keeper.key]].lastSeen < keeper.cutoff /\ keeper.cutoff <= clock - ClientTTL
    BY DEF Sweeping
  <2> QED
    BY <2>1, <2>2
<1> HIDE DEF Inv
<1> QED
  BY <1>1, <1>2, <1>3, PTL DEF Spec, SweptIsIdle

-----------------------------------------------------------------------------
(* The counters.  What one is short of the one before it is the number of  *)
(* recorders between the two.                                              *)

Decision == {"allowed", "blocked"}

\* Which addition may come after which; the last one is that of the latency.
Follows(a, b) ==
    \/ a = "total" /\ b \in Decision
    \/ a \in Decision /\ b \in {"errors", "latCount"}
    \/ a = "errors" /\ b = "latCount"

Chain(t) == t \in Seq(Counters) /\ \A i \in 1 .. Len(t) - 1 : Follows(t[i], t[i + 1])

Remainder(t) == Chain(t) /\ (t # <<>> => t[Len(t)] = "latCount")

\* Recorders whose next addition is to one of some counters.
Adding(r) == rec[r].pc = "add" /\ rec[r].todo # <<>>

Before(names) == {r \in Recorders : Adding(r) /\ Head(rec[r].todo) \in names}

Decided == counter["allowed"] + counter["blocked"]

CounterInv ==
    /\ \A r \in Recorders : rec[r].pc = "add" => Remainder(rec[r].todo)
    /\ counter["total"] = Decided + Cardinality(Before(Decision))
    /\ Decided = counter["latCount"] + Cardinality(Before({"errors", "latCount"}))
    /\ counter["errors"] + Cardinality(Before({"errors"})) <= Decided

\* A Snapshot has n loads to go.  What it has loaded, against what it will load.
ViewInv ==
    LET N == Cardinality(Recorders)
        n == Len(keeper.todo)
        got == keeper.got
    IN keeper.pc = "snapshot" =>
        /\ n <= 5 /\ \A i \in 1 .. n : keeper.todo[i] = Loads[(5 - n) + i]
        /\ n = 4 => got["total"] <= (counter["blocked"] + counter["allowed"]) + N
        /\ n \in {2, 3} => got["total"] <= (got["blocked"] + counter["allowed"]) + N
        /\ n \in {0, 1} => got["total"] <= (got["blocked"] + got["allowed"]) + N

\* The additions of a request so far, the last of them.
Grown(t, last) == Chain(t) /\ t # <<>> /\ t[1] = "total" /\ t[Len(t)] = last

LEMMA OneMore ==
    ASSUME NEW t, NEW m, Grown(t, m), NEW n \in Counters, Follows(m, n)
    PROVE  Grown(t \o <<n>>, n)
<1>1. /\ t \in Seq(Counters) /\ <<n>> \in Seq(Counters) /\ Len(t) \in Nat /\ Len(t) >= 1
      /\ Len(<<n>>) = 1 /\ <<n>>[1] = n
  BY DEF Grown, Chain
<1>2. PICK s : s = t \o <<n>>
  OBVIOUS
<1>3. /\ s \in Seq(Counters) /\ Len(s) = Len(t) + 1
      /\ \A i \in 1 .. Len(t) + 1 : s[i] = IF i <= Len(t) THEN t[i] ELSE <<n>>[i - Len(t)]
  BY <1>1, <1>2, ConcatProperties
<1>4. s[Len(t) + 1] = n /\ \A i \in 1 .. Len(t) : s[i] = t[i]
  BY <1>1, <1>3
<1>5. ASSUME NEW i \in 1 .. Len(t) PROVE Follows(s[i], s[i + 1])
  <2>1. CASE i = Len(t)
    BY <1>1, <1>4, <2>1 DEF Grown
  <2>2. CASE i # Len(t)
    <3>1. i \in 1 .. Len(t) - 1 /\ i + 1 \in 1 .. Len(t)
      BY <1>1, <2>2
    <3> QED
      BY <1>4, <3>1 DEF Grown, Chain
  <2> QED
    BY <2>1, <2>2
<1>6. s # <<>> /\ s[1] = "total" /\ s[Len(s)] = n
  BY <1>1, <1>3, <1>4 DEF Grown
<1>7. Chain(s)
  BY <1>1, <1>3, <1>5 DEF Chain
<1> QED
  BY <1>2, <1>6, <1>7 DEF Grown

LEMMA AddsRemain ==
    ASSUME NEW ev \in Events
    PROVE  Remainder(Adds(ev)) /\ Adds(ev) # <<>> /\ Head(Adds(ev)) = "total"
<1>1. ev.allowed \in BOOLEAN /\ ev.error \in BOOLEAN
  BY CollectorConstants
<1>2. {"total", "allowed", "blocked", "errors", "latCount"} = Counters
  BY DEF Counters
<1>3. \A t, m, n : Grown(t, m) => t \o One(n, TRUE) = t \o <<n>> /\ t \o One(n, FALSE) = t
  BY ConcatEmptySeq DEF One, Grown, Chain
<1>4. PICK t1 : t1 = <<"total">>
  OBVIOUS
<1>5. Grown(t1, "total")
  BY <1>2, <1>4 DEF Grown, Chain
<1>6. PICK t2, d : /\ t2 = (t1 \o One("allowed", ev.allowed)) \o One("blocked", ~ev.allowed)
                   /\ d \in Decision /\ Grown(t2, d)
  <2>0. \A x \in Decision : Grown(t1 \o <<x>>, x)
    BY <1>2, <1>5, OneMore DEF Follows, Decision
  <2>1. CASE ev.allowed = TRUE
    <3>1. t1 \o One("allowed", ev.allowed) = t1 \o <<"allowed">>
      BY <1>3, <1>5, <2>1
    <3>2. (t1 \o <<"allowed">>) \o One("blocked", ~ev.allowed) = t1 \o <<"allowed">>
      BY <1>3, <2>0, <2>1 DEF Decision
    <3> QED
      BY <2>0, <3>1, <3>2 DEF Decision
  <2>2. CASE ev.allowed = FALSE
    <3>1. t1 \o One("allowed", ev.allowed) = t1
      BY <1>3, <1>5, <2>2
    <3>2. t1 \o One("blocked", ~ev.allowed) = t1 \o <<"blocked">>
      BY <1>3, <1>5, <2>2
    <3> QED
      BY <2>0, <3>1, <3>2 DEF Decision
  <2> QED
    BY <1>1, <2>1, <2>2
<1>7. PICK t3, e : /\ t3 = t2 \o One("errors", ev.error)
                   /\ e \in Decision \cup {"errors"} /\ Grown(t3, e)
  <2>0. Grown(t2, d)
    BY <1>6
  <2>1. CASE ev.error = TRUE
    <3>1. t2 \o One("errors", ev.error) = t2 \o <<"errors">>
      BY <1>3, <2>0, <2>1
    <3>2. Grown(t2 \o <<"errors">>, "errors")
      BY <1>2, <1>6, OneMore DEF Follows
    <3> QED
      BY <3>1, <3>2
  <2>2. CASE ev.error = FALSE
    <3>1. t2 \o One("errors", ev.error) = t2
      BY <1>3, <2>0, <2>2
    <3> QED
      BY <1>6, <3>1
  <2> QED
    BY <1>1, <2>1, <2>2
<1>8. Grown(t3 \o <<"latCount">>, "latCount")
  BY <1>2, <1>7, OneMore DEF Follows
<1>9. Adds(ev) = t3 \o <<"latCount">>
  BY <1>4, <1>6, <1>7 DEF Adds
<1> QED
  BY <1>8, <1>9 DEF Grown, Remainder, Chain

\* Which addition follows which.
LEMMA RemainderStep ==
    ASSUME NEW t, Remainder(t), t # <<>>
    PROVE  /\ Remainder(Tail(t))
           /\ \/ Head(t) = "latCount" /\ Tail(t) = <<>>
              \/ Tail(t) # <<>> /\ Follows(Head(t), Head(Tail(t)))
<1>1. t \in Seq(Counters) /\ Len(t) \in Nat /\ Len(t) >= 1 /\ Head(t) = t[1]
  BY DEF Remainder, Chain
<1>2. PICK u : u = Tail(t)
  OBVIOUS
<1>3. /\ u \in Seq(Counters) /\ Len(u) = Len(t) - 1
      /\ \A i \in 1 .. Len(u) : u[i] = t[i + 1]
  BY <1>1, <1>2, HeadTailProperties
<1>4. Chain(u)
  <2>1. ASSUME NEW i \in 1 .. Len(u) - 1 PROVE Follows(u[i], u[i + 1])
    <3>1. i \in 1 .. Len(u) /\ i + 1 \in 1 .. Len(u) /\ i + 1 \in 1 .. Len(t) - 1
      BY <1>1, <1>3
    <3> QED
      BY <1>3, <3>1 DEF Remainder, Chain
  <2> QED
    BY <1>3, <2>1 DEF Chain
<1>5. CASE Len(t) = 1
  <2>1. u = <<>> /\ Head(t) = "latCount"
    BY <1>1, <1>3, <1>5, EmptySeq DEF Remainder
  <2> QED
    BY <1>2, <1>4, <2>1 DEF Remainder
<1>6. CASE Len(t) # 1
  <2>1. u # <<>> /\ Len(u) >= 1 /\ Head(u) = u[1] /\ u[1] = t[2] /\ u[Len(u)] = t[Len(t)]
    BY <1>1, <1>3, <1>6
  <2>2. Follows(t[1], t[2])
    <3>1. PICK n \in Nat : n = Len(t) /\ n >= 1 /\ n # 1
      BY <1>1, <1>6
    <3>2. 1 \in 1 .. n - 1
      BY <3>1
    <3> QED
      BY <3>1, <3>2 DEF Remainder, Chain
  <2> QED
    BY <1>1, <1>2, <1>4, <2>1, <2>2 DEF Remainder
<1> QED
  BY <1>5, <1>6

\* The step of one recorder changes the count by that recorder.
LEMMA BeforeCounts ==
    ASSUME NEW names, NEW r \in Recorders, \A q \in Recorders : q # r => rec'[q] = rec[q]
    PROVE  /\ Cardinality(Before(names)) \in Nat
           /\ Cardinality(Before(names)') =
                (Cardinality(Before(names)) - Bit(r \in Before(names))) + Bit(r \in Before(names)')
<1>1. PICK A, B, C : /\ A = Before(names) /\ B = Before(names)' /\ C = A \ {r}
                     /\ A \subseteq Recorders
  BY DEF Before
<1>2. C = B \ {r}
  BY <1>1 DEF Before, Adding
<1>3. IsFiniteSet(A) /\ IsFiniteSet(C) /\ r \notin C /\ Cardinality(A) \in Nat
      /\ Cardinality(C) \in Nat
  BY <1>1, CollectorAssumption, FS_Subset, FS_CardinalityType
<1>4. \A X : X \ {r} = C => Cardinality(X) = Cardinality(C) + Bit(r \in X)
  <2> SUFFICES ASSUME NEW X, X \ {r} = C
               PROVE  Cardinality(X) = Cardinality(C) + Bit(r \in X)
    OBVIOUS
  <2>1. CASE r \in X
    <3>1. X = C \cup {r}
      BY <2>1
    <3> QED
      BY <1>3, <2>1, <3>1, FS_AddElement DEF Bit
  <2>2. CASE r \notin X
    <3>1. X = C
      BY <2>2
    <3> QED
      BY <1>3, <2>2, <3>1 DEF Bit
  <2> QED
    BY <2>1, <2>2
<1>5. Cardinality(A) = Cardinality(C) + Bit(r \in A) /\ Cardinality(B) = Cardinality(C) + Bit(r \in B)
  BY <1>1, <1>2, <1>4
<1>6. Bit(r \in A) \in Nat /\ Bit(r \in B) \in Nat
  BY BitType
<1> QED
  BY <1>1, <1>3, <1>5, <1>6

LEMMA CounterAdd ==
    ASSUME Types, CounterInv, NEW r \in Recorders, Add(r)
    PROVE  CounterInv'
<1>1. /\ rec[r].pc = "add" /\ rec'[r].pc = "add" /\ rec'[r].todo = Tail(rec[r].todo)
      /\ \A q \in Recorders : q # r => rec'[q] = rec[q]
  <2>1. Goes(r, "add") /\ rec'[r].todo = Tail(rec[r].todo)
    BY Steps
  <2> QED
    BY <2>1 DEF Goes, Add, Types, Recorded
<1>2. PICK t, c : /\ t = rec[r].todo /\ c = Head(t) /\ t # <<>> /\ Remainder(t)
                  /\ counter' = [counter EXCEPT ![c] = @ + 1]
  BY DEF Add, CounterInv
<1>3. /\ Remainder(Tail(t))
      /\ \/ c = "latCount" /\ Tail(t) = <<>>
         \/ Tail(t) # <<>> /\ Follows(c, Head(Tail(t)))
  BY <1>2, RemainderStep
<1>4. /\ counter \in [Counters -> Nat] /\ c \in Counters
      /\ {"total", "allowed", "blocked", "errors", "latCount"} = Counters
  BY <1>2, HeadTailProperties DEF Types, Shared, Remainder, Chain, Counters
<1>5. \A names : /\ r \in Before(names) <=> c \in names
                 /\ r \in Before(names)' <=> Tail(t) # <<>> /\ Head(Tail(t)) \in names
  BY <1>1, <1>2 DEF Before, Adding
<1>6. \A q \in Recorders : rec'[q].pc = "add" => Remainder(rec'[q].todo)
  BY <1>1, <1>2, <1>3 DEF CounterInv
<1>7. PICK D, D1, U, U1, E, E1 :
        /\ D = Cardinality(Before(Decision)) /\ D1 = Cardinality(Before(Decision)')
        /\ U = Cardinality(Before({"errors", "latCount"}))
        /\ U1 = Cardinality(Before({"errors", "latCount"})')
        /\ E = Cardinality(Before({"errors"})) /\ E1 = Cardinality(Before({"errors"})')
  OBVIOUS
<1>8. D \in Nat /\ U \in Nat /\ E \in Nat
  BY <1>1, <1>7, BeforeCounts
<1>9. PICK n : n = IF Tail(t) = <<>> THEN "none" ELSE Head(Tail(t))
  OBVIOUS
<1>10. /\ D1 = (D - Bit(c \in Decision)) + Bit(n \in Decision)
       /\ U1 = (U - Bit(c \in {"errors", "latCount"})) + Bit(n \in {"errors", "latCount"})
       /\ E1 = (E - Bit(c \in {"errors"})) + Bit(n \in {"errors"})
  <2>1. ASSUME NEW names, "none" \notin names
        PROVE  Cardinality(Before(names)') =
                 (Cardinality(Before(names)) - Bit(c \in names)) + Bit(n \in names)
    <3>1. (r \in Before(names)) = (c \in names) /\ (r \in Before(names)') = (n \in names)
      BY <1>5, <1>9, <2>1
    <3>2. Cardinality(Before(names)') =
            (Cardinality(Before(names)) - Bit(r \in Before(names))) + Bit(r \in Before(names)')
      BY <1>1, BeforeCounts
    <3> QED
      BY <3>1, <3>2, Zenon
  <2> QED
    BY <1>7, <2>1 DEF Decision
<1>11. \/ c = "latCount" /\ n = "none"
       \/ c = "total" /\ n \in Decision
       \/ c \in Decision /\ n \in {"errors", "latCount"}
       \/ c = "errors" /\ n = "latCount"
  BY <1>3, <1>9 DEF Follows
<1>12. PICK to, al, bl, er, la \in Nat :
          /\ to = counter["total"] /\ al = counter["allowed"] /\ bl = counter["blocked"]
          /\ er = counter["errors"] /\ la = counter["latCount"]
          /\ to = (al + bl) + D /\ al + bl = la + U /\ er + E <= al + bl
  BY <1>4, <1>7 DEF CounterInv, Decided
<1>13. PICK to1, al1, bl1, er1, la1 :
          /\ to1 = counter'["total"] /\ al1 = counter'["allowed"] /\ bl1 = counter'["blocked"]
          /\ er1 = counter'["errors"] /\ la1 = counter'["latCount"]
  OBVIOUS
<1>14. /\ to1 = to + Bit(c = "total") /\ al1 = al + Bit(c = "allowed")
       /\ bl1 = bl + Bit(c = "blocked") /\ er1 = er + Bit(c = "errors")
       /\ la1 = la + Bit(c = "latCount")
  <2>1. ASSUME NEW x \in Counters PROVE counter'[x] = counter[x] + Bit(c = x)
    <3>1. counter[x] \in Nat
      BY <1>4
    <3>2. CASE c = x
      <4>1. counter'[x] = counter[x] + 1
        BY <1>2, <1>4, <3>2
      <4> QED
        BY <3>2, <4>1 DEF Bit
    <3>3. CASE c # x
      <4>1. counter'[x] = counter[x]
        BY <1>2, <1>4, <3>3
      <4> QED
        BY <3>1, <3>3, <4>1 DEF Bit
    <3> QED
      BY <3>2, <3>3
  <2>2. /\ counter'["total"] = counter["total"] + Bit(c = "total")
        /\ counter'["allowed"] = counter["allowed"] + Bit(c = "allowed")
        /\ counter'["blocked"] = counter["blocked"] + Bit(c = "blocked")
        /\ counter'["errors"] = counter["errors"] + Bit(c = "errors")
        /\ counter'["latCount"] = counter["latCount"] + Bit(c = "latCount")
    BY <2>1, Zenon DEF Counters
  <2> QED
    BY <1>12, <1>13, <2>2, Zenon
<1>15. to1 = (al1 + bl1) + D1 /\ al1 + bl1 = la1 + U1 /\ er1 + E1 <= al1 + bl1
  <2>0. to = (al + bl) + D /\ al + bl = la + U /\ er + E <= al + bl
    BY <1>12
  <2>1. CASE c = "latCount" /\ n = "none"
    <3>1. /\ D1 = (D - 0) + 0 /\ U1 = (U - 1) + 0 /\ E1 = (E - 0) + 0
          /\ to1 = to + 0 /\ al1 = al + 0 /\ bl1 = bl + 0 /\ er1 = er + 0 /\ la1 = la + 1
      BY <1>10, <1>14, <2>1 DEF Bit, Decision
    <3>2. D1 = D /\ U1 = U - 1 /\ E1 = E /\ to1 = to /\ al1 = al /\ bl1 = bl /\ er1 = er
      BY <1>8, <3>1
    <3> QED
      BY <1>8, <2>0, <3>1, <3>2
  <2>2. CASE c = "total" /\ n \in Decision
    <3>1. /\ D1 = (D - 0) + 1 /\ U1 = (U - 0) + 0 /\ E1 = (E - 0) + 0
          /\ to1 = to + 1 /\ al1 = al + 0 /\ bl1 = bl + 0 /\ er1 = er + 0 /\ la1 = la + 0
      BY <1>10, <1>14, <2>2 DEF Bit, Decision
    <3> QED
      BY <1>8, <1>12, <3>1
  <2>3. CASE c \in Decision /\ n \in {"errors", "latCount"}
    BY <1>8, <1>10, <1>12, <1>14, <2>3 DEF Bit, Decision
  <2>4. CASE c = "errors" /\ n = "latCount"
    BY <1>8, <1>10, <1>12, <1>14, <2>4 DEF Bit, Decision
  <2> QED
    BY <1>11, <2>1, <2>2, <2>3, <2>4
<1> QED
  BY <1>6, <1>7, <1>13, <1>15 DEF CounterInv, Decided

LEMMA CounterStill ==
    ASSUME Types, CounterInv, NEW r \in Recorders, RecorderStep(r), ~Add(r)
    PROVE  CounterInv' /\ counter' = counter
<1>0. rec = [q \in Recorders |-> rec[q]]
  BY DEF Types, Recorded
<1>1. counter' = counter
  BY DEF RecorderStep, Begin, RecordSeries, LoadOrStore, CountRows, CollectRows, Evict,
         EvictDone, UpdateRow
<1>2. \A q \in Recorders : q # r => rec'[q] = rec[q]
  BY <1>0, Steps DEF RecorderStep, Begin, Goes, Leaves
<1>3. ~Adding(r)
  BY DEF RecorderStep, Begin, Busy, RecordSeries, LoadOrStore, CountRows, CollectRows, Evict,
         EvictDone, UpdateRow, Adding
<1>4. rec'[r].pc = "add" => Remainder(rec'[r].todo) /\ Head(rec'[r].todo) = "total"
  <2>1. CASE \E ev \in Events : Begin(r, ev)
    <3>1. PICK ev \in Events : Begin(r, ev)
      BY <2>1
    <3>2. rec'[r].todo = Adds(ev)
      BY <1>0, <3>1 DEF Begin
    <3> QED
      BY <3>2, AddsRemain
  <2>2. CASE RecordSeries(r) \/ LoadOrStore(r) \/ CountRows(r) \/ CollectRows(r) \/ Evict(r)
             \/ EvictDone(r) \/ UpdateRow(r)
    BY <2>2, Steps DEF Goes, Leaves, Idle
  <2> QED
    BY <2>1, <2>2 DEF RecorderStep
<1>5. \A names : "total" \notin names => Before(names)' = Before(names)
  BY <1>2, <1>3, <1>4 DEF Before, Adding
<1>6. /\ Before(Decision)' = Before(Decision)
      /\ Before({"errors", "latCount"})' = Before({"errors", "latCount"})
      /\ Before({"errors"})' = Before({"errors"})
  BY <1>5 DEF Decision
<1>7. \A q \in Recorders : rec'[q].pc = "add" => Remainder(rec'[q].todo)
  BY <1>2, <1>4 DEF CounterInv
<1> QED
  BY <1>1, <1>6, <1>7 DEF CounterInv, Decided

\* The counters only grow, and the Keeper does not touch them.
LEMMA CounterNext ==
    ASSUME Types, CounterInv, [Next]_vars
    PROVE  /\ CounterInv'
           /\ \A c \in Counters : counter[c] \in Nat /\ counter'[c] \in Nat
                                  /\ counter[c] <= counter'[c]
<1>0. counter \in [Counters -> Nat] /\ counter' \in [Counters -> Nat]
  BY NextTyped DEF Types, Shared
<1>1. ASSUME UNCHANGED <<counter, rec>> PROVE CounterInv'
  <2>1. \A names : Before(names)' = Before(names)
    BY <1>1 DEF Before, Adding
  <2> QED
    BY <1>1, <2>1 DEF CounterInv, Decided
<1>2. CASE Tick \/ KeeperStep \/ UNCHANGED vars
  <2>1. UNCHANGED <<counter, rec>>
    BY <1>2, KeeperDeletes DEF Tick, vars
  <2> QED
    BY <1>0, <1>1, <2>1
<1>3. ASSUME NEW r \in Recorders, Add(r)
      PROVE  CounterInv' /\ \A c \in Counters : counter[c] <= counter'[c]
  <2>1. PICK x : counter' = [counter EXCEPT ![x] = @ + 1]
    BY <1>3 DEF Add
  <2>2. \A c \in Counters : counter[c] <= counter'[c]
    BY <1>0, <2>1
  <2> QED
    BY <1>3, <2>2, CounterAdd
<1>4. ASSUME NEW r \in Recorders, RecorderStep(r), ~Add(r)
      PROVE  CounterInv' /\ \A c \in Counters : counter[c] <= counter'[c]
  <2>1. CounterInv' /\ counter' = counter
    BY <1>4, CounterStill
  <2> QED
    BY <1>0, <2>1
<1> QED
  BY <1>0, <1>2, <1>3, <1>4, AllSteps

LEMMA LoadsAre ==
    /\ Loads \in Seq(Counters) /\ Len(Loads) = 5
    /\ Loads[1] = "total" /\ Loads[2] = "blocked" /\ Loads[3] = "latCount"
    /\ Loads[4] = "allowed" /\ Loads[5] = "errors"
  BY DEF Loads, Counters

\* The total that is loaded exceeds the decisions by requests in progress only.
LEMMA LoadKeepsView ==
    ASSUME Types, CounterInv, ViewInv, SnapshotLoad
    PROVE  ViewInv'
<1> DEFINE N == Cardinality(Recorders)
<1>0. /\ keeper \in Snapshots /\ keeper.todo # <<>> /\ counter' = counter
      /\ counter \in [Counters -> Nat]
  BY DEF SnapshotLoad, Types, Shared, Kept, Idle, Scans, Deletes, Resets
<1>1. keeper.pc = "snapshot" /\ keeper.todo \in Seq(Counters) /\ keeper.got \in [Counters -> Nat]
  BY <1>0 DEF Snapshots
<1>2. PICK t, n, c, got, got1, t1 :
        /\ t = keeper.todo /\ n = Len(t) /\ c = Head(t) /\ got = keeper.got
        /\ got1 = [got EXCEPT ![c] = counter[c]] /\ t1 = Tail(t)
  OBVIOUS
<1>3. keeper'.pc = "snapshot" /\ keeper'.todo = t1 /\ keeper'.got = got1
  BY <1>0, <1>2 DEF SnapshotLoad, Snapshots
<1>4. n \in Nat /\ n >= 1 /\ n <= 5 /\ \A i \in 1 .. n : t[i] = Loads[(5 - n) + i]
  <2>1. n \in Nat \ {0}
    BY <1>0, <1>1, <1>2, EmptySeq
  <2>2. n <= 5 /\ \A i \in 1 .. n : t[i] = Loads[(5 - n) + i]
    BY <1>1, <1>2, Zenon DEF ViewInv
  <2> QED
    BY <2>1, <2>2
<1>5. Len(t1) = n - 1 /\ \A i \in 1 .. n - 1 : t1[i] = t[i + 1]
  BY <1>0, <1>1, <1>2, HeadTailProperties
<1>6. \A i \in 1 .. n - 1 : t1[i] = Loads[(5 - (n - 1)) + i]
  <2> SUFFICES ASSUME NEW i \in 1 .. n - 1 PROVE t1[i] = Loads[(5 - (n - 1)) + i]
    OBVIOUS
  <2>1. i + 1 \in 1 .. n /\ (5 - n) + (i + 1) = (5 - (n - 1)) + i
    BY <1>4
  <2> QED
    BY <1>4, <1>5, <2>1
<1>7. c = Loads[(5 - n) + 1] /\ c \in Counters
  <2>1. c = t[1] /\ c \in Counters /\ 1 \in 1 .. n
    BY <1>0, <1>1, <1>2, <1>4, HeadTailProperties
  <2> QED
    BY <1>4, <2>1
<1>8. PICK al, bl, to, N0 \in Nat :
        /\ al = counter["allowed"] /\ bl = counter["blocked"] /\ to = counter["total"]
        /\ N0 = N /\ to <= (bl + al) + N0
  <2>1. Before(Decision) \subseteq Recorders /\ IsFiniteSet(Recorders)
    BY CollectorAssumption DEF Before
  <2>2. /\ Cardinality(Before(Decision)) <= N /\ N \in Nat /\ Cardinality(Before(Decision)) \in Nat
    BY <2>1, FS_Subset, FS_CardinalityType
  <2>3. counter["allowed"] \in Nat /\ counter["blocked"] \in Nat /\ counter["total"] \in Nat
    BY <1>0 DEF Counters
  <2>4. counter["total"] =
          (counter["allowed"] + counter["blocked"]) + Cardinality(Before(Decision))
    BY DEF CounterInv, Decided
  <2>5. counter["total"] <= (counter["blocked"] + counter["allowed"]) + N
    <3> HIDE DEF N
    <3> QED
      BY <2>2, <2>3, <2>4
  <2> QED
    BY <2>2, <2>3, <2>5
<1>9. PICK gt, gb, ga \in Nat : gt = got["total"] /\ gb = got["blocked"] /\ ga = got["allowed"]
  BY <1>1, <1>2 DEF Counters
<1>10. /\ n = 4 => gt <= (bl + al) + N0
       /\ n \in {2, 3} => gt <= (gb + al) + N0
       /\ n \in {0, 1} => gt <= (gb + ga) + N0
  BY <1>1, <1>2, <1>8, <1>9 DEF ViewInv
<1>11. /\ got1["total"] = IF c = "total" THEN to ELSE gt
       /\ got1["blocked"] = IF c = "blocked" THEN bl ELSE gb
       /\ got1["allowed"] = IF c = "allowed" THEN al ELSE ga
  BY <1>1, <1>2, <1>8, <1>9 DEF Counters
<1>12. /\ n - 1 = 4 => got1["total"] <= (bl + al) + N0
       /\ n - 1 \in {2, 3} => got1["total"] <= (got1["blocked"] + al) + N0
       /\ n - 1 \in {0, 1} => got1["total"] <= (got1["blocked"] + got1["allowed"]) + N0
  <2>1. CASE n = 5
    <3>1. c = "total"
      BY <1>7, <2>1, LoadsAre
    <3> QED
      BY <1>8, <1>11, <2>1, <3>1
  <2>2. CASE n = 4
    <3>1. c = "blocked"
      BY <1>7, <2>2, LoadsAre
    <3> QED
      BY <1>10, <1>11, <2>2, <3>1
  <2>3. CASE n = 3
    <3>1. c = "latCount"
      BY <1>7, <2>3, LoadsAre
    <3> QED
      BY <1>10, <1>11, <2>3, <3>1
  <2>4. CASE n = 2
    <3>1. c = "allowed"
      BY <1>7, <2>4, LoadsAre
    <3> QED
      BY <1>10, <1>11, <2>4, <3>1
  <2>5. CASE n = 1
    <3>1. c = "errors"
      BY <1>7, <2>5, LoadsAre
    <3> QED
      BY <1>10, <1>11, <2>5, <3>1
  <2> QED
    BY <1>4, <2>1, <2>2, <2>3, <2>4, <2>5
<1> QED
  BY <1>0, <1>3, <1>4, <1>5, <1>6, <1>8, <1>12 DEF ViewInv

LEMMA ViewNext ==
    ASSUME Types, CounterInv, ViewInv, [Next]_vars
    PROVE  ViewInv'
<1>1. CASE SnapshotLoad
  BY <1>1, LoadKeepsView
<1>2. CASE SnapshotBegin
  <2>1. keeper'.pc = "snapshot" /\ keeper'.todo = Loads
    BY <1>2 DEF SnapshotBegin
  <2>2. \A i \in 1 .. 5 : (5 - 5) + i = i
    OBVIOUS
  <2> QED
    BY <2>1, <2>2, LoadsAre DEF ViewInv
<1>3. ASSUME keeper' = keeper PROVE ViewInv'
  <2> SUFFICES ASSUME keeper.pc = "snapshot" PROVE ViewInv'
    BY <1>3 DEF ViewInv
  <2>1. keeper.got \in [Counters -> Nat]
    BY DEF Types, Kept, Idle, Snapshots, Scans, Deletes, Resets
  <2>2. /\ counter["blocked"] \in Nat /\ counter["allowed"] \in Nat
        /\ counter'["blocked"] \in Nat /\ counter'["allowed"] \in Nat
        /\ counter["blocked"] <= counter'["blocked"] /\ counter["allowed"] <= counter'["allowed"]
    BY CounterNext DEF Counters
  <2>3. /\ keeper.got["total"] \in Nat /\ keeper.got["blocked"] \in Nat
        /\ Cardinality(Recorders) \in Nat
    BY <2>1, FS_CardinalityType, CollectorAssumption DEF Counters
  <2>4. PICK N, gt, gb, x, y, x1, y1 \in Nat :
          /\ N = Cardinality(Recorders) /\ gt = keeper.got["total"] /\ gb = keeper.got["blocked"]
          /\ x = counter["blocked"] /\ y = counter["allowed"] /\ x1 = counter'["blocked"]
          /\ y1 = counter'["allowed"] /\ x <= x1 /\ y <= y1
    BY <2>2, <2>3
  <2>5. /\ gt <= (x + y) + N => gt <= (x1 + y1) + N
        /\ gt <= (gb + y) + N => gt <= (gb + y1) + N
    BY <2>4
  <2> QED
    BY <1>3, <2>4, <2>5 DEF ViewInv
<1>4. ASSUME keeper'.pc # "snapshot" PROVE ViewInv'
  BY <1>4 DEF ViewInv
<1>5. ASSUME KeeperStep, ~SnapshotBegin, ~SnapshotLoad
      PROVE  keeper'.pc # "snapshot"
  <2>1. ASSUME NEW k \in Keys, SweepCheck(k) PROVE keeper'.pc # "snapshot"
    BY <2>1, SweeperFields DEF SweepCheck, Scans
  <2>2. ASSUME NEW k \in Keys, ResetDelete(k) PROVE keeper'.pc # "snapshot"
    BY <2>2 DEF ResetDelete, Types, Kept, Idle, Snapshots, Scans, Deletes, Resets
  <2> QED
    BY <1>5, <2>1, <2>2 DEF KeeperStep, SnapshotEnd, SweepBegin, SweepDelete, SweepEnd,
                            ResetClients, ResetEnd, Idle
<1>6. ASSUME NEW r \in Recorders, RecorderStep(r)
      PROVE  keeper' = keeper \/ keeper'.pc # "snapshot"
  <2>1. ASSUME NEW k, Touch(k) PROVE keeper' = keeper \/ keeper'.pc # "snapshot"
    <3>1. CASE keeper.pc = "delete" /\ keeper' = [keeper EXCEPT !.touched = TRUE]
      <4>1. keeper \in Deletes
        BY <3>1, SweeperFields
      <4> QED
        BY <3>1, <4>1 DEF Deletes
    <3> QED
      BY <2>1, <3>1 DEF Touch
  <2>2. CASE LoadOrStore(r) \/ UpdateRow(r)
    BY <2>1, <2>2 DEF LoadOrStore, UpdateRow
  <2> QED
    BY <1>6, <2>2 DEF RecorderStep, Begin, Add, RecordSeries, CountRows, CollectRows, Evict,
                      EvictDone
<1>7. Tick \/ UNCHANGED vars => keeper' = keeper
  BY DEF Tick, vars
<1> QED
  BY <1>1, <1>2, <1>3, <1>4, <1>5, <1>6, <1>7, AllSteps

LEMMA InitCounters == Init => CounterInv /\ ViewInv
<1> SUFFICES ASSUME Init PROVE CounterInv /\ ViewInv
  OBVIOUS
<1>1. \A r \in Recorders : rec[r].pc = "idle"
  BY DEF Init, Idle
<1>2. \A names : Before(names) = {}
  BY <1>1 DEF Before, Adding
<1>3. \A names : Cardinality(Before(names)) = 0
  BY <1>2, FS_EmptySet
<1>4. /\ counter["total"] = 0 /\ counter["allowed"] = 0 /\ counter["blocked"] = 0
      /\ counter["errors"] = 0 /\ counter["latCount"] = 0 /\ keeper.pc = "idle"
  BY DEF Init, Counters, Idle
<1> QED
  BY <1>1, <1>3, <1>4 DEF CounterInv, ViewInv, Decided

(***************************************************************************)
(* The atomics of Record, added to one by one and without a lock by any    *)
(* number of requests, keep their order and agree when nobody is inside;   *)
(* a Snapshot's total is too large by at most the requests in progress.    *)
(***************************************************************************)
THEOREM CollectorReconciles == Spec => []Reconciled
<1>1. Init => CounterInv /\ ViewInv
  BY InitCounters
<1>2. Types /\ CounterInv /\ ViewInv /\ [Next]_vars => CounterInv' /\ ViewInv'
  BY CounterNext, ViewNext
<1>3. Types /\ CounterInv /\ ViewInv => Reconciled
  <2> SUFFICES ASSUME Types, CounterInv, ViewInv PROVE Reconciled
    OBVIOUS
  <2>1. /\ counter["total"] \in Nat /\ counter["allowed"] \in Nat /\ counter["blocked"] \in Nat
        /\ counter["errors"] \in Nat /\ counter["latCount"] \in Nat
    BY DEF Types, Shared, Counters
  <2>2. PICK D, U, E \in Nat :
          /\ D = Cardinality(Before(Decision))
          /\ U = Cardinality(Before({"errors", "latCount"}))
          /\ E = Cardinality(Before({"errors"}))
    <3>1. \A names : Cardinality(Before(names)) \in Nat
      <4> SUFFICES ASSUME NEW names PROVE Cardinality(Before(names)) \in Nat
        OBVIOUS
      <4>1. Before(names) \subseteq Recorders
        BY DEF Before
      <4>2. IsFiniteSet(Before(names))
        BY <4>1, CollectorAssumption, FS_Subset
      <4> QED
        BY <4>2, FS_CardinalityType
    <3> QED
      BY <3>1
  <2>3. PICK to, al, bl, er, la \in Nat :
          /\ to = counter["total"] /\ al = counter["allowed"] /\ bl = counter["blocked"]
          /\ er = counter["errors"] /\ la = counter["latCount"]
          /\ to = (al + bl) + D /\ al + bl = la + U /\ er + E <= al + bl
    BY <2>1, <2>2 DEF CounterInv, Decided
  <2>4. al + bl <= to /\ er <= al + bl /\ la <= al + bl
    BY <2>2, <2>3
  <2>5. (\A r \in Recorders : ~Busy(r)) => to = al + bl /\ al + bl = la
    <3> SUFFICES ASSUME \A r \in Recorders : rec[r].pc = "idle"
                 PROVE  to = al + bl /\ al + bl = la
      BY DEF Busy
    <3>1. \A names : Before(names) = {}
      BY DEF Before, Adding
    <3>2. D = 0 /\ U = 0
      BY <2>2, <3>1, FS_EmptySet
    <3> QED
      BY <2>3, <3>2
  <2>6. Viewed => keeper.got["total"] <=
                    (keeper.got["blocked"] + keeper.got["allowed"]) + Cardinality(Recorders)
    <3> SUFFICES ASSUME keeper.pc = "snapshot", keeper.todo = <<>>
                 PROVE  keeper.got["total"] <=
                          (keeper.got["blocked"] + keeper.got["allowed"]) + Cardinality(Recorders)
      BY DEF Viewed
    <3>1. Len(keeper.todo) = 0
      BY EmptySeq
    <3> QED
      BY <3>1 DEF ViewInv
  <2>7. Viewed => keeper.got["blocked"] + keeper.got["allowed"] =
                    keeper.got["allowed"] + keeper.got["blocked"]
    <3> SUFFICES ASSUME keeper.pc = "snapshot"
                 PROVE  keeper.got["blocked"] + keeper.got["allowed"] =
                          keeper.got["allowed"] + keeper.got["blocked"]
      BY DEF Viewed
    <3>1. keeper.got \in [Counters -> Nat]
      BY DEF Types, Kept, Idle, Snapshots, Scans, Deletes, Resets
    <3>2. keeper.got["blocked"] \in Nat /\ keeper.got["allowed"] \in Nat
      BY <3>1 DEF Counters
    <3> QED
      BY <3>2
  <2> QED
    BY <2>3, <2>4, <2>5, <2>6, <2>7 DEF Reconciled
<1> QED
  BY <1>1, <1>2, <1>3, InitTyped, NextTyped, PTL DEF Spec

-----------------------------------------------------------------------------
(* The sums.  A request is entered into the graph once, and into the rows  *)
(* once, each time after it was counted, and rows that left the table keep *)
(* what they had.                                                          *)

LEMMA TallyOf ==
    ASSUME NEW S, NEW c, NEW p
    PROVE  p \in Tally(S, c) <=> \E x \in S : \E n \in 1 .. c[x] : p = <<x, n>>
  BY DEF Tally

\* A count that goes up by one, or starts again at one.
LEMMA TallyGrows ==
    ASSUME NEW S, NEW c, NEW d, NEW y \in S, IsFiniteSet(Tally(S, c)),
           \A x \in S : x # y => d[x] = c[x],
           c[y] \in Nat, d[y] = c[y] + 1 \/ d[y] = 1
    PROVE  /\ IsFiniteSet(Tally(S, d))
           /\ Cardinality(Tally(S, d)) <= Cardinality(Tally(S, c)) + 1
           /\ Cardinality(Tally(S, c)) \in Nat /\ Cardinality(Tally(S, d)) \in Nat
<1>1. PICK A, B, z : A = Tally(S, c) /\ B = Tally(S, d) /\ z = <<y, d[y]>>
  OBVIOUS
<1>2. ASSUME NEW p \in B PROVE p \in A \cup {z}
  <2>0. PICK x \in S : \E n \in 1 .. d[x] : p = <<x, n>>
    BY <1>1, TallyOf
  <2>1. PICK n \in 1 .. d[x] : p = <<x, n>>
    BY <2>0
  <2>2. CASE x # y
    BY <1>1, <2>1, <2>2, TallyOf
  <2>3. CASE x = y
    <3>1. n = d[y] \/ n \in 1 .. c[y]
      BY <2>1, <2>3
    <3> QED
      BY <1>1, <2>1, <2>3, <3>1, TallyOf
  <2> QED
    BY <2>2, <2>3
<1>3. /\ IsFiniteSet(A \cup {z}) /\ Cardinality(A) \in Nat
      /\ Cardinality(A \cup {z}) <= Cardinality(A) + 1
  <2>1. IsFiniteSet(A)
    BY <1>1
  <2>2. Cardinality(A) \in Nat
    BY <2>1, FS_CardinalityType
  <2>3. IsFiniteSet(A \cup {z})
    BY <2>1, FS_AddElement
  <2>4. \/ Cardinality(A \cup {z}) = Cardinality(A)
        \/ Cardinality(A \cup {z}) = Cardinality(A) + 1
    BY <2>1, FS_AddElement, Zenon
  <2> QED
    BY <2>2, <2>3, <2>4
<1>4. B \in SUBSET (A \cup {z})
  BY <1>2
<1>5. /\ IsFiniteSet(B) /\ Cardinality(B) \in Nat
      /\ Cardinality(B) <= Cardinality(A \cup {z}) /\ Cardinality(A \cup {z}) \in Nat
  BY <1>3, <1>4, FS_Subset, FS_CardinalityType
<1> QED
  BY <1>1, <1>3, <1>5

\* Recorders that have counted their request and not yet entered it.
Counting(r) == rec[r].pc = "add" /\ rec[r].todo = <<>>

OffGraph == {r \in Recorders : Counting(r)}
OffRows  == {r \in Recorders : Counting(r) \/ rec[r].pc \notin {"idle", "add"}}

\* The requests in all rows, tracked or not.
InAllRows == Tally(1 .. MaxEvents, [e \in 1 .. MaxEvents |-> row[e].requests])

SumInv ==
    /\ IsFiniteSet(InGraph) /\ IsFiniteSet(InAllRows)
    /\ Cardinality(InGraph) + Cardinality(OffGraph) <= counter["latCount"]
    /\ Cardinality(InAllRows) + Cardinality(OffRows) <= counter["latCount"]

LEMMA OffTyped ==
    /\ IsFiniteSet(OffGraph) /\ Cardinality(OffGraph) \in Nat
    /\ IsFiniteSet(OffRows) /\ Cardinality(OffRows) \in Nat
<1>1. OffGraph \in SUBSET Recorders /\ OffRows \in SUBSET Recorders
  BY DEF OffGraph, OffRows
<1>2. IsFiniteSet(OffGraph) /\ IsFiniteSet(OffRows)
  BY <1>1, CollectorAssumption, FS_Subset
<1> QED
  BY <1>2, FS_CardinalityType

LEMMA InitSums == Init => SumInv
<1> SUFFICES ASSUME Init PROVE SumInv
  OBVIOUS
<1> USE CollectorConstants
<1>1. OffGraph = {} /\ OffRows = {} /\ counter["latCount"] = 0
  BY DEF Init, OffGraph, OffRows, Counting, Idle, Counters
<1>2. \A i \in DOMAIN ring : ring[i].total = 0
  BY DEF Init, Bucket
<1>3. \A e \in 1 .. MaxEvents : row[e].requests = 0
  BY DEF Init, NewRow
<1>4. InGraph = {}
  <2>1. \A p : p \notin InGraph
    BY <1>2, TallyOf DEF InGraph
  <2> QED
    BY <2>1
<1>5. InAllRows = {}
  <2>1. \A p : p \notin InAllRows
    BY <1>3, TallyOf DEF InAllRows
  <2> QED
    BY <2>1
<1> QED
  BY <1>1, <1>4, <1>5, FS_EmptySet DEF SumInv

\* The last addition, that of the latency, makes the recorder one that has counted.
LEMMA SumsAdd ==
    ASSUME Types, CounterInv, SumInv, NEW r \in Recorders, Add(r)
    PROVE  SumInv'
<1> USE CollectorConstants
<1>0. rec = [q \in Recorders |-> rec[q]] /\ counter \in [Counters -> Nat]
      /\ counter["latCount"] \in Nat
  BY DEF Types, Recorded, Shared, Counters
<1>1. /\ rec[r].pc = "add" /\ rec[r].todo # <<>> /\ UNCHANGED <<ring, row>>
      /\ counter' = [counter EXCEPT ![Head(rec[r].todo)] = @ + 1]
  BY DEF Add
<1>2. /\ rec'[r].pc = "add" /\ rec'[r].todo = Tail(rec[r].todo)
      /\ \A q \in Recorders : q # r => rec'[q] = rec[q]
  BY <1>0, Steps DEF Goes
<1>3. \/ Head(rec[r].todo) = "latCount" /\ Tail(rec[r].todo) = <<>>
      \/ Head(rec[r].todo) # "latCount" /\ Tail(rec[r].todo) # <<>>
  <2>1. Remainder(rec[r].todo)
    BY <1>1 DEF CounterInv
  <2> QED
    BY <1>1, <2>1, RemainderStep DEF Follows, Decision
<1>4. r \notin OffGraph /\ r \notin OffRows /\ InGraph' = InGraph /\ InAllRows' = InAllRows
  BY <1>1 DEF OffGraph, OffRows, Counting, InGraph, InAllRows
<1>5. /\ Cardinality(InGraph) \in Nat /\ Cardinality(InAllRows) \in Nat
      /\ IsFiniteSet(InGraph) /\ IsFiniteSet(InAllRows)
  BY FS_CardinalityType DEF SumInv
<1>6. CASE Head(rec[r].todo) = "latCount" /\ Tail(rec[r].todo) = <<>>
  <2>1. OffGraph' = OffGraph \cup {r} /\ OffRows' = OffRows \cup {r}
    BY <1>1, <1>2, <1>6 DEF OffGraph, OffRows, Counting
  <2>2. /\ Cardinality(OffGraph') = Cardinality(OffGraph) + 1
        /\ Cardinality(OffRows') = Cardinality(OffRows) + 1
    BY <1>4, <2>1, OffTyped, FS_AddElement
  <2>3. counter'["latCount"] = counter["latCount"] + 1
    BY <1>0, <1>1, <1>6 DEF Counters
  <2> QED
    BY <1>0, <1>4, <1>5, <2>2, <2>3, OffTyped DEF SumInv
<1>7. CASE Head(rec[r].todo) # "latCount" /\ Tail(rec[r].todo) # <<>>
  <2>1. OffGraph' = OffGraph /\ OffRows' = OffRows
    BY <1>1, <1>2, <1>7 DEF OffGraph, OffRows, Counting
  <2>2. counter'["latCount"] = counter["latCount"]
    BY <1>0, <1>1, <1>7 DEF Counters
  <2> QED
    BY <1>4, <2>1, <2>2 DEF SumInv
<1> QED
  BY <1>3, <1>6, <1>7

\* What was counted goes into the graph.
LEMMA SumsGraph ==
    ASSUME Types, SumInv, NEW r \in Recorders, RecordSeries(r)
    PROVE  SumInv'
<1> USE CollectorConstants
<1>0. /\ rec = [q \in Recorders |-> rec[q]] /\ counter["latCount"] \in Nat
      /\ ring \in [0 .. RingLen - 1 -> Buckets]
  BY DEF Types, Recorded, Shared, Counters
<1>1. /\ rec[r].pc = "add" /\ rec[r].todo = <<>> /\ UNCHANGED <<row, counter>>
      /\ ring' = [ring EXCEPT ![Slot(rec[r].now)] =
                    Counted(Fresh(@, rec[r].now), rec[r].ev)]
  BY DEF RecordSeries
<1>2. /\ rec'[r].pc \in {"idle", "client"} /\ \A q \in Recorders : q # r => rec'[q] = rec[q]
  BY <1>0, Steps DEF Goes, Leaves, Idle
<1>3. PICK y : y = Slot(rec[r].now)
  OBVIOUS
<1>4. y \in 0 .. RingLen - 1 /\ rec[r].now \in Nat
  <2>1. rec[r].now \in Nat
    BY <1>1, Inside
  <2> QED
    BY <1>3, <2>1 DEF Slot
<1>5. /\ ring'[y].total = ring[y].total + 1 \/ ring'[y].total = 1
      /\ ring[y].total \in Nat
      /\ DOMAIN ring' = DOMAIN ring /\ DOMAIN ring = 0 .. RingLen - 1
      /\ \A i \in 0 .. RingLen - 1 : i # y => ring'[i] = ring[i]
  <2>1. ring'[y] = Counted(Fresh(ring[y], rec[r].now), rec[r].ev) /\ ring[y] \in Buckets
    BY <1>0, <1>1, <1>3, <1>4
  <2>2. ring'[y].total = ring[y].total + 1 \/ ring'[y].total = 1
    BY <1>4, <2>1, CountedBucket
  <2> QED
    BY <1>0, <1>1, <1>3, <1>4, <2>1, <2>2 DEF Buckets
<1>6. PICK c, d : /\ c = [i \in 0 .. RingLen - 1 |-> ring[i].total]
                  /\ d = [i \in 0 .. RingLen - 1 |-> ring'[i].total]
  OBVIOUS
<1>7. InGraph = Tally(0 .. RingLen - 1, c) /\ InGraph' = Tally(0 .. RingLen - 1, d)
  BY <1>5, <1>6 DEF InGraph
<1>8. /\ IsFiniteSet(InGraph') /\ Cardinality(InGraph') <= Cardinality(InGraph) + 1
      /\ Cardinality(InGraph') \in Nat /\ Cardinality(InGraph) \in Nat
  <2>1. /\ \A i \in 0 .. RingLen - 1 : i # y => d[i] = c[i]
        /\ c[y] \in Nat /\ (d[y] = c[y] + 1 \/ d[y] = 1)
    BY <1>4, <1>5, <1>6
  <2>2. IsFiniteSet(Tally(0 .. RingLen - 1, c))
    BY <1>7 DEF SumInv
  <2> QED
    BY <1>4, <1>7, <2>1, <2>2, TallyGrows
<1>9. /\ OffGraph' = OffGraph \ {r} /\ r \in OffGraph
      /\ OffRows' \in SUBSET OffRows /\ InAllRows' = InAllRows
  BY <1>1, <1>2 DEF OffGraph, OffRows, Counting, InAllRows
<1>10. /\ Cardinality(OffGraph') = Cardinality(OffGraph) - 1
       /\ Cardinality(OffRows') <= Cardinality(OffRows) /\ Cardinality(OffRows') \in Nat
  BY <1>9, OffTyped, FS_RemoveElement, FS_Subset, FS_CardinalityType
<1>11. Cardinality(InAllRows) \in Nat
  BY FS_CardinalityType DEF SumInv
<1>12. Cardinality(InGraph') + Cardinality(OffGraph') <= counter'["latCount"]
  BY <1>0, <1>1, <1>8, <1>10, OffTyped DEF SumInv
<1>13. Cardinality(InAllRows') + Cardinality(OffRows') <= counter'["latCount"]
  BY <1>0, <1>1, <1>9, <1>10, <1>11, OffTyped DEF SumInv
<1> QED
  BY <1>8, <1>9, <1>12, <1>13 DEF SumInv

\* And, last of all, into its client's row.
LEMMA SumsRow ==
    ASSUME Types, SumInv, NEW r \in Recorders, UpdateRow(r)
    PROVE  SumInv'
<1> USE CollectorConstants
<1>0. /\ rec = [q \in Recorders |-> rec[q]] /\ counter["latCount"] \in Nat
      /\ row \in [1 .. MaxEvents -> Rows] /\ events \in 0 .. MaxEvents
  BY DEF Types, Recorded, Shared, Counters
<1>1. /\ rec[r].pc = "row" /\ UNCHANGED <<ring, counter>>
      /\ \E x, a, b : row' = [row EXCEPT ![rec[r].row] =
            [requests |-> @.requests + 1, lastSeen |-> x, allowed |-> a, blocked |-> b]]
  BY DEF UpdateRow
<1>2. rec'[r].pc = "idle" /\ \A q \in Recorders : q # r => rec'[q] = rec[q]
  BY <1>0, Steps DEF Leaves, Idle
<1>3. PICK y : y = rec[r].row
  OBVIOUS
<1>4. y \in 1 .. MaxEvents
  <2>1. rec[r].pc # "idle" /\ rec[r].pc \notin {"add", "client"}
    BY <1>1
  <2>2. Recording(rec[r], clock, events) /\ y \in Nat
    BY <1>3, <2>1, Inside
  <2>3. y >= 1 /\ y <= events
    BY <1>3, <2>1, <2>2 DEF Recording
  <2> QED
    BY <1>0, <2>2, <2>3
<1>5. /\ row'[y].requests = row[y].requests + 1 /\ row[y].requests \in Nat
      /\ \A e \in 1 .. MaxEvents : e # y => row'[e] = row[e]
  <2>1. row[y].requests \in Nat
    BY <1>0, <1>4 DEF Rows
  <2> QED
    BY <1>0, <1>1, <1>3, <1>4, <2>1
<1>6. PICK c, d : /\ c = [e \in 1 .. MaxEvents |-> row[e].requests]
                  /\ d = [e \in 1 .. MaxEvents |-> row'[e].requests]
  OBVIOUS
<1>7. InAllRows = Tally(1 .. MaxEvents, c) /\ InAllRows' = Tally(1 .. MaxEvents, d)
  BY <1>6 DEF InAllRows
<1>8. /\ IsFiniteSet(InAllRows') /\ Cardinality(InAllRows') <= Cardinality(InAllRows) + 1
      /\ Cardinality(InAllRows') \in Nat /\ Cardinality(InAllRows) \in Nat
  <2>1. /\ \A e \in 1 .. MaxEvents : e # y => d[e] = c[e]
        /\ c[y] \in Nat /\ d[y] = c[y] + 1
    BY <1>4, <1>5, <1>6
  <2>2. IsFiniteSet(Tally(1 .. MaxEvents, c))
    BY <1>7 DEF SumInv
  <2> QED
    BY <1>4, <1>7, <2>1, <2>2, TallyGrows
<1>9. /\ OffRows' = OffRows \ {r} /\ r \in OffRows
      /\ OffGraph' = OffGraph /\ InGraph' = InGraph
  BY <1>1, <1>2 DEF OffGraph, OffRows, Counting, InGraph
<1>10. Cardinality(OffRows') = Cardinality(OffRows) - 1
  BY <1>9, OffTyped, FS_RemoveElement
<1>11. Cardinality(InAllRows') + Cardinality(OffRows') <= counter'["latCount"]
  BY <1>0, <1>1, <1>8, <1>10, OffTyped DEF SumInv
<1> QED
  BY <1>1, <1>8, <1>9, <1>11 DEF SumInv

LEMMA SumsNext ==
    ASSUME Types, CounterInv, SumInv, [Next]_vars
    PROVE  SumInv'
<1>1. ASSUME UNCHANGED <<counter, ring, row>>, OffGraph' = OffGraph, OffRows' = OffRows
      PROVE  SumInv'
  BY <1>1 DEF SumInv, InGraph, InAllRows
<1>2. CASE Tick \/ KeeperStep \/ UNCHANGED vars
  <2>1. UNCHANGED <<counter, ring, row, rec>>
    BY <1>2, KeeperDeletes DEF Tick, vars
  <2> QED
    BY <1>1, <2>1 DEF OffGraph, OffRows, Counting
<1>3. ASSUME NEW r \in Recorders, RecorderStep(r), ~Add(r), ~RecordSeries(r), ~UpdateRow(r)
      PROVE  SumInv'
  <2>0. rec = [q \in Recorders |-> rec[q]]
    BY DEF Types, Recorded
  <2>1. UNCHANGED <<counter, ring, row>>
    BY <1>3 DEF RecorderStep, Begin, LoadOrStore, CountRows, CollectRows, Evict, EvictDone
  <2>2. \A q \in Recorders : q # r => rec'[q] = rec[q]
    BY <1>3, <2>0, Steps DEF RecorderStep, Begin, Goes, Leaves
  <2>3. CASE \E ev \in Events : Begin(r, ev)
    <3>1. PICK ev \in Events : Begin(r, ev)
      BY <2>3
    <3>2. rec[r].pc = "idle" /\ rec'[r].pc = "add" /\ rec'[r].todo # <<>>
      BY <2>0, <3>1, AddsRemain DEF Begin, Busy
    <3> QED
      BY <1>1, <2>1, <2>2, <3>2 DEF OffGraph, OffRows, Counting
  <2>4. CASE ~\E ev \in Events : Begin(r, ev)
    <3>1. rec[r].pc \in {"client", "count", "collect", "evict"}
      BY <1>3, <2>4 DEF RecorderStep, LoadOrStore, CountRows, CollectRows, Evict, EvictDone
    <3>2. rec'[r].pc \in {"count", "collect", "evict", "row"}
      BY <1>3, <2>4, Steps DEF RecorderStep, Goes
    <3> QED
      BY <1>1, <2>1, <2>2, <3>1, <3>2 DEF OffGraph, OffRows, Counting
  <2> QED
    BY <2>3, <2>4
<1> QED
  BY <1>2, <1>3, AllSteps, SumsAdd, SumsGraph, SumsRow

\* Rows of different keys are different rows.
LEMMA TrackedInRows ==
    ASSUME Types, OneOwner, IsFiniteSet(InAllRows)
    PROVE  Cardinality(InRows) <= Cardinality(InAllRows) /\ Cardinality(InRows) \in Nat
<1> USE CollectorConstants
<1>1. PICK c, d : /\ c = [k \in Tracked |-> row[table[k]].requests]
                  /\ d = [e \in 1 .. MaxEvents |-> row[e].requests]
  OBVIOUS
<1>2. InRows = Tally(Tracked, c) /\ InAllRows = Tally(1 .. MaxEvents, d)
  BY <1>1 DEF InRows, InAllRows
<1>3. \A k \in Tracked : k \in Keys /\ table[k] \in 1 .. MaxEvents /\ c[k] = d[table[k]]
  BY <1>1 DEF Types, Shared, Tracked
<1> DEFINE f == [p \in InRows |-> <<table[p[1]], p[2]>>]
<1>4. ASSUME NEW p \in InRows
      PROVE  \E k \in Tracked : \E n \in 1 .. c[k] :
                p = <<k, n>> /\ f[p] = <<table[k], n>> /\ f[p] \in InAllRows
  <2>1. PICK k \in Tracked : \E n \in 1 .. c[k] : p = <<k, n>>
    BY <1>2, TallyOf
  <2>2. PICK n \in 1 .. c[k] : p = <<k, n>>
    BY <2>1
  <2>3. f[p] = <<table[k], n>>
    BY <2>2
  <2>4. f[p] \in InAllRows
    BY <1>2, <1>3, <2>2, <2>3, TallyOf
  <2> QED
    BY <2>2, <2>3, <2>4
<1>5. ASSUME NEW p \in InRows, NEW q \in InRows, f[p] = f[q] PROVE p = q
  <2>1. PICK k, m : k \in Tracked /\ p = <<k, m>> /\ f[p] = <<table[k], m>>
    BY <1>4
  <2>2. PICK j, n : j \in Tracked /\ q = <<j, n>> /\ f[q] = <<table[j], n>>
    BY <1>4
  <2>3. table[k] = table[j] /\ m = n
    BY <1>5, <2>1, <2>2
  <2>4. k = j
    BY <1>3, <2>1, <2>2, <2>3 DEF OneOwner, Tracked
  <2> QED
    BY <2>1, <2>2, <2>3, <2>4
<1>6. f \in Injection(InRows, InAllRows)
  <2>1. f \in [InRows -> InAllRows]
    BY <1>4
  <2>2. IsInjective(f)
    BY <1>5 DEF IsInjective
  <2> QED
    BY <2>1, <2>2 DEF Injection
<1> HIDE DEF f
<1> QED
  BY <1>6, FS_Injection, FS_CardinalityType

(***************************************************************************)
(* What the graph and the client rows show never adds up to more than the  *)
(* counters of Record, in any interleaving of requests, wraps of the ring, *)
(* evictions, sweeps and resets.                                           *)
(***************************************************************************)
THEOREM CollectorSumsReconcile == Spec => []SumsReconciled
<1> DEFINE Inv == Types /\ Owned /\ CounterInv /\ SumInv
<1>1. Init => Inv
  BY InitTyped, InitOwned, InitCounters, InitSums
<1>2. Inv /\ [Next]_vars => Inv'
  BY NextTyped, OwnedNext, CounterNext, SumsNext
<1>3. Inv => SumsReconciled
  <2> SUFFICES ASSUME Types, OneOwner, SumInv PROVE SumsReconciled
    BY DEF Owned
  <2>1. /\ Cardinality(InGraph) \in Nat /\ Cardinality(InAllRows) \in Nat
        /\ counter["latCount"] \in Nat
    BY FS_CardinalityType DEF SumInv, Types, Shared, Counters
  <2>2. Cardinality(InRows) <= Cardinality(InAllRows) /\ Cardinality(InRows) \in Nat
    BY TrackedInRows DEF SumInv
  <2> QED
    BY <2>1, <2>2, OffTyped DEF SumInv, SumsReconciled
<1> HIDE DEF Inv
<1> QED
  BY <1>1, <1>2, <1>3, PTL DEF Spec
=============================================================================
