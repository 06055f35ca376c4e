------------------------ MODULE MemoryLimiterProofs ------------------------
(***************************************************************************)
(* The in-memory limiter, for any number of goroutines, keys and entries.  *)
(*                                                                         *)
(* The argument has three layers.  The structure of the heap: whoever      *)
(* holds an entry that is not dead holds the one in the map, because an    *)
(* entry leaves the map only after it was marked.  The instants: a stamp   *)
(* is never much later than its entry's lastSeen, so that an entry idle    *)
(* for twice its window holds expired stamps only.  And the history: the   *)
(* live entry's stamps are the admissions that still matter, so that the   *)
(* limiter implements the window log and inherits its promise.  On top of  *)
(* the heap comes what a call meets: the removals that make it retry, and  *)
(* what a refused client is told.                                          *)
(***************************************************************************)
EXTENDS MemoryLimiter, SlidingWindowProofs

Holding == {"seen", "lock", "drop", "peek"}

(***************************************************************************)
(* A goroutine has a pointer exactly in the states that use it, and it     *)
(* removes an entry from the map only when the entry is dead.              *)
(***************************************************************************)
Shape ==
    /\ \A p \in Procs : ptr[p] # NoEntry <=> pc[p] \in Holding
    /\ \A p \in Procs : pc[p] = "drop" => dead[ptr[p]]

OneKeyPerEntry ==
    \A j, k \in Keys : entries[j] = entries[k] /\ entries[j] # NoEntry => j = k

Structure == Shape /\ LiveIsMapped /\ OneKeyPerEntry

-----------------------------------------------------------------------------
(***************************************************************************)
(* Types.                                                                  *)
(***************************************************************************)
LEMMA Constants ==
    /\ Keys # {} /\ NoEntry \notin Entries /\ MinTTL \in Nat \ {0}
    /\ MaxAttempts \in Nat \ {0} /\ Janitor \in Procs /\ Janitor \notin Workers
    /\ Workers \subseteq Procs /\ Scanners \subseteq Procs
    /\ StartClock \in Nat /\ MaxClock \in Nat
    /\ \A w \in Workers, s \in Scanners : w # s
  BY MemoryAssumption, ClockAssumption DEF Procs, Scanners

LEMMA InitTypes == Init => TypeOK /\ Structure
<1> SUFFICES ASSUME Init PROVE TypeOK /\ Structure
  OBVIOUS
<1>1. HeapTypes
  <2>1. <<>> \in Seq(Int)
    BY EmptySeq
  <2> QED
    BY <2>1 DEF Init, HeapTypes
<1>2. ProcTypes
  <2>1. (CHOOSE k \in Keys : TRUE) \in Keys
    BY Constants
  <2>2. [limit |-> 1, window |-> DefaultWindow] \in EnforcedPolicies
    BY ClampAssumption DEF EnforcedPolicies
  <2>3. pc \in [Procs -> Labels]
    BY DEF Init, Labels
  <2>4. policy \in [Workers -> EnforcedPolicies]
    BY <2>2 DEF Init
  <2>5. key \in [Procs -> Keys]
    BY <2>1 DEF Init
  <2> QED
    BY <2>3, <2>4, <2>5, Constants DEF Init, ProcTypes
<1>3. TypeOK
  <2>1. <<>> \in Seq(Admissions)
    BY EmptySeq
  <2>2. granted \in [Keys -> Seq(Admissions)]
    BY <2>1 DEF Init
  <2>3. kills \in [Workers -> 0 .. MaxAttempts]
    BY Constants DEF Init
  <2>4. clock \in Nat
    BY Constants DEF Init
  <2>5. stopped \in BOOLEAN
    BY DEF Init
  <2> QED
    BY <1>1, <1>2, <2>2, <2>3, <2>4, <2>5 DEF TypeOK
<1>4. Structure
  BY DEF Init, Structure, Shape, Holding, LiveIsMapped, OneKeyPerEntry
<1> QED
  BY <1>3, <1>4

\* Where the program counter goes is always a label.
LEMMA GotoTypes ==
    ASSUME ProcTypes, NEW p \in Procs, NEW label \in Labels, Goto(p, label)
    PROVE  pc' \in [Procs -> Labels]
  BY DEF ProcTypes, Goto

LEMMA LabelsAre ==
    /\ "idle" \in Labels /\ "load" \in Labels /\ "seen" \in Labels /\ "lock" \in Labels
    /\ "drop" \in Labels /\ "peek" \in Labels /\ "range" \in Labels /\ "exited" \in Labels
  BY DEF Labels

\* What a lock section leaves of an entry's hits is again a log.
LEMMA KeptIsLog ==
    ASSUME TypeOK, NEW w \in Workers, ptr[w] \in Entries
    PROVE  /\ hits[ptr[w]] \in Seq(Int) /\ now[w] \in Int
           /\ policy[w] \in EnforcedPolicies /\ policy[w].window \in Int
           /\ now[w] - policy[w].window \in Int
           /\ Kept(w) \in Seq(Int) /\ Append(Kept(w), now[w]) \in Seq(Int)
<1>1. hits[ptr[w]] \in Seq(Int) /\ now[w] \in Int /\ policy[w] \in EnforcedPolicies
  BY Constants DEF TypeOK, HeapTypes, ProcTypes
<1>2. policy[w].window \in Int /\ now[w] - policy[w].window \in Int
  BY <1>1, ClampAssumption DEF EnforcedPolicies
<1>3. Kept(w) \in Seq(Int)
  BY <1>1, <1>2, PruneKeepsSuffix DEF Kept
<1> QED
  BY <1>1, <1>2, <1>3, AppendProperties

LEMMA WorkerTypes ==
    ASSUME TypeOK, Shape, NEW w \in Workers,
           \/ \E k \in Keys, raw \in Policies : BeginAllow(w, k, raw) \/ BeginPeek(w, k, raw)
           \/ WorkerStep(w)
    PROVE  TypeOK'
<1> USE LabelsAre
<1>1. w \in Procs /\ clock \in Nat /\ stopped \in BOOLEAN /\ MaxAttempts \in Nat
  BY Constants DEF TypeOK
<1>2. ASSUME NEW k \in Keys, NEW raw \in Policies, BeginAllow(w, k, raw) \/ BeginPeek(w, k,
    raw)
      PROVE  TypeOK'
  <2>1. Normalize(raw) \in EnforcedPolicies
    BY PolicyInUse
  <2>2. pc' \in [Procs -> Labels]
    BY <1>1, <1>2, GotoTypes DEF BeginAllow, BeginPeek, TypeOK
  <2>3. /\ key' \in [Procs -> Keys] /\ now' \in [Procs -> Nat]
        /\ policy' \in [Workers -> EnforcedPolicies]
    BY <1>1, <1>2, <2>1 DEF BeginAllow, BeginPeek, TypeOK, ProcTypes
  <2>4. /\ attempt' \in [Workers -> 0 .. MaxAttempts]
        /\ kills' \in [Workers -> 0 .. MaxAttempts]
    <3>1. CASE BeginAllow(w, k, raw)
      <4>1. 0 \in 0 .. MaxAttempts
        BY <1>1
      <4> QED
        BY <3>1, <4>1 DEF BeginAllow, TypeOK, ProcTypes
    <3>2. CASE BeginPeek(w, k, raw)
      BY <3>2 DEF BeginPeek, TypeOK, ProcTypes, ghost
    <3> QED
      BY <1>2, <3>1, <3>2
  <2>5. ptr' \in [Procs -> Entries \cup {NoEntry}]
    BY <1>2 DEF BeginAllow, BeginPeek, Point, TypeOK, ProcTypes, HeapTypes
  <2>6. HeapTypes' /\ UNCHANGED <<clock, stopped, granted, left>>
    BY <1>2 DEF BeginAllow, BeginPeek, TypeOK, HeapTypes, heap, ghost
  <2> QED
    BY <2>2, <2>3, <2>4, <2>5, <2>6 DEF TypeOK, ProcTypes
<1>3. CASE LoadHit(w)
  <2>1. pc' \in [Procs -> Labels]
    BY <1>1, <1>3, GotoTypes DEF LoadHit, TypeOK
  <2>2. ptr' \in [Procs -> Entries \cup {NoEntry}]
    BY <1>1, <1>3 DEF LoadHit, Point, TypeOK, ProcTypes, HeapTypes
  <2> QED
    BY <1>3, <2>1, <2>2 DEF LoadHit, TypeOK, HeapTypes, ProcTypes, heap, local, ghost
<1>4. CASE LoadMiss(w)
  <2>1. pc' \in [Procs -> Labels]
    BY <1>1, <1>4, GotoTypes DEF LoadMiss, TypeOK
  <2>2. PICK e \in Entries :
          /\ entries' = [entries EXCEPT ![key[w]] = e]
          /\ hits' = [hits EXCEPT ![e] = <<>>]
          /\ window' = [window EXCEPT ![e] = 0]
          /\ dead' = [dead EXCEPT ![e] = FALSE]
          /\ lastSeen' = [lastSeen EXCEPT ![e] = 0]
          /\ Point(w, e)
    BY <1>4 DEF LoadMiss
  <2>3. HeapTypes'
    <3>1. <<>> \in Seq(Int)
      BY EmptySeq
    <3> QED
      BY <2>2, <3>1 DEF TypeOK, HeapTypes
  <2>4. ptr' \in [Procs -> Entries \cup {NoEntry}]
    BY <2>2 DEF Point, TypeOK, ProcTypes
  <2> QED
    BY <1>4, <2>1, <2>3, <2>4 DEF LoadMiss, TypeOK, ProcTypes, local, ghost
<1>5. CASE StoreLastSeen(w)
  <2>1. pc' \in [Procs -> Labels]
    BY <1>1, <1>5, GotoTypes DEF StoreLastSeen, TypeOK
  <2>2. HeapTypes'
    BY <1>1, <1>5 DEF StoreLastSeen, TypeOK, HeapTypes, ProcTypes
  <2> QED
    BY <1>5, <2>1, <2>2 DEF StoreLastSeen, TypeOK, ProcTypes, local, ghost
<1>6. CASE MeetDead(w)
  <2>1. pc' \in [Procs -> Labels]
    BY <1>1, <1>6, GotoTypes DEF MeetDead, TypeOK
  <2> QED
    BY <1>6, <2>1 DEF MeetDead, TypeOK, ProcTypes, HeapTypes, heap, local, ghost
<1>7. CASE Admit(w) \/ Refuse(w) \/ PeekPrune(w)
  <2>1. ptr[w] \in Entries
    BY <1>1, <1>7
      DEF Admit, Refuse, PeekPrune, Shape, Holding, TypeOK, ProcTypes, Release, CountRequest
  <2>2. Kept(w) \in Seq(Int) /\ Append(Kept(w), now[w]) \in Seq(Int)
    BY <2>1, KeptIsLog
  <2>3. policy[w].window \in Nat /\ policy[w].limit \in Nat
    BY ClampAssumption DEF TypeOK, ProcTypes, EnforcedPolicies
  <2>4. pc' \in [Procs -> Labels]
    BY <1>1, <1>7, GotoTypes DEF Admit, Refuse, PeekPrune, TypeOK, Release, CountRequest
  <2>5. ptr' \in [Procs -> Entries \cup {NoEntry}]
    BY <1>7 DEF Admit, Refuse, PeekPrune, Point, TypeOK, ProcTypes, Release, CountRequest
  <2>6. hits' \in [Entries -> Seq(Int)]
    <3>1. CASE Admit(w)
      BY <2>2, <3>1 DEF Admit, TypeOK, HeapTypes, Release, CountRequest
    <3>2. CASE Refuse(w) \/ PeekPrune(w)
      BY <2>2, <3>2 DEF Refuse, PeekPrune, TypeOK, HeapTypes, Release
    <3> QED
      BY <1>7, <3>1, <3>2
  <2>7. window' \in [Entries -> Nat]
    BY <1>7, <2>3 DEF Admit, Refuse, PeekPrune, TypeOK, HeapTypes, Release, CountRequest
  <2>8. granted' \in [Keys -> Seq(Admissions)]
    <3>1. Admission(clock, now[w], policy[w].limit) \in Admissions
      BY <1>1, <2>3 DEF Admission, Admissions, TypeOK, ProcTypes
    <3>2. CASE Admit(w)
      <4>1. key[w] \in Keys /\ granted[key[w]] \in Seq(Admissions)
        BY <1>1 DEF TypeOK, ProcTypes
      <4>2. Append(granted[key[w]], Admission(clock, now[w], policy[w].limit))
              \in Seq(Admissions)
        BY <3>1, <4>1, AppendProperties
      <4> QED
        BY <3>2, <4>1, <4>2 DEF Admit, TypeOK, Release, CountRequest
    <3>3. CASE Refuse(w) \/ PeekPrune(w)
      BY <3>3 DEF Refuse, PeekPrune, TypeOK, ghost, Release
    <3> QED
      BY <1>7, <3>2, <3>3
  <2>9. /\ UNCHANGED <<clock, entries, dead, lastSeen, key, now, policy, attempt, left,
                       stopped, kills>>
    BY <1>7 DEF Admit, Refuse, PeekPrune, local, ghost, Release, CountRequest
  <2> QED
    BY <2>4, <2>5, <2>6, <2>7, <2>8, <2>9 DEF TypeOK, HeapTypes, ProcTypes
<1>8. CASE Retry(w) \/ AdmitDetached(w)
  <2>1. pc' \in [Procs -> Labels]
    BY <1>1, <1>8, GotoTypes DEF Retry, AdmitDetached, TypeOK, Release, LoadAgain
  <2>2. ptr' \in [Procs -> Entries \cup {NoEntry}]
    BY <1>8 DEF Retry, AdmitDetached, Point, TypeOK, ProcTypes, Release, LoadAgain
  <2>3. attempt' \in [Workers -> 0 .. MaxAttempts]
    <3>1. CASE Retry(w)
      <4>1. attempt[w] + 1 \in 0 .. MaxAttempts
        BY <1>1, <3>1 DEF Retry, TypeOK, ProcTypes, Release, LoadAgain
      <4> QED
        BY <3>1, <4>1 DEF Retry, TypeOK, ProcTypes, Release, LoadAgain
    <3>2. CASE AdmitDetached(w)
      BY <3>2 DEF AdmitDetached, TypeOK, ProcTypes, Release
    <3> QED
      BY <1>8, <3>1, <3>2
  <2>4. HeapTypes'
    BY <1>8
      DEF Retry, AdmitDetached, CompareAndDelete, TypeOK, HeapTypes, heap, Release, LoadAgain
  <2> QED
    BY <1>8, <2>1, <2>2, <2>3, <2>4
      DEF Retry, AdmitDetached, TypeOK, ProcTypes, local, ghost, Release, LoadAgain
<1> QED
  BY <1>2, <1>3, <1>4, <1>5, <1>6, <1>7, <1>8 DEF WorkerStep

LEMMA ScannerTypes ==
    ASSUME TypeOK, Shape, NEW s \in Scanners, StartScan(s) \/ ScanStep(s)
    PROVE  TypeOK'
<1> USE LabelsAre
<1>1. s \in Procs /\ clock \in Nat /\ MaxAttempts \in Nat
  BY Constants DEF TypeOK
<1>2. CASE StartScan(s)
  <2>1. pc' \in [Procs -> Labels]
    BY <1>1, <1>2, GotoTypes DEF StartScan, TypeOK
  <2>2. now' \in [Procs -> Nat] /\ left' \in [Scanners -> SUBSET Keys]
    BY <1>1, <1>2 DEF StartScan, TypeOK, ProcTypes
  <2> QED
    BY <1>2, <2>1, <2>2 DEF StartScan, TypeOK, HeapTypes, ProcTypes, heap, ghost
<1>3. ASSUME NEW k \in Keys, Visit(s, k) PROVE TypeOK'
  <2>1. pc' \in [Procs -> Labels]
    BY <1>1, <1>3, GotoTypes DEF Visit, TypeOK, ProcTypes
  <2>2. /\ left' \in [Scanners -> SUBSET Keys] /\ key' \in [Procs -> Keys]
        /\ ptr' \in [Procs -> Entries \cup {NoEntry}]
    BY <1>3 DEF Visit, Point, TypeOK, ProcTypes, HeapTypes
  <2> QED
    BY <1>3, <2>1, <2>2 DEF Visit, TypeOK, HeapTypes, ProcTypes, heap, ghost
<1>4. CASE EndScan(s)
  <2>1. pc' \in [Procs -> Labels]
    BY <1>1, <1>4, GotoTypes DEF EndScan, TypeOK
  <2> QED
    BY <1>4, <2>1 DEF EndScan, TypeOK, HeapTypes, ProcTypes, heap, local, ghost
<1>5. ASSUME Retire(s)
      PROVE  /\ dead' \in [Entries -> BOOLEAN] /\ pc' \in [Procs -> Labels]
             /\ kills' \in [Workers -> 0 .. MaxAttempts]
  <2>1. dead' \in [Entries -> BOOLEAN]
    BY <1>5 DEF Retire, TypeOK, HeapTypes
  <2>2. ASSUME NEW w \in Workers
        PROVE  kills[w] \in 0 .. MaxAttempts /\ MinOf(kills[w] + 1,
            MaxAttempts) \in 0 .. MaxAttempts
    BY <1>1 DEF MinOf, TypeOK
  <2>3. kills' \in [Workers -> 0 .. MaxAttempts]
    BY <1>5, <2>2, Zenon DEF Retire
  <2> QED
    BY <1>1, <1>5, <2>1, <2>3, GotoTypes DEF Retire, TypeOK
<1>6. CASE ResetMark(s)
  <2>1. <<>> \in Seq(Admissions)
    BY EmptySeq
  <2>2. granted' \in [Keys -> Seq(Admissions)]
    BY <1>6, <2>1 DEF ResetMark, TypeOK
  <2> QED
    BY <1>5, <1>6, <2>2 DEF ResetMark, TypeOK, HeapTypes, ProcTypes, local
<1>7. CASE s = Janitor /\ Evict
  <2>1. <<>> \in Seq(Int)
    BY EmptySeq
  <2>2. hits' \in [Entries -> Seq(Int)]
    BY <1>7, <2>1 DEF Evict, TypeOK, HeapTypes
  <2> QED
    BY <1>5, <1>7, <2>2 DEF Evict, TypeOK, HeapTypes, ProcTypes, local
<1>8. CASE s = Janitor /\ CleanupPrune
  <2>1. ptr[s] \in Entries
    BY <1>1, <1>8 DEF CleanupPrune, Shape, Holding, TypeOK, ProcTypes, Release
  <2>2. /\ hits[ptr[s]] \in Seq(Int) /\ now[s] \in Int /\ window[ptr[s]] \in Int
        /\ now[s] - window[ptr[s]] \in Int
    BY <1>1, <2>1 DEF TypeOK, HeapTypes, ProcTypes
  <2>3. Prune(hits[ptr[s]], now[s] - window[ptr[s]]) \in Seq(Int)
    BY <2>2, PruneKeepsSuffix
  <2>4. hits' \in [Entries -> Seq(Int)]
    BY <1>8, <2>1, <2>3 DEF CleanupPrune, TypeOK, HeapTypes, Release
  <2>5. pc' \in [Procs -> Labels]
    BY <1>1, <1>8, GotoTypes DEF CleanupPrune, TypeOK, Release
  <2>6. ptr' \in [Procs -> Entries \cup {NoEntry}]
    BY <1>8 DEF CleanupPrune, Point, TypeOK, ProcTypes, Release
  <2> QED
    BY <1>8, <2>4, <2>5, <2>6
      DEF CleanupPrune, TypeOK, HeapTypes, ProcTypes, local, ghost, Release
<1>9. CASE ScanDelete(s)
  <2>1. pc' \in [Procs -> Labels]
    BY <1>1, <1>9, GotoTypes DEF ScanDelete, TypeOK, Release
  <2>2. ptr' \in [Procs -> Entries \cup {NoEntry}]
    BY <1>9 DEF ScanDelete, Point, TypeOK, ProcTypes, Release
  <2>3. HeapTypes'
    BY <1>9 DEF ScanDelete, CompareAndDelete, TypeOK, HeapTypes, heap, Release
  <2> QED
    BY <1>9, <2>1, <2>2, <2>3 DEF ScanDelete, TypeOK, ProcTypes, local, ghost, Release
<1> QED
  BY <1>2, <1>3, <1>4, <1>6, <1>7, <1>8, <1>9 DEF ScanStep

LEMMA NextTypes == TypeOK /\ Shape /\ [Next]_vars => TypeOK'
<1> SUFFICES ASSUME TypeOK, Shape, [Next]_vars PROVE TypeOK'
  OBVIOUS
<1>1. CASE Tick
  BY <1>1 DEF Tick, TypeOK, HeapTypes, ProcTypes, heap, local, ghost
<1>2. CASE Close
  BY <1>2 DEF Close, TypeOK, HeapTypes, ProcTypes, heap, local, ghost
<1>3. CASE JanitorExit
  <2>1. pc' \in [Procs -> Labels]
    BY <1>3, GotoTypes, LabelsAre, Constants DEF JanitorExit, TypeOK
  <2> QED
    BY <1>3, <2>1 DEF JanitorExit, TypeOK, HeapTypes, ProcTypes, heap, local, ghost
<1>4. CASE UNCHANGED vars
  BY <1>4 DEF vars, TypeOK, HeapTypes, ProcTypes, heap, local, ghost
<1> QED
  BY <1>1, <1>2, <1>3, <1>4, WorkerTypes, ScannerTypes DEF Next

-----------------------------------------------------------------------------
(***************************************************************************)
(* Structure.  A step does one of five things to the heap's shape: it      *)
(* takes a pointer from the map, moves on with the pointers it has, lets   *)
(* its pointer go, marks the entry it holds, or publishes a new entry.     *)
(***************************************************************************)
LEMMA TakeKeeps ==
    ASSUME TypeOK, Structure, NEW p \in Procs, NEW k \in Keys, entries[k] # NoEntry,
           ptr' = [ptr EXCEPT ![p] = entries[k]], key' = [key EXCEPT ![p] = k],
           NEW label \in Holding \ {"drop"}, pc' = [pc EXCEPT ![p] = label],
           UNCHANGED <<entries, dead>>
    PROVE  Structure'
<1>1. Shape'
  BY DEF Structure, Shape, TypeOK, ProcTypes
<1>2. LiveIsMapped'
  BY DEF Structure, LiveIsMapped, TypeOK, ProcTypes
<1> QED
  BY <1>1, <1>2 DEF Structure, OneKeyPerEntry

LEMMA MoveKeeps ==
    ASSUME TypeOK, Structure, NEW p \in Procs, NEW label,
           pc' = [pc EXCEPT ![p] = label],
           label \in Holding <=> pc[p] \in Holding,
           label = "drop" => dead[ptr[p]],
           \A q \in Procs : ptr[q] # NoEntry => key'[q] = key[q],
           UNCHANGED <<entries, dead, ptr>>
    PROVE  Structure'
<1>1. Shape'
  BY DEF Structure, Shape, TypeOK, ProcTypes
<1>2. LiveIsMapped'
  BY DEF Structure, LiveIsMapped
<1> QED
  BY <1>1, <1>2 DEF Structure, OneKeyPerEntry

LEMMA ReleaseKeeps ==
    ASSUME TypeOK, Structure, NEW p \in Procs, NEW label,
           pc' = [pc EXCEPT ![p] = label], label \notin Holding,
           ptr' = [ptr EXCEPT ![p] = NoEntry],
           \/ UNCHANGED entries
           \/ dead[ptr[p]] /\ CompareAndDelete(key[p], ptr[p]),
           UNCHANGED <<dead, key>>
    PROVE  Structure'
<1>1. Shape'
  BY DEF Structure, Shape, TypeOK, ProcTypes, Holding
<1>2. ASSUME NEW k \in Keys, entries'[k] # entries[k]
      PROVE  entries'[k] = NoEntry /\ dead[entries[k]]
  BY <1>2 DEF CompareAndDelete, TypeOK, HeapTypes
<1>3. LiveIsMapped'
  <2> SUFFICES ASSUME NEW q \in Procs, ptr'[q] # NoEntry, ~dead[ptr'[q]]
               PROVE  entries'[key[q]] = ptr'[q]
    BY DEF LiveIsMapped
  <2>1. ptr'[q] = ptr[q]
    BY DEF TypeOK, ProcTypes
  <2>2. entries[key[q]] = ptr[q] /\ key[q] \in Keys
    BY <2>1 DEF Structure, LiveIsMapped, TypeOK, ProcTypes
  <2> QED
    BY <1>2, <2>1, <2>2
<1>4. OneKeyPerEntry'
  BY <1>2 DEF Structure, OneKeyPerEntry
<1> QED
  BY <1>1, <1>3, <1>4 DEF Structure

LEMMA RetireKeeps ==
    ASSUME TypeOK, Structure, NEW s \in Scanners, Retire(s), pc[s] = "lock",
           UNCHANGED <<entries, key, ptr>>
    PROVE  Structure'
<1>1. s \in Procs
  BY Constants
<1>2. ptr[s] \in Entries
  BY <1>1 DEF Structure, Shape, Holding, TypeOK, ProcTypes
<1>3. dead'[ptr[s]] /\ \A e \in Entries : dead[e] => dead'[e]
  BY <1>2 DEF Retire, TypeOK, HeapTypes
<1>4. pc' = [pc EXCEPT ![s] = "drop"]
  BY DEF Retire, Goto
<1>5. \A p \in Procs : ptr[p] # NoEntry => ptr[p] \in Entries
  BY DEF TypeOK, ProcTypes
<1>6. Shape'
  <2>1. \A p \in Procs : ptr'[p] # NoEntry <=> pc'[p] \in Holding
    BY <1>1, <1>4 DEF Structure, Shape, Holding, TypeOK, ProcTypes
  <2>2. \A p \in Procs : pc'[p] = "drop" => dead'[ptr'[p]]
    <3> SUFFICES ASSUME NEW p \in Procs, pc'[p] = "drop" PROVE dead'[ptr[p]]
      OBVIOUS
    <3>1. CASE p = s
      BY <1>3, <3>1
    <3>2. CASE p # s
      <4>1. pc[p] = "drop"
        BY <1>4, <3>2 DEF TypeOK, ProcTypes
      <4>2. dead[ptr[p]] /\ ptr[p] \in Entries
        BY <4>1, <1>5 DEF Structure, Shape, Holding
      <4> QED
        BY <1>3, <4>2
    <3> QED
      BY <3>1, <3>2
  <2> QED
    BY <2>1, <2>2 DEF Shape
<1>7. LiveIsMapped'
  BY <1>3, <1>5 DEF Structure, LiveIsMapped
<1> QED
  BY <1>6, <1>7 DEF Structure, OneKeyPerEntry

LEMMA PublishKeeps ==
    ASSUME TypeOK, Structure, NEW w \in Workers, LoadMiss(w)
    PROVE  Structure'
<1>1. w \in Procs /\ key[w] \in Keys
  BY Constants DEF TypeOK, ProcTypes
<1>2. PICK e \in Entries :
        /\ Free(e)
        /\ entries' = [entries EXCEPT ![key[w]] = e]
        /\ dead' = [dead EXCEPT ![e] = FALSE]
        /\ ptr' = [ptr EXCEPT ![w] = e]
  BY DEF LoadMiss, Point
<1>3. e # NoEntry
  BY Constants
<1>4. pc' = [pc EXCEPT ![w] = "seen"] /\ UNCHANGED key /\ entries[key[w]] = NoEntry
  BY DEF LoadMiss, Goto, local
<1>5. \A p \in Procs : p # w => ptr'[p] = ptr[p] /\ ptr[p] # e /\ pc'[p] = pc[p]
  BY <1>2, <1>4 DEF Free, TypeOK, ProcTypes
<1>6. ptr'[w] = e /\ pc'[w] = "seen" /\ entries'[key[w]] = e /\ pc[w] = "load"
  BY <1>1, <1>2, <1>4 DEF TypeOK, ProcTypes, HeapTypes, LoadMiss
<1>7. \A f \in Entries : f # e => dead'[f] = dead[f]
  BY <1>2 DEF TypeOK, HeapTypes
<1>8. \A k \in Keys : k # key[w] => entries'[k] = entries[k]
  BY <1>2 DEF TypeOK, HeapTypes
<1>9. \A p \in Procs : ptr[p] # NoEntry => ptr[p] \in Entries
  BY DEF TypeOK, ProcTypes
<1>10. Shape'
  <2>1. \A p \in Procs : ptr'[p] # NoEntry <=> pc'[p] \in Holding
    BY <1>3, <1>5, <1>6 DEF Structure, Shape, Holding
  <2>2. ASSUME NEW p \in Procs, pc'[p] = "drop" PROVE dead'[ptr'[p]]
    <3>1. p # w /\ pc[p] = "drop"
      BY <1>5, <1>6, <2>2
    <3>2. dead[ptr[p]] /\ ptr[p] \in Entries /\ ptr'[p] = ptr[p] /\ ptr[p] # e
      BY <1>5, <1>9, <3>1 DEF Structure, Shape, Holding
    <3> QED
      BY <1>7, <3>2
  <2> QED
    BY <2>1, <2>2 DEF Shape
<1>11. LiveIsMapped'
  <2> SUFFICES ASSUME NEW p \in Procs, ptr'[p] # NoEntry, ~dead'[ptr'[p]]
               PROVE  entries'[key[p]] = ptr'[p]
    BY <1>4 DEF LiveIsMapped
  <2>1. CASE p = w
    BY <1>6, <2>1
  <2>2. CASE p # w
    <3>1. ptr'[p] = ptr[p] /\ ptr[p] # e /\ ptr[p] \in Entries
      BY <1>5, <1>9, <2>2
    <3>2. ~dead[ptr[p]]
      BY <1>7, <3>1
    <3>3. entries[key[p]] = ptr[p] /\ key[p] \in Keys
      BY <3>1, <3>2, Constants DEF Structure, LiveIsMapped, TypeOK, ProcTypes
    <3> QED
      BY <1>4, <1>8, <3>1, <3>3
  <2> QED
    BY <2>1, <2>2
<1>12. OneKeyPerEntry'
  BY <1>2, <1>6, <1>8 DEF Structure, OneKeyPerEntry, Free
<1> QED
  BY <1>10, <1>11, <1>12 DEF Structure

LEMMA NextStructure == TypeOK /\ Structure /\ [Next]_vars => Structure'
<1> SUFFICES ASSUME TypeOK, Structure, [Next]_vars PROVE Structure'
  OBVIOUS
<1> USE Constants
<1>0. \A p \in Procs : key[p] \in Keys /\ (pc[p] \in Holding <=> ptr[p] # NoEntry)
  BY DEF TypeOK, ProcTypes, Structure, Shape
<1>1. CASE Tick \/ Close \/ UNCHANGED vars
  <2>1. UNCHANGED <<entries, dead, ptr, key, pc>>
    BY <1>1 DEF Tick, Close, vars, heap, local
  <2> QED
    BY <2>1 DEF Structure, Shape, LiveIsMapped, OneKeyPerEntry
<1>2. CASE JanitorExit
  BY <1>2, MoveKeeps DEF JanitorExit, Goto, Holding, heap, local
<1>3. ASSUME NEW w \in Workers, NEW k \in Keys, NEW raw \in Policies,
             BeginAllow(w, k, raw) \/ BeginPeek(w, k, raw)
      PROVE  Structure'
  <2>1. CASE BeginAllow(w, k, raw)
    <3>1. pc' = [pc EXCEPT ![w] = "load"] /\ UNCHANGED <<entries, dead, ptr>>
      BY <2>1 DEF BeginAllow, Goto, heap
    <3>2. \A q \in Procs : ptr[q] # NoEntry => key'[q] = key[q]
      BY <2>1, <1>0 DEF BeginAllow, Holding, TypeOK, ProcTypes
    <3>3. pc[w] \notin Holding /\ "load" \notin Holding /\ "load" # "drop"
      BY <2>1 DEF BeginAllow, Holding
    <3> QED
      BY <3>1, <3>2, <3>3, MoveKeeps
  <2>2. CASE BeginPeek(w, k, raw)
    BY <2>2, TakeKeeps DEF BeginPeek, Goto, Point, Holding, heap
  <2> QED
    BY <1>3, <2>1, <2>2
<1>4. ASSUME NEW w \in Workers, WorkerStep(w) PROVE Structure'
  <2>1. CASE LoadHit(w)
    <3>1. key' = [key EXCEPT ![w] = key[w]]
      BY <2>1 DEF LoadHit, local, TypeOK, ProcTypes
    <3> QED
      BY <2>1, <3>1, <1>0, TakeKeeps DEF LoadHit, Goto, Point, Holding, heap
  <2>2. CASE LoadMiss(w)
    BY <2>2, PublishKeeps
  <2>3. CASE StoreLastSeen(w)
    BY <2>3, MoveKeeps DEF StoreLastSeen, Goto, Holding, local
  <2>4. CASE MeetDead(w)
    BY <2>4, MoveKeeps DEF MeetDead, Goto, Holding, heap, local
  <2>5. CASE Admit(w) \/ Refuse(w) \/ PeekPrune(w)
    BY <2>5, ReleaseKeeps
      DEF Admit, Refuse, PeekPrune, Goto, Point, Holding, local, Release, CountRequest
  <2>6. CASE Retry(w) \/ AdmitDetached(w)
    <3>1. dead[ptr[w]]
      BY <2>6 DEF Retry, AdmitDetached, Structure, Shape, Release, LoadAgain
    <3> QED
      BY <2>6, <3>1, ReleaseKeeps
        DEF Retry, AdmitDetached, Goto, Point, Holding, heap, local, Release, LoadAgain
  <2> QED
    BY <1>4, <2>1, <2>2, <2>3, <2>4, <2>5, <2>6 DEF WorkerStep
<1>5. ASSUME NEW s \in Scanners, StartScan(s) \/ ScanStep(s) PROVE Structure'
  <2>1. CASE StartScan(s) \/ EndScan(s)
    BY <2>1, MoveKeeps DEF StartScan, EndScan, Goto, Holding, heap, local
  <2>2. ASSUME NEW k \in Keys, Visit(s, k) PROVE Structure'
    <3>1. CASE entries[k] = NoEntry
      <4>1. UNCHANGED <<entries, dead, ptr, key, pc>>
        BY <2>2, <3>1 DEF Visit, heap
      <4> QED
        BY <4>1 DEF Structure, Shape, LiveIsMapped, OneKeyPerEntry
    <3>2. CASE entries[k] # NoEntry
      BY <2>2, <3>2, TakeKeeps DEF Visit, Goto, Point, Holding, heap
    <3> QED
      BY <3>1, <3>2
  <2>3. CASE ResetMark(s)
    BY <2>3, RetireKeeps DEF ResetMark, local
  <2>4. CASE s = Janitor /\ Evict
    BY <2>4, RetireKeeps DEF Evict, local
  <2>5. CASE s = Janitor /\ CleanupPrune
    BY <2>5, ReleaseKeeps DEF CleanupPrune, Goto, Point, Holding, local, Release
  <2>6. CASE ScanDelete(s)
    <3>1. dead[ptr[s]]
      BY <2>6 DEF ScanDelete, Structure, Shape, Release
    <3> QED
      BY <2>6, <3>1, ReleaseKeeps DEF ScanDelete, Goto, Point, Holding, heap, local, Release
  <2> QED
    BY <1>5, <2>1, <2>2, <2>3, <2>4, <2>5, <2>6 DEF ScanStep
<1> QED
  BY <1>1, <1>2, <1>3, <1>4, <1>5 DEF Next

(***************************************************************************)
(* No request is ever counted on a detached entry: in every behaviour, for *)
(* any number of goroutines, keys and entries, whoever holds an entry that *)
(* is not dead holds the one the map has for its key (memory.go, the dead  *)
(* flag checked under the lock).                                           *)
(***************************************************************************)
THEOREM LiveEntryIsMapped == Spec => [](TypeOK /\ LiveIsMapped)
<1>1. TypeOK /\ Structure /\ [Next]_vars => TypeOK' /\ Structure'
  BY NextTypes, NextStructure DEF Structure
<1>2. TypeOK /\ Structure => TypeOK /\ LiveIsMapped
  BY DEF Structure
<1> QED
  BY <1>1, <1>2, InitTypes, PTL DEF Spec

-----------------------------------------------------------------------------
(***************************************************************************)
(* Instants.  Calls decide for an instant at most MaxDelay ago, and no     *)
(* stamp of an entry is more than MaxDelay later than its lastSeen, which  *)
(* is stored before the lock is taken and may go backwards.                *)
(***************************************************************************)
AllBelow(h, b) == \A j \in 1 .. Len(h) : h[j] <= b

CallsAreTimely ==
    /\ \A p \in Procs : now[p] <= clock
    /\ \A w \in Workers : pc[w] # "idle" =>
        clock <= now[w] + MaxDelay /\ policy[w].window >= ShortestWindow
    /\ \A w \in Workers : pc[w] = "lock" => now[w] <= lastSeen[ptr[w]] + MaxDelay

StampsAreTimely ==
    \A e \in Entries :
        /\ AllBelow(hits[e], clock)
        /\ AllBelow(hits[e], lastSeen[e] + MaxDelay)
        /\ IF window[e] = 0 THEN hits[e] = <<>> ELSE window[e] >= ShortestWindow

Timing == CallsAreTimely /\ StampsAreTimely

LEMMA AllBelowLaws ==
    ASSUME NEW h \in Seq(Int), NEW b \in Int, AllBelow(h, b)
    PROVE  /\ \A c \in Int : b <= c => AllBelow(h, c)
           /\ \A c \in Int : AllBelow(Prune(h, c), b)
           /\ \A x \in Int : x <= b => AllBelow(Append(h, x), b)
<1>1. Len(h) \in Nat /\ \A j \in 1 .. Len(h) : h[j] \in Int
  BY LenProperties
<1>2. ASSUME NEW c \in Int, b <= c PROVE AllBelow(h, c)
  BY <1>1, <1>2 DEF AllBelow
<1>3. ASSUME NEW c \in Int PROVE AllBelow(Prune(h, c), b)
  <2>1. PICK n \in 0 .. Len(h) :
          /\ Len(Prune(h, c)) = Len(h) - n
          /\ \A j \in 1 .. Len(h) - n : Prune(h, c)[j] = h[n + j]
    BY PruneKeepsSuffix
  <2>2. \A j \in 1 .. Len(h) - n : n + j \in 1 .. Len(h)
    BY <1>1
  <2> QED
    BY <2>1, <2>2 DEF AllBelow
<1>4. ASSUME NEW x \in Int, x <= b PROVE AllBelow(Append(h, x), b)
  <2>1. /\ Len(Append(h, x)) = Len(h) + 1
        /\ \A j \in 1 .. Len(h) : Append(h, x)[j] = h[j]
        /\ Append(h, x)[Len(h) + 1] = x
    BY AppendProperties
  <2>2. \A j \in 1 .. Len(h) + 1 : j \in 1 .. Len(h) \/ j = Len(h) + 1
    BY <1>1
  <2> QED
    BY <1>4, <2>1, <2>2 DEF AllBelow
<1> QED
  BY <1>2, <1>3, <1>4

LEMMA NothingBelow == \A b : AllBelow(<<>>, b)
  BY DEF AllBelow

LEMMA PruneNothing == \A c \in Int : Prune(<<>>, c) = <<>>
<1> SUFFICES ASSUME NEW c \in Int PROVE Prune(<<>>, c) = <<>>
  OBVIOUS
<1>1. <<>> \in Seq(Int) /\ Len(<<>>) = 0
  BY EmptySeq
<1>2. PICK n \in 0 .. Len(<<>>) : Len(Prune(<<>>, c)) = Len(<<>>) - n
  BY <1>1, PruneKeepsSuffix
<1>3. Prune(<<>>, c) \in Seq(Int)
  BY <1>1, PruneKeepsSuffix
<1>4. Len(Prune(<<>>, c)) = 0
  BY <1>1, <1>2
<1> QED
  BY <1>3, <1>4, EmptySeq

LEMMA InitTiming == Init => Timing
<1> SUFFICES ASSUME Init PROVE Timing
  OBVIOUS
<1>1. CallsAreTimely
  BY Constants DEF Init, CallsAreTimely, Procs
<1>2. StampsAreTimely
  BY NothingBelow DEF Init, StampsAreTimely
<1> QED
  BY <1>1, <1>2 DEF Timing

(***************************************************************************)
(* A lock section that replaces the hits of the entry its goroutine holds. *)
(***************************************************************************)
LEMMA RewriteKeepsTiming ==
    ASSUME TypeOK, Timing, NEW p \in Procs, ptr[p] \in Entries, NEW h \in Seq(Int),
           hits' = [hits EXCEPT ![ptr[p]] = h],
           AllBelow(h, clock), AllBelow(h, lastSeen[ptr[p]] + MaxDelay),
           \/ UNCHANGED window /\ (window[ptr[p]] = 0 => h = <<>>)
           \/ \E d \in Nat : d >= ShortestWindow /\ window' = [window EXCEPT ![ptr[p]] = d],
           UNCHANGED <<clock, lastSeen>>
    PROVE  StampsAreTimely'
<1> SUFFICES ASSUME NEW e \in Entries
             PROVE  /\ AllBelow(hits'[e], clock)
                    /\ AllBelow(hits'[e], lastSeen[e] + MaxDelay)
                    /\ IF window'[e] = 0 THEN hits'[e] = <<>>
                       ELSE window'[e] >= ShortestWindow
  BY DEF StampsAreTimely, AllBelow
<1>1. CASE e = ptr[p]
  <2>1. hits'[e] = h
    BY <1>1 DEF TypeOK, HeapTypes
  <2>2. IF window'[e] = 0 THEN h = <<>> ELSE window'[e] >= ShortestWindow
    <3>1. CASE UNCHANGED window /\ (window[ptr[p]] = 0 => h = <<>>)
      BY <1>1, <3>1 DEF Timing, StampsAreTimely
    <3>2. CASE \E d \in Nat : d >= ShortestWindow /\ window' = [window EXCEPT ![ptr[p]] = d]
      BY <1>1, <3>2, DelayAssumption DEF TypeOK, HeapTypes
    <3> QED
      BY <3>1, <3>2
  <2> QED
    BY <1>1, <2>1, <2>2
<1>2. CASE e # ptr[p]
  <2>1. hits'[e] = hits[e] /\ window'[e] = window[e]
    BY <1>2 DEF TypeOK, HeapTypes
  <2> QED
    BY <2>1 DEF Timing, StampsAreTimely
<1> QED
  BY <1>1, <1>2

LEMMA NextTiming == TypeOK /\ Structure /\ Timing /\ [Next]_vars => Timing'
<1> SUFFICES ASSUME TypeOK, Structure, Timing, [Next]_vars PROVE Timing'
  OBVIOUS
<1> USE Constants
<1>0. /\ clock \in Nat /\ MaxDelay \in Nat
      /\ \A p \in Procs : now[p] \in Nat
      /\ \A e \in Entries : lastSeen[e] \in Nat /\ hits[e] \in Seq(Int) /\ window[e] \in Nat
      /\ \A w \in Workers : policy[w] \in EnforcedPolicies
  BY DelayAssumption DEF TypeOK, HeapTypes, ProcTypes
<1>P. \A p \in Procs : pc[p] \in Holding => ptr[p] \in Entries
  BY DEF TypeOK, ProcTypes, Structure, Shape
<1>1. CASE Tick
  <2>1. clock' = clock + 1 /\ UNCHANGED <<hits, window, lastSeen, pc, ptr, now, policy>>
    BY <1>1 DEF Tick, heap, local
  <2>2. CallsAreTimely'
    <3>1. \A p \in Procs : now'[p] <= clock'
      BY <1>0, <2>1 DEF Timing, CallsAreTimely
    <3>2. \A w \in Workers : pc[w] # "idle" => clock + 1 <= now[w] + MaxDelay
      BY <1>0, <1>1 DEF Tick
    <3> QED
      BY <2>1, <3>1, <3>2 DEF Timing, CallsAreTimely
  <2>3. StampsAreTimely'
    <3> SUFFICES ASSUME NEW e \in Entries PROVE AllBelow(hits[e], clock + 1)
      BY <2>1 DEF Timing, StampsAreTimely, AllBelow
    <3> QED
      BY <1>0, AllBelowLaws DEF Timing, StampsAreTimely
  <2> QED
    BY <2>2, <2>3 DEF Timing
<1>2. CASE Close \/ JanitorExit \/ UNCHANGED vars
  <2>1. /\ UNCHANGED <<clock, hits, window, lastSeen, ptr, now, policy>>
        /\ \A w \in Workers : pc'[w] = pc[w]
    BY <1>2 DEF Close, JanitorExit, Goto, vars, heap, local, TypeOK, ProcTypes
  <2> QED
    BY <2>1 DEF Timing, CallsAreTimely, StampsAreTimely, AllBelow
<1>3. ASSUME NEW w \in Workers, NEW k \in Keys, NEW raw \in Policies,
             BeginAllow(w, k, raw) \/ BeginPeek(w, k, raw)
      PROVE  Timing'
  <2>1. UNCHANGED <<clock, hits, window, lastSeen>>
    BY <1>3 DEF BeginAllow, BeginPeek, heap
  <2>2. now' = [now EXCEPT ![w] = clock] /\ policy' = [policy EXCEPT ![w] = Normalize(raw)]
    BY <1>3 DEF BeginAllow, BeginPeek
  <2>3. \A v \in Workers : v # w => pc'[v] = pc[v] /\ ptr'[v] = ptr[v]
    BY <1>3 DEF BeginAllow, BeginPeek, Goto, Point, TypeOK, ProcTypes
  <2>4. pc'[w] # "lock"
    BY <1>3 DEF BeginAllow, BeginPeek, Goto, TypeOK, ProcTypes
  <2>5. Normalize(raw).window >= ShortestWindow
    BY PolicyInUse
  <2>6. \A p \in Procs : now'[p] <= clock
    BY <1>0, <2>2 DEF Timing, CallsAreTimely, TypeOK, ProcTypes
  <2>7. ASSUME NEW v \in Workers
        PROVE  /\ pc'[v] # "idle" =>
                   clock <= now'[v] + MaxDelay /\ policy'[v].window >= ShortestWindow
               /\ pc'[v] = "lock" => now'[v] <= lastSeen[ptr'[v]] + MaxDelay
    <3>1. CASE v = w
      <4>1. now'[v] = clock /\ policy'[v] = Normalize(raw)
        BY <2>2, <3>1 DEF TypeOK, ProcTypes
      <4> QED
        BY <1>0, <2>4, <2>5, <3>1, <4>1
    <3>2. CASE v # w
      <4>1. now'[v] = now[v] /\ policy'[v] = policy[v]
        BY <2>2, <3>2 DEF TypeOK, ProcTypes
      <4> QED
        BY <2>3, <3>2, <4>1 DEF Timing, CallsAreTimely
    <3> QED
      BY <3>1, <3>2
  <2>8. CallsAreTimely'
    BY <2>1, <2>6, <2>7 DEF CallsAreTimely
  <2>9. StampsAreTimely'
    BY <2>1 DEF Timing, StampsAreTimely, AllBelow
  <2> QED
    BY <2>8, <2>9 DEF Timing
<1>4. ASSUME NEW w \in Workers, WorkerStep(w) PROVE Timing'
  <2>0. /\ UNCHANGED <<clock, now, policy>>
        /\ \A v \in Workers : v # w => pc'[v] = pc[v] /\ ptr'[v] = ptr[v]
        /\ pc[w] # "idle"
    <3>1. CASE LoadHit(w) \/ StoreLastSeen(w) \/ MeetDead(w) \/ PeekPrune(w)
      BY <3>1
        DEF LoadHit, StoreLastSeen, MeetDead, PeekPrune, Goto, Point, local, TypeOK,
            ProcTypes, Release
    <3>2. CASE Admit(w) \/ Refuse(w)
      BY <3>2 DEF Admit, Refuse, Goto, Point, local, TypeOK, ProcTypes, Release, CountRequest
    <3>3. CASE Retry(w) \/ AdmitDetached(w)
      BY <3>3
        DEF Retry, AdmitDetached, Goto, Point, local, TypeOK, ProcTypes, Release, LoadAgain
    <3>4. CASE LoadMiss(w)
      <4>1. PICK e \in Entries : ptr' = [ptr EXCEPT ![w] = e]
        BY <3>4 DEF LoadMiss, Point
      <4> QED
        BY <3>4, <4>1 DEF LoadMiss, Goto, local, TypeOK, ProcTypes
    <3> QED
      BY <1>4, <3>1, <3>2, <3>3, <3>4 DEF WorkerStep
  <2>1. /\ now[w] <= clock /\ clock <= now[w] + MaxDelay
        /\ policy[w].window >= ShortestWindow /\ policy[w].window \in Nat
    BY <1>0, <2>0, ClampAssumption DEF Timing, CallsAreTimely, EnforcedPolicies
  <2>2. ASSUME pc'[w] = "lock" => now[w] <= lastSeen'[ptr'[w]] + MaxDelay,
               \A v \in Workers : v # w /\ pc[v] = "lock" =>
                   now[v] <= lastSeen'[ptr[v]] + MaxDelay
        PROVE  CallsAreTimely'
    <3>1. \A v \in Workers : pc'[v] # "idle" => pc[v] # "idle"
      BY <2>0
    <3>2. \A v \in Workers : pc'[v] = "lock" => now[v] <= lastSeen'[ptr'[v]] + MaxDelay
      BY <2>0, <2>2
    <3> QED
      BY <2>0, <3>1, <3>2 DEF Timing, CallsAreTimely
  <2>3. CASE /\ UNCHANGED lastSeen /\ pc'[w] # "lock"
             /\ UNCHANGED <<hits, window>> \/ Admit(w) \/ Refuse(w) \/ PeekPrune(w)
    <3>1. CallsAreTimely'
      BY <2>2, <2>3 DEF Timing, CallsAreTimely
    <3>2. CASE UNCHANGED <<hits, window>>
      BY <2>0, <2>3, <3>1, <3>2 DEF Timing, StampsAreTimely, AllBelow
    <3>3. CASE Admit(w) \/ Refuse(w) \/ PeekPrune(w)
      <4> DEFINE e == ptr[w]
      <4>1. e \in Entries
        BY <1>P, <3>3 DEF Admit, Refuse, PeekPrune, Holding, Release, CountRequest
      <4>2. /\ Kept(w) \in Seq(Int) /\ Append(Kept(w), now[w]) \in Seq(Int)
            /\ now[w] - policy[w].window \in Int
        BY <4>1, KeptIsLog
      <4>3. AllBelow(Kept(w), clock) /\ AllBelow(Kept(w), lastSeen[e] + MaxDelay)
        <5>1. AllBelow(hits[e], clock) /\ AllBelow(hits[e], lastSeen[e] + MaxDelay)
          BY <4>1 DEF Timing, StampsAreTimely
        <5>2. /\ hits[e] \in Seq(Int) /\ clock \in Int /\ lastSeen[e] + MaxDelay \in Int
          BY <1>0, <4>1
        <5> QED
          BY <4>2, <5>1, <5>2, AllBelowLaws DEF Kept
      <4>4. CASE Admit(w)
        <5>1. now[w] <= lastSeen[e] + MaxDelay
          BY <4>4 DEF Admit, Timing, CallsAreTimely, Release, CountRequest
        <5>2. /\ AllBelow(Append(Kept(w), now[w]), clock)
              /\ AllBelow(Append(Kept(w), now[w]), lastSeen[e] + MaxDelay)
          BY <1>0, <2>1, <4>1, <4>2, <4>3, <5>1, AllBelowLaws
        <5>3. /\ hits' = [hits EXCEPT ![e] = Append(Kept(w), now[w])]
              /\ window' = [window EXCEPT ![e] = policy[w].window]
          BY <4>4 DEF Admit, Release, CountRequest
        <5>4. StampsAreTimely'
          BY <2>0, <2>1, <2>3, <4>1, <4>2, <5>2, <5>3, RewriteKeepsTiming
        <5> QED
          BY <3>1, <5>4 DEF Timing
      <4>5. CASE Refuse(w)
        <5>1. /\ hits' = [hits EXCEPT ![e] = Kept(w)]
              /\ window' = [window EXCEPT ![e] = policy[w].window]
          BY <4>5 DEF Refuse, Release
        <5>2. StampsAreTimely'
          BY <2>0, <2>1, <2>3, <4>1, <4>2, <4>3, <5>1, RewriteKeepsTiming
        <5> QED
          BY <3>1, <5>2 DEF Timing
      <4>6. CASE PeekPrune(w)
        <5>1. hits' = [hits EXCEPT ![e] = Kept(w)] /\ UNCHANGED window
          BY <4>6 DEF PeekPrune, Release
        <5>2. window[e] = 0 => Kept(w) = <<>>
          BY <4>1, <4>2, PruneNothing DEF Kept, Timing, StampsAreTimely
        <5>3. StampsAreTimely'
          BY <2>0, <2>3, <4>1, <4>2, <4>3, <5>1, <5>2, RewriteKeepsTiming
        <5> QED
          BY <3>1, <5>3 DEF Timing
      <4> QED
        BY <3>3, <4>4, <4>5, <4>6
    <3> QED
      BY <2>3, <3>2, <3>3
  <2>4. CASE LoadMiss(w)
    <3>1. PICK e \in Entries :
            /\ Free(e)
            /\ hits' = [hits EXCEPT ![e] = <<>>]
            /\ window' = [window EXCEPT ![e] = 0]
            /\ lastSeen' = [lastSeen EXCEPT ![e] = 0]
      BY <2>4 DEF LoadMiss
    <3>2. pc'[w] = "seen"
      BY <2>4 DEF LoadMiss, Goto, TypeOK, ProcTypes
    <3>3. \A f \in Entries : f # e =>
            hits'[f] = hits[f] /\ window'[f] = window[f] /\ lastSeen'[f] = lastSeen[f]
      BY <3>1 DEF TypeOK, HeapTypes
    <3>4. hits'[e] = <<>> /\ window'[e] = 0
      BY <3>1 DEF TypeOK, HeapTypes
    <3>5. \A v \in Workers : pc[v] = "lock" => ptr[v] # e /\ ptr[v] \in Entries
      BY <1>P, <3>1 DEF Free, Holding
    <3>6. CallsAreTimely'
      BY <2>2, <3>2, <3>3, <3>5 DEF Timing, CallsAreTimely
    <3>7. StampsAreTimely'
      <4> SUFFICES ASSUME NEW f \in Entries
                   PROVE  /\ AllBelow(hits'[f], clock)
                          /\ AllBelow(hits'[f], lastSeen'[f] + MaxDelay)
                          /\ IF window'[f] = 0 THEN hits'[f] = <<>>
                             ELSE window'[f] >= ShortestWindow
        BY <2>0 DEF StampsAreTimely, AllBelow
      <4>1. CASE f = e
        BY <3>4, <4>1, NothingBelow
      <4>2. CASE f # e
        BY <3>3, <4>2 DEF Timing, StampsAreTimely
      <4> QED
        BY <4>1, <4>2
    <3> QED
      BY <3>6, <3>7 DEF Timing
  <2>5. CASE StoreLastSeen(w)
    <3> DEFINE e == ptr[w]
    <3>1. e \in Entries
      BY <1>P, <2>5 DEF StoreLastSeen, Holding
    <3>2. /\ lastSeen' = [lastSeen EXCEPT ![e] = now[w]] /\ UNCHANGED <<hits, window, ptr>>
          /\ lastSeen'[e] = now[w] /\ \A f \in Entries : f # e => lastSeen'[f] = lastSeen[f]
      BY <2>5, <3>1 DEF StoreLastSeen, TypeOK, HeapTypes
    <3>3. \A v \in Workers : now[v] <= now[w] + MaxDelay
      <4> SUFFICES ASSUME NEW v \in Workers PROVE now[v] <= now[w] + MaxDelay
        OBVIOUS
      <4>1. now[v] <= clock
        BY DEF Timing, CallsAreTimely
      <4> QED
        BY <1>0, <2>1, <4>1
    <3>4. \A v \in Workers : pc[v] = "lock" => ptr[v] \in Entries
      BY <1>P DEF Holding
    <3>5. CallsAreTimely'
      <4>1. pc'[w] = "lock" => now[w] <= lastSeen'[ptr'[w]] + MaxDelay
        BY <3>2, <3>3
      <4>2. ASSUME NEW v \in Workers, v # w, pc[v] = "lock"
            PROVE  now[v] <= lastSeen'[ptr[v]] + MaxDelay
        <5>1. CASE ptr[v] = e
          BY <3>2, <3>3, <5>1
        <5>2. CASE ptr[v] # e
          BY <3>2, <3>4, <4>2, <5>2 DEF Timing, CallsAreTimely
        <5> QED
          BY <5>1, <5>2
      <4> QED
        BY <2>2, <4>1, <4>2
    <3>6. StampsAreTimely'
      <4> SUFFICES ASSUME NEW f \in Entries
                   PROVE  AllBelow(hits[f], lastSeen'[f] + MaxDelay)
        BY <2>0, <3>2 DEF Timing, StampsAreTimely, AllBelow
      <4>1. CASE f = e
        <5>1. AllBelow(hits[f], clock)
          BY DEF Timing, StampsAreTimely
        <5> QED
          BY <1>0, <2>1, <3>2, <4>1, <5>1, AllBelowLaws
      <4>2. CASE f # e
        BY <3>2, <4>2 DEF Timing, StampsAreTimely
      <4> QED
        BY <4>1, <4>2
    <3> QED
      BY <3>5, <3>6 DEF Timing
  <2>6. CASE LoadHit(w) \/ MeetDead(w) \/ Retry(w) \/ AdmitDetached(w)
    <3>1. UNCHANGED <<hits, window, lastSeen>> /\ pc'[w] # "lock"
      BY <2>6
        DEF LoadHit, MeetDead, Retry, AdmitDetached, heap, Goto, TypeOK, ProcTypes, Release,
            LoadAgain
    <3> QED
      BY <2>3, <3>1
  <2>7. CASE Admit(w) \/ Refuse(w) \/ PeekPrune(w)
    <3>1. UNCHANGED lastSeen /\ pc'[w] # "lock"
      BY <2>7 DEF Admit, Refuse, PeekPrune, Goto, TypeOK, ProcTypes, Release, CountRequest
    <3> QED
      BY <2>3, <2>7, <3>1
  <2> QED
    BY <1>4, <2>4, <2>5, <2>6, <2>7 DEF WorkerStep
<1>5. ASSUME NEW s \in Scanners, StartScan(s) \/ ScanStep(s) PROVE Timing'
  <2>0. /\ UNCHANGED <<clock, lastSeen, policy>>
        /\ \A w \in Workers : pc'[w] = pc[w] /\ ptr'[w] = ptr[w] /\ now'[w] = now[w]
        /\ now' = now \/ now' = [now EXCEPT ![s] = clock]
    <3>1. CASE StartScan(s) \/ EndScan(s)
      BY <3>1 DEF StartScan, EndScan, Goto, heap, local, TypeOK, ProcTypes
    <3>2. CASE \E k \in Keys : Visit(s, k)
      BY <3>2 DEF Visit, Goto, Point, heap, TypeOK, ProcTypes
    <3>3. CASE ResetMark(s) \/ ScanDelete(s)
      BY <3>3
        DEF ResetMark, ScanDelete, Retire, Goto, Point, heap, local, TypeOK, ProcTypes, Release
    <3>4. CASE s = Janitor /\ (Evict \/ CleanupPrune)
      BY <3>4 DEF Evict, CleanupPrune, Retire, Goto, Point, local, TypeOK, ProcTypes, Release
    <3> QED
      BY <1>5, <3>1, <3>2, <3>3, <3>4 DEF ScanStep
  <2>1. CallsAreTimely'
    <3>1. \A p \in Procs : now'[p] <= clock
      <4>1. \A p \in Procs : now[p] <= clock
        BY DEF Timing, CallsAreTimely
      <4>2. now \in [Procs -> Nat]
        BY DEF TypeOK, ProcTypes
      <4> QED
        BY <1>0, <2>0, <4>1, <4>2
    <3> QED
      BY <2>0, <3>1 DEF Timing, CallsAreTimely
  <2>2. CASE UNCHANGED <<hits, window>>
    BY <2>0, <2>1, <2>2 DEF Timing, StampsAreTimely, AllBelow
  <2>3. CASE s = Janitor /\ Evict
    <3>1. ptr[s] \in Entries
      BY <1>P, <2>3 DEF Evict, Holding
    <3>2. <<>> \in Seq(Int)
      BY EmptySeq
    <3>3. hits' = [hits EXCEPT ![ptr[s]] = <<>>] /\ UNCHANGED window
      BY <2>3 DEF Evict
    <3>4. StampsAreTimely'
      BY <2>0, <3>1, <3>2, <3>3, NothingBelow, RewriteKeepsTiming
    <3> QED
      BY <2>1, <3>4 DEF Timing
  <2>4. CASE s = Janitor /\ CleanupPrune
    <3> DEFINE e == ptr[s]
               h == Prune(hits[e], now[s] - window[e])
    <3>1. e \in Entries
      BY <1>P, <2>4 DEF CleanupPrune, Holding, Release
    <3>2. now[s] - window[e] \in Int /\ hits[e] \in Seq(Int)
      BY <1>0, <3>1
    <3>3. h \in Seq(Int) /\ (window[e] = 0 => h = <<>>)
      BY <3>1, <3>2, PruneKeepsSuffix, PruneNothing DEF Timing, StampsAreTimely
    <3>4. AllBelow(h, clock) /\ AllBelow(h, lastSeen[e] + MaxDelay)
      <4>1. AllBelow(hits[e], clock) /\ AllBelow(hits[e], lastSeen[e] + MaxDelay)
        BY <3>1 DEF Timing, StampsAreTimely
      <4> QED
        BY <1>0, <3>1, <3>2, <4>1, AllBelowLaws
    <3>5. hits' = [hits EXCEPT ![e] = h] /\ UNCHANGED window
      BY <2>4, <3>1 DEF CleanupPrune, TypeOK, HeapTypes, Release
    <3>6. StampsAreTimely'
      <4> HIDE DEF h
      <4> QED
        BY <2>0, <3>1, <3>3, <3>4, <3>5, RewriteKeepsTiming
    <3> QED
      BY <2>1, <3>6 DEF Timing
  <2>5. ASSUME StartScan(s) \/ EndScan(s) \/ ScanDelete(s) \/ ResetMark(s) PROVE Timing'
    <3>1. UNCHANGED <<hits, window>>
      BY <2>5 DEF StartScan, EndScan, ScanDelete, ResetMark, heap, Release
    <3> QED
      BY <2>2, <3>1
  <2>6. ASSUME NEW k \in Keys, Visit(s, k) PROVE Timing'
    <3>1. UNCHANGED <<hits, window>>
      BY <2>6 DEF Visit, heap
    <3> QED
      BY <2>2, <3>1
  <2> QED
    BY <1>5, <2>3, <2>4, <2>5, <2>6 DEF ScanStep
<1> QED
  BY <1>1, <1>2, <1>3, <1>4, <1>5 DEF Next

-----------------------------------------------------------------------------
(***************************************************************************)
(* The limiter implements the window log: the log of a key is what the     *)
(* live entry of the key holds.                                            *)
(***************************************************************************)
LogOf == [k \in Keys |-> LiveHits(k)]

LEMMA LogOperators ==
    /\ \A h, c : Log!Prune(h, c) = Prune(h, c)
    /\ \A p : Log!Normalize(p) = Normalize(p)
    /\ \A t, n, l : Log!Admission(t, n, l) = Admission(t, n, l)
<1>1. \A h, c : Log!Prune(h, c) = Prune(h, c)
  BY DEF Log!Prune, Log!ExpiredPrefix, Log!IsExpiredPrefix, Prune, ExpiredPrefix,
         IsExpiredPrefix
<1>2. \A p : Log!Normalize(p) = Normalize(p)
  BY DEF Log!Normalize, Log!NormalizeLimit, Log!NormalizeWindow, Normalize, NormalizeLimit,
         NormalizeWindow
<1>3. \A t, n, l : Log!Admission(t, n, l) = Admission(t, n, l)
  BY DEF Log!Admission, Admission
<1> QED
  BY <1>1, <1>2, <1>3

LEMMA LogActions ==
    ASSUME NEW k \in Keys, NEW p, NEW n, NEW c
    PROVE  /\ Log!Grant(k, p, n) <=>
                /\ Len(Prune(LogOf[k], n - p.window)) < p.limit
                /\ LogOf' = [LogOf EXCEPT ![k] = Append(Prune(LogOf[k], n - p.window), n)]
                /\ granted' = [granted EXCEPT ![k] =
                                 Append(granted[k], Admission(clock, n, p.limit))]
                /\ clock' = clock
           /\ Log!Deny(k, p, n) <=>
                /\ Len(Prune(LogOf[k], n - p.window)) >= p.limit
                /\ LogOf' = [LogOf EXCEPT ![k] = Prune(LogOf[k], n - p.window)]
                /\ clock' = clock /\ granted' = granted
           /\ Log!Trim(k, c) <=>
                /\ LogOf' = [LogOf EXCEPT ![k] = Prune(LogOf[k], c)]
                /\ clock' = clock /\ granted' = granted
           /\ Log!Forget(k) <=>
                /\ \A j \in DOMAIN LogOf[k] : LogOf[k][j] <= clock - ShortestWindow
                /\ LogOf' = [LogOf EXCEPT ![k] = <<>>]
                /\ clock' = clock /\ granted' = granted
           /\ Log!Clear(k) <=>
                /\ LogOf' = [LogOf EXCEPT ![k] = <<>>]
                /\ granted' = [granted EXCEPT ![k] = <<>>]
                /\ clock' = clock
<1>1. LogOf[k] = LiveHits(k)
  BY DEF LogOf
<1> QED
  BY LogOperators, Zenon DEF Log!Grant, Log!Deny, Log!Trim, Log!Forget, Log!Clear, LogOf

-----------------------------------------------------------------------------
(***************************************************************************)
(* What a step does to the log.                                            *)
(***************************************************************************)
LEMMA LiveHitsOf ==
    ASSUME NEW k \in Keys
    PROVE  /\ LogOf[k] = LiveHits(k)
           /\ LogOf'[k] = IF entries'[k] = NoEntry \/ dead'[entries'[k]] THEN <<>>
                           ELSE hits'[entries'[k]]
  BY DEF LogOf, LiveHits

\* Equal at every key is equal; changed at one key is an EXCEPT.
LEMMA SameLog ==
    ASSUME \A k \in Keys : LogOf'[k] = LogOf[k]
    PROVE  LogOf' = LogOf
  BY DEF LogOf

LEMMA OneLog ==
    ASSUME NEW c \in Keys, NEW h, LogOf'[c] = h,
           \A k \in Keys : k # c => LogOf'[k] = LogOf[k]
    PROVE  LogOf' = [LogOf EXCEPT ![c] = h]
  BY DEF LogOf

\* The entry a goroutine holds is that of its key, or of none.
LEMMA HeldEntry ==
    ASSUME TypeOK, Structure, NEW p \in Procs, ptr[p] \in Entries
    PROVE  /\ key[p] \in Keys /\ ptr[p] # NoEntry
           /\ ~dead[ptr[p]] => entries[key[p]] = ptr[p] /\ LogOf[key[p]] = hits[ptr[p]]
           /\ ~dead[ptr[p]] => \A k \in Keys : k # key[p] => entries[k] # ptr[p]
<1>1. key[p] \in Keys /\ ptr[p] # NoEntry
  BY Constants DEF TypeOK, ProcTypes
<1>2. ASSUME ~dead[ptr[p]]
      PROVE  entries[key[p]] = ptr[p] /\ LogOf[key[p]] = hits[ptr[p]]
  <2>1. entries[key[p]] = ptr[p]
    BY <1>1, <1>2 DEF Structure, LiveIsMapped
  <2> QED
    BY <1>1, <1>2, <2>1, LiveHitsOf DEF LiveHits
<1> QED
  BY <1>1, <1>2 DEF Structure, OneKeyPerEntry

LEMMA RewriteLog ==
    ASSUME TypeOK, Structure, NEW p \in Procs, ptr[p] \in Entries, NEW h,
           hits' = [hits EXCEPT ![ptr[p]] = h], UNCHANGED <<entries, dead>>
    PROVE  /\ dead[ptr[p]] => LogOf' = LogOf
           /\ ~dead[ptr[p]] => LogOf' = [LogOf EXCEPT ![key[p]] = h]
<1>1. /\ hits'[ptr[p]] = h
      /\ \A f \in Entries : f # ptr[p] => hits'[f] = hits[f]
      /\ \A k \in Keys : entries[k] \in Entries \cup {NoEntry}
  BY DEF TypeOK, HeapTypes
<1>2. ASSUME NEW k \in Keys, dead[ptr[p]] \/ entries[k] # ptr[p]
      PROVE  LogOf'[k] = LogOf[k]
  BY <1>1, <1>2, LiveHitsOf DEF LiveHits
<1>3. ASSUME dead[ptr[p]] PROVE LogOf' = LogOf
  BY <1>2, <1>3, SameLog
<1>4. ASSUME ~dead[ptr[p]] PROVE LogOf' = [LogOf EXCEPT ![key[p]] = h]
  <2>1. key[p] \in Keys /\ entries[key[p]] = ptr[p] /\ ptr[p] # NoEntry
    BY <1>4, HeldEntry
  <2>2. LogOf'[key[p]] = h
    BY <1>1, <1>4, <2>1, LiveHitsOf
  <2>3. \A k \in Keys : k # key[p] => LogOf'[k] = LogOf[k]
    BY <1>2, <1>4, HeldEntry
  <2> QED
    BY <2>1, <2>2, <2>3, OneLog
<1> QED
  BY <1>3, <1>4

LEMMA RetireLog ==
    ASSUME TypeOK, Structure, NEW s \in Scanners, ptr[s] \in Entries,
           Retire(s), UNCHANGED entries,
           \A f \in Entries : f # ptr[s] => hits'[f] = hits[f]
    PROVE  /\ dead[ptr[s]] => LogOf' = LogOf
           /\ ~dead[ptr[s]] => LogOf' = [LogOf EXCEPT ![key[s]] = <<>>]
<1>0. s \in Procs
  BY Constants
<1>1. /\ dead'[ptr[s]]
      /\ \A f \in Entries : f # ptr[s] => dead'[f] = dead[f]
      /\ \A k \in Keys : entries[k] \in Entries \cup {NoEntry}
  BY DEF Retire, TypeOK, HeapTypes
<1>2. ASSUME NEW k \in Keys, entries[k] # ptr[s] PROVE LogOf'[k] = LogOf[k]
  BY <1>1, <1>2, LiveHitsOf DEF LiveHits
<1>3. ASSUME NEW k \in Keys, entries[k] = ptr[s] PROVE LogOf'[k] = <<>>
  BY <1>1, <1>3, LiveHitsOf
<1>4. ASSUME dead[ptr[s]] PROVE LogOf' = LogOf
  <2>1. ASSUME NEW k \in Keys, entries[k] = ptr[s] PROVE LogOf[k] = <<>>
    BY <1>4, <2>1, LiveHitsOf DEF LiveHits
  <2> QED
    BY <1>2, <1>3, <2>1, SameLog
<1>5. ASSUME ~dead[ptr[s]] PROVE LogOf' = [LogOf EXCEPT ![key[s]] = <<>>]
  <2>1. /\ key[s] \in Keys /\ entries[key[s]] = ptr[s]
        /\ \A k \in Keys : k # key[s] => entries[k] # ptr[s]
    BY <1>0, <1>5, HeldEntry
  <2> QED
    BY <1>2, <1>3, <2>1, OneLog
<1> QED
  BY <1>4, <1>5

LEMMA PublishLog ==
    ASSUME TypeOK, Structure, NEW w \in Workers, LoadMiss(w)
    PROVE  LogOf' = LogOf
<1>1. PICK e \in Entries :
        /\ Free(e)
        /\ entries' = [entries EXCEPT ![key[w]] = e]
        /\ hits' = [hits EXCEPT ![e] = <<>>]
        /\ dead' = [dead EXCEPT ![e] = FALSE]
  BY DEF LoadMiss
<1>2. key[w] \in Keys /\ entries[key[w]] = NoEntry
  BY Constants DEF LoadMiss, TypeOK, ProcTypes
<1>3. /\ \A f \in Entries : f # e => hits'[f] = hits[f] /\ dead'[f] = dead[f]
      /\ hits'[e] = <<>> /\ entries'[key[w]] = e
      /\ \A k \in Keys : k # key[w] => entries'[k] = entries[k]
      /\ \A k \in Keys : entries[k] \in Entries \cup {NoEntry}
  BY <1>1, <1>2 DEF TypeOK, HeapTypes
<1>4. LogOf[key[w]] = <<>> /\ LogOf'[key[w]] = <<>>
  BY <1>2, <1>3, LiveHitsOf DEF LiveHits
<1>5. ASSUME NEW k \in Keys, k # key[w] PROVE LogOf'[k] = LogOf[k]
  <2>1. entries'[k] = entries[k] /\ entries[k] # e
    BY <1>1, <1>3, <1>5 DEF Free
  <2>2. entries[k] # NoEntry => hits'[entries[k]] = hits[entries[k]] /\ dead'[entries[k]] = dead[entries[k]]
    BY <1>3, <2>1
  <2> QED
    BY <2>1, <2>2, LiveHitsOf DEF LiveHits
<1> QED
  BY <1>2, <1>4, <1>5, SameLog

LEMMA DeleteLog ==
    ASSUME TypeOK, Structure, NEW p \in Procs, dead[ptr[p]],
           CompareAndDelete(key[p], ptr[p]), UNCHANGED <<hits, dead>>
    PROVE  LogOf' = LogOf
<1>1. ASSUME NEW k \in Keys, entries'[k] # entries[k]
      PROVE  entries'[k] = NoEntry /\ dead[entries[k]]
  BY <1>1 DEF CompareAndDelete, TypeOK, HeapTypes
<1>2. ASSUME NEW k \in Keys PROVE LogOf'[k] = LogOf[k]
  <2>1. CASE entries'[k] = entries[k]
    BY <2>1, LiveHitsOf DEF LiveHits
  <2>2. CASE entries'[k] # entries[k]
    BY <1>1, <2>2, LiveHitsOf DEF LiveHits
  <2> QED
    BY <2>1, <2>2
<1> QED
  BY <1>2, SameLog

-----------------------------------------------------------------------------
(***************************************************************************)
(* Where the parameters of a decision come from: a policy some caller      *)
(* passed, a window of such a policy, an instant since the start.          *)
(***************************************************************************)
Origins ==
    /\ StartClock <= clock /\ \A p \in Procs : StartClock <= now[p]
    /\ \A w \in Workers : pc[w] # "idle" => \E raw \in Policies : policy[w] = Normalize(raw)
    /\ \A e \in Entries : window[e] <= MaxWindow

LEMMA InitOrigins == Init => Origins
  BY Constants, ClampAssumption DEF Init, Origins, Procs

LEMMA NextOrigins == TypeOK /\ Structure /\ Origins /\ [Next]_vars => Origins'
<1> SUFFICES ASSUME TypeOK, Structure, Origins, [Next]_vars PROVE Origins'
  OBVIOUS
<1> USE Constants
<1>1. /\ clock \in Nat /\ \A p \in Procs : now[p] \in Nat
      /\ pc \in [Procs -> Labels] /\ now \in [Procs -> Nat]
      /\ policy \in [Workers -> EnforcedPolicies] /\ window \in [Entries -> Nat]
  BY DEF TypeOK, HeapTypes, ProcTypes
<1>2. ASSUME clock' = clock \/ clock' = clock + 1,
             now' = now \/ \E p \in Procs : now' = [now EXCEPT ![p] = clock],
             \A w \in Workers : pc'[w] # "idle" =>
                 \/ pc[w] # "idle" /\ policy'[w] = policy[w]
                 \/ \E raw \in Policies : policy'[w] = Normalize(raw),
             \A e \in Entries : window'[e] = window[e] \/ window'[e] <= MaxWindow
      PROVE  Origins'
  <2>1. StartClock <= clock'
    BY <1>1, <1>2 DEF Origins
  <2>2. \A p \in Procs : StartClock <= now'[p]
    BY <1>1, <1>2 DEF Origins
  <2>3. \A w \in Workers : pc'[w] # "idle" => \E raw \in Policies : policy'[w] = Normalize(raw)
    BY <1>2 DEF Origins
  <2>4. \A e \in Entries : window'[e] <= MaxWindow
    BY <1>2 DEF Origins
  <2> QED
    BY <2>1, <2>2, <2>3, <2>4 DEF Origins
<1>3. CASE Tick \/ Close \/ JanitorExit \/ UNCHANGED vars
  <2>1. /\ clock' = clock \/ clock' = clock + 1
        /\ UNCHANGED <<now, policy, window>>
        /\ \A w \in Workers : pc'[w] = pc[w]
    BY <1>1, <1>3 DEF Tick, Close, JanitorExit, Goto, vars, heap, local
  <2> QED
    BY <1>2, <2>1
<1>4. ASSUME NEW w \in Workers, NEW k \in Keys, NEW raw \in Policies,
             BeginAllow(w, k, raw) \/ BeginPeek(w, k, raw)
      PROVE  Origins'
  <2>1. /\ UNCHANGED <<clock, window>> /\ now' = [now EXCEPT ![w] = clock]
        /\ policy' = [policy EXCEPT ![w] = Normalize(raw)]
        /\ \A v \in Workers : v # w => pc'[v] = pc[v]
    BY <1>1, <1>4 DEF BeginAllow, BeginPeek, Goto, heap
  <2>2. policy'[w] = Normalize(raw) /\ \A v \in Workers : v # w => policy'[v] = policy[v]
    BY <1>1, <2>1
  <2> QED
    BY <1>2, <2>1, <2>2
<1>5. ASSUME NEW w \in Workers, WorkerStep(w) PROVE Origins'
  <2>1. /\ UNCHANGED <<clock, now, policy>> /\ pc[w] # "idle"
        /\ \A v \in Workers : v # w => pc'[v] = pc[v]
    <3>1. CASE LoadHit(w) \/ LoadMiss(w) \/ StoreLastSeen(w) \/ MeetDead(w)
      BY <1>1, <3>1 DEF LoadHit, LoadMiss, StoreLastSeen, MeetDead, Goto, local
    <3>2. CASE Admit(w) \/ Refuse(w) \/ PeekPrune(w)
      BY <1>1, <3>2 DEF Admit, Refuse, PeekPrune, Goto, local, Release, CountRequest
    <3>3. CASE Retry(w) \/ AdmitDetached(w)
      BY <1>1, <3>3 DEF Retry, AdmitDetached, Goto, local, Release, LoadAgain
    <3> QED
      BY <1>5, <3>1, <3>2, <3>3 DEF WorkerStep
  <2>2. policy[w].window \in Nat /\ policy[w].window <= MaxWindow
    BY <1>1, ClampAssumption DEF EnforcedPolicies
  <2>3. \A e \in Entries : window'[e] = window[e] \/ window'[e] <= MaxWindow
    <3>1. CASE Admit(w) \/ Refuse(w)
      BY <1>1, <2>2, <3>1 DEF Admit, Refuse, Release, CountRequest
    <3>2. CASE LoadMiss(w)
      <4>1. PICK e \in Entries : window' = [window EXCEPT ![e] = 0]
        BY <3>2 DEF LoadMiss
      <4> QED
        BY <1>1, <4>1, ClampAssumption
    <3>3. CASE LoadHit(w) \/ StoreLastSeen(w) \/ MeetDead(w) \/ PeekPrune(w)
      BY <3>3 DEF LoadHit, StoreLastSeen, MeetDead, PeekPrune, heap, Release
    <3>4. CASE Retry(w) \/ AdmitDetached(w)
      BY <3>4 DEF Retry, AdmitDetached, heap, Release, LoadAgain
    <3> QED
      BY <1>5, <3>1, <3>2, <3>3, <3>4 DEF WorkerStep
  <2> QED
    BY <1>2, <2>1, <2>3
<1>6. ASSUME NEW s \in Scanners, StartScan(s) \/ ScanStep(s) PROVE Origins'
  <2>1. /\ UNCHANGED <<clock, policy, window>>
        /\ now' = now \/ now' = [now EXCEPT ![s] = clock]
        /\ \A w \in Workers : pc'[w] = pc[w]
    <3>1. CASE StartScan(s) \/ EndScan(s)
      BY <1>1, <3>1 DEF StartScan, EndScan, Goto, heap, local
    <3>2. CASE \E k \in Keys : Visit(s, k)
      BY <1>1, <3>2 DEF Visit, Goto, heap
    <3>3. CASE ResetMark(s) \/ ScanDelete(s)
      BY <1>1, <3>3 DEF ResetMark, ScanDelete, Retire, Goto, heap, local, Release
    <3>4. CASE s = Janitor /\ (Evict \/ CleanupPrune)
      BY <1>1, <3>4 DEF Evict, CleanupPrune, Retire, Goto, local, Release
    <3> QED
      BY <1>6, <3>1, <3>2, <3>3, <3>4 DEF ScanStep
  <2> QED
    BY <1>2, <2>1
<1> QED
  BY <1>3, <1>4, <1>5, <1>6 DEF Next

-----------------------------------------------------------------------------
(***************************************************************************)
(* Every step of the limiter is a step of the log or leaves it alone.      *)
(***************************************************************************)
Quiet == clock' = clock /\ LogOf' = LogOf /\ granted' = granted

LogStep ==
    \/ Quiet
    \/ clock < MaxClock /\ clock' = clock + 1 /\ LogOf' = LogOf /\ granted' = granted
    \/ \E k \in Keys :
        \/ \E raw \in Policies, n \in clock - MaxDelay .. clock :
            Log!Grant(k, Normalize(raw), n) \/ Log!Deny(k, Normalize(raw), n)
        \/ \E c \in StartClock - MaxWindow .. clock - ShortestWindow : Log!Trim(k, c)
        \/ Log!Forget(k)
        \/ Log!Clear(k)

LEMMA LogStepIsNext == LogStep => [Log!Next]_(Log!vars)
<1> SUFFICES ASSUME LogStep PROVE [Log!Next]_(Log!vars)
  OBVIOUS
<1>1. CASE Quiet
  BY <1>1 DEF Quiet, LogOf, Log!vars
<1>2. CASE clock < MaxClock /\ clock' = clock + 1 /\ LogOf' = LogOf /\ granted' = granted
  BY <1>2 DEF LogOf, Log!Next, Log!Tick
<1>3. ASSUME NEW k \in Keys, NEW raw \in Policies, NEW n \in clock - MaxDelay .. clock,
             Log!Grant(k, Normalize(raw), n) \/ Log!Deny(k, Normalize(raw), n)
      PROVE  Log!Next
  <2>1. Log!Normalize(raw) = Normalize(raw) /\ n \in Log!Instants
    BY LogOperators DEF Log!Instants
  <2> QED
    BY <1>3, <2>1 DEF Log!Next
<1>4. ASSUME NEW k \in Keys, NEW c \in StartClock - MaxWindow .. clock - ShortestWindow,
             Log!Trim(k, c)
      PROVE  Log!Next
  <2>1. c \in Log!Cutoffs
    BY DEF Log!Cutoffs
  <2> QED
    BY <1>4, <2>1 DEF Log!Next
<1>5. ASSUME NEW k \in Keys, Log!Forget(k) \/ Log!Clear(k) PROVE Log!Next
  BY <1>5 DEF Log!Next
<1> QED
  BY <1>1, <1>2, <1>3, <1>4, <1>5 DEF LogStep

LEMMA WorkerSimulates ==
    ASSUME TypeOK, Structure, Timing, Origins, NEW w \in Workers, WorkerStep(w)
    PROVE  LogStep
<1> USE Constants
<1>1. CASE LoadHit(w) \/ StoreLastSeen(w) \/ MeetDead(w)
  <2>1. UNCHANGED <<clock, entries, hits, dead, granted>>
    BY <1>1 DEF LoadHit, StoreLastSeen, MeetDead, heap, ghost
  <2> QED
    BY <2>1 DEF LogStep, Quiet, LogOf, LiveHits
<1>2. CASE LoadMiss(w)
  BY <1>2, PublishLog DEF LoadMiss, ghost, LogStep, Quiet
<1>3. CASE Retry(w) \/ AdmitDetached(w)
  <2>1. dead[ptr[w]]
    BY <1>3 DEF Retry, AdmitDetached, Structure, Shape, Release, LoadAgain
  <2>2. /\ CompareAndDelete(key[w], ptr[w])
        /\ UNCHANGED <<clock, hits, dead, granted>>
    BY <1>3 DEF Retry, AdmitDetached, heap, ghost, Release, LoadAgain
  <2> QED
    BY <2>1, <2>2, DeleteLog DEF LogStep, Quiet
<1>4. CASE Admit(w) \/ Refuse(w) \/ PeekPrune(w)
  <2> DEFINE e == ptr[w]
             k == key[w]
             d == policy[w].window
             n == now[w]
  <2>0. pc[w] \in Holding /\ pc[w] # "idle"
    BY <1>4 DEF Admit, Refuse, PeekPrune, Holding, Release, CountRequest
  <2>1. e \in Entries /\ k \in Keys
    BY <2>0 DEF Structure, Shape, TypeOK, ProcTypes
  <2>2. PICK raw \in Policies : policy[w] = Normalize(raw)
    BY <2>0 DEF Origins
  <2>3. /\ clock \in Nat /\ n \in Nat /\ d \in Nat /\ d >= ShortestWindow /\ d <= MaxWindow
        /\ policy[w].limit \in Nat
    BY <2>2, PolicyInUse DEF TypeOK, ProcTypes
  <2>4. n <= clock /\ clock <= n + MaxDelay /\ StartClock <= n
    BY <2>0 DEF Timing, CallsAreTimely, Origins
  <2>5. /\ MaxDelay \in Nat /\ ShortestWindow \in Nat /\ MaxWindow \in Nat
        /\ hits[e] \in Seq(Int) /\ Kept(w) \in Seq(Int)
    BY <2>1, KeptIsLog, DelayAssumption, ClampAssumption
  <2>6. n \in clock - MaxDelay .. clock /\ n - d \in StartClock - MaxWindow .. clock - ShortestWindow
    <3>1. StartClock \in Nat /\ MaxDelay \in Nat /\ ShortestWindow \in Nat /\ MaxWindow \in Nat
      BY <2>5
    <3> HIDE DEF n, d
    <3> QED
      BY <2>3, <2>4, <3>1
  <2>7. UNCHANGED <<clock, entries, dead>>
    BY <1>4 DEF Admit, Refuse, PeekPrune, Release, CountRequest
  <2>8. Kept(w) = Prune(hits[e], n - d)
    BY DEF Kept
  <2>9. ~dead[e] => LogOf[k] = hits[e]
    BY <2>1, HeldEntry
  <2>10. CASE Admit(w)
    <3>1. ~dead[e] /\ hits' = [hits EXCEPT ![e] = Append(Kept(w), n)]
      BY <2>10 DEF Admit, Release, CountRequest
    <3>2. LogOf' = [LogOf EXCEPT ![k] = Append(Prune(LogOf[k], n - d), n)]
      BY <2>1, <2>7, <2>8, <2>9, <3>1, RewriteLog
    <3>3. Len(Prune(LogOf[k], n - d)) < policy[w].limit
      <4>1. Verdict(w).allowed
        BY <2>10 DEF Admit, Release, CountRequest
      <4>2. ~(Len(Kept(w)) >= policy[w].limit)
        BY <4>1 DEF Verdict, Kept, Decide, Decision
      <4>3. Len(Kept(w)) \in Nat
        BY <2>5, LenProperties
      <4> QED
        BY <2>3, <2>8, <2>9, <3>1, <4>2, <4>3
    <3>4. granted' = [granted EXCEPT ![k] =
                        Append(granted[k], Admission(clock, n, policy[w].limit))]
      BY <2>1, <2>10 DEF Admit, TypeOK, Release, CountRequest
    <3>5. Log!Grant(k, policy[w], n)
      BY <2>1, <2>7, <3>2, <3>3, <3>4, LogActions
    <3> QED
      BY <2>1, <2>2, <2>6, <3>5 DEF LogStep
  <2>11. CASE Refuse(w)
    <3>1. ~dead[e] /\ hits' = [hits EXCEPT ![e] = Kept(w)] /\ granted' = granted
      BY <2>11 DEF Refuse, ghost, Release
    <3>2. LogOf' = [LogOf EXCEPT ![k] = Prune(LogOf[k], n - d)]
      BY <2>1, <2>7, <2>8, <2>9, <3>1, RewriteLog
    <3>3. Len(Prune(LogOf[k], n - d)) >= policy[w].limit
      <4>1. ~Verdict(w).allowed
        BY <2>11 DEF Refuse, Release
      <4>2. Len(Kept(w)) >= policy[w].limit
        BY <4>1 DEF Verdict, Kept, Decide, Decision
      <4> QED
        BY <2>8, <2>9, <3>1, <4>2
    <3>4. Log!Deny(k, policy[w], n)
      BY <2>1, <2>7, <3>1, <3>2, <3>3, LogActions
    <3> QED
      BY <2>1, <2>2, <2>6, <3>4 DEF LogStep
  <2>12. CASE PeekPrune(w)
    <3>1. hits' = [hits EXCEPT ![e] = Kept(w)] /\ granted' = granted
      BY <2>12 DEF PeekPrune, ghost, Release
    <3>2. CASE dead[e]
      BY <2>1, <2>7, <3>1, <3>2, RewriteLog DEF LogStep, Quiet
    <3>3. CASE ~dead[e]
      <4>1. LogOf' = [LogOf EXCEPT ![k] = Prune(LogOf[k], n - d)]
        BY <2>1, <2>7, <2>8, <2>9, <3>1, <3>3, RewriteLog
      <4>2. Log!Trim(k, n - d)
        BY <2>1, <2>7, <3>1, <4>1, LogActions
      <4> QED
        BY <2>1, <2>6, <4>2 DEF LogStep
    <3> QED
      BY <3>2, <3>3
  <2> QED
    BY <1>4, <2>10, <2>11, <2>12
<1> QED
  BY <1>1, <1>2, <1>3, <1>4 DEF WorkerStep

(***************************************************************************)
(* Why cleanup waits for twice the window: a stamp may be later than       *)
(* lastSeen, and the window of the next request may be a different one.    *)
(***************************************************************************)
LEMMA IdleIsExpired ==
    ASSUME NEW t \in Nat, NEW n \in Nat, NEW seen \in Nat, NEW d \in Nat, NEW x \in Int,
           n <= t, n - seen > MaxOf(2 * d, MinTTL), x <= seen + MaxDelay,
           d >= ShortestWindow
    PROVE  x <= t - ShortestWindow
<1>1. /\ MaxDelay \in Nat /\ ShortestWindow \in Nat /\ MaxDelay <= ShortestWindow
      /\ MinTTL \in Nat
  BY DelayAssumption, Constants
<1>2. n - seen > 2 * d
  BY <1>1 DEF MaxOf
<1> QED
  BY <1>1, <1>2

LEMMA ScannerSimulates ==
    ASSUME TypeOK, Structure, Timing, Origins, NEW s \in Scanners, StartScan(s) \/ ScanStep(s)
    PROVE  LogStep
<1> USE Constants
<1>0. /\ clock \in Nat /\ now[s] \in Nat /\ now[s] <= clock /\ StartClock <= now[s]
      /\ key[s] \in Keys
      /\ MaxDelay \in Nat /\ ShortestWindow \in Nat /\ MaxWindow \in Nat /\ MinTTL \in Nat
      /\ MaxDelay <= ShortestWindow
  BY DelayAssumption, ClampAssumption
  DEF TypeOK, ProcTypes, Timing, CallsAreTimely, Origins
<1>1. ASSUME UNCHANGED <<clock, entries, hits, dead, granted>> PROVE LogStep
  BY <1>1 DEF LogStep, Quiet, LogOf, LiveHits
<1>2. CASE StartScan(s) \/ EndScan(s)
  BY <1>1, <1>2 DEF StartScan, EndScan, heap, ghost
<1>3. ASSUME NEW k \in Keys, Visit(s, k) PROVE LogStep
  BY <1>1, <1>3 DEF Visit, heap, ghost
<1>4. CASE ScanDelete(s)
  <2>1. dead[ptr[s]]
    BY <1>4 DEF ScanDelete, Structure, Shape, Release
  <2>2. /\ CompareAndDelete(key[s], ptr[s])
        /\ UNCHANGED <<clock, hits, dead, granted>>
    BY <1>4 DEF ScanDelete, heap, ghost, Release
  <2> QED
    BY <2>1, <2>2, DeleteLog DEF LogStep, Quiet
<1>5. ASSUME pc[s] = "lock"
      PROVE  /\ ptr[s] \in Entries /\ window[ptr[s]] \in Nat /\ window[ptr[s]] <= MaxWindow
             /\ lastSeen[ptr[s]] \in Nat /\ hits[ptr[s]] \in Seq(Int)
             /\ ~dead[ptr[s]] => LogOf[key[s]] = hits[ptr[s]]
  <2>1. ptr[s] \in Entries
    BY <1>5 DEF Structure, Shape, Holding, TypeOK, ProcTypes
  <2> QED
    BY <2>1, HeldEntry DEF TypeOK, HeapTypes, Origins
<1>6. CASE ResetMark(s)
  <2>1. /\ pc[s] = "lock" /\ Retire(s) /\ UNCHANGED <<clock, entries, hits>>
        /\ granted' = [granted EXCEPT ![key[s]] = IF dead[ptr[s]] THEN @ ELSE <<>>]
    BY <1>6 DEF ResetMark
  <2>2. CASE dead[ptr[s]]
    <3>1. granted' = granted
      BY <2>1, <2>2 DEF TypeOK
    <3> QED
      BY <1>5, <2>1, <2>2, <3>1, RetireLog DEF LogStep, Quiet
  <2>3. CASE ~dead[ptr[s]]
    <3>1. granted' = [granted EXCEPT ![key[s]] = <<>>]
      BY <2>1, <2>3
    <3>2. LogOf' = [LogOf EXCEPT ![key[s]] = <<>>]
      BY <1>5, <2>1, <2>3, RetireLog
    <3>3. Log!Clear(key[s])
      BY <1>0, <2>1, <3>1, <3>2, LogActions
    <3> QED
      BY <1>0, <3>3 DEF LogStep
  <2> QED
    BY <2>2, <2>3
<1>7. CASE s = Janitor /\ Evict
  <2> DEFINE e == ptr[s]
  <2>1. /\ pc[s] = "lock" /\ Retire(s) /\ UNCHANGED <<clock, entries, granted>>
        /\ hits' = [hits EXCEPT ![e] = <<>>] /\ IdleEntry(s)
    BY <1>7 DEF Evict
  <2>2. \A f \in Entries : f # e => hits'[f] = hits[f]
    BY <2>1 DEF TypeOK, HeapTypes
  <2>3. CASE dead[e]
    BY <1>5, <2>1, <2>2, <2>3, RetireLog DEF LogStep, Quiet
  <2>4. CASE ~dead[e]
    <3>1. LogOf' = [LogOf EXCEPT ![key[s]] = <<>>]
      BY <1>5, <2>1, <2>2, <2>4, RetireLog
    <3>2. ASSUME NEW j \in DOMAIN hits[e] PROVE hits[e][j] <= clock - ShortestWindow
      <4>1. e \in Entries /\ j \in 1 .. Len(hits[e]) /\ hits[e][j] \in Int
        BY <1>5, <2>1, LenProperties
      <4>2. hits[e][j] <= lastSeen[e] + MaxDelay
        BY <4>1 DEF Timing, StampsAreTimely, AllBelow
      <4>3. window[e] >= ShortestWindow
        <5>1. hits[e] # <<>>
          BY <3>2
        <5> QED
          BY <4>1, <5>1 DEF Timing, StampsAreTimely
      <4>4. now[s] - lastSeen[e] > MaxOf(2 * window[e], MinTTL)
        BY <2>1 DEF IdleEntry, TTL
      <4>5. lastSeen[e] \in Nat /\ window[e] \in Nat
        BY <1>5, <2>1
      <4> QED
        BY <1>0, <4>1, <4>2, <4>3, <4>4, <4>5, IdleIsExpired
    <3>3. LogOf[key[s]] = hits[e]
      BY <1>5, <2>1, <2>4
    <3>4. Log!Forget(key[s])
      <4>1. \A j \in DOMAIN LogOf[key[s]] : LogOf[key[s]][j] <= clock - ShortestWindow
        BY <3>2, <3>3
      <4> QED
        BY <1>0, <2>1, <3>1, <4>1, LogActions
    <3> QED
      BY <1>0, <3>4 DEF LogStep
  <2> QED
    BY <2>3, <2>4
<1>8. CASE s = Janitor /\ CleanupPrune
  <2> DEFINE e == ptr[s]
             c == now[s] - window[e]
  <2>1. pc[s] = "lock" /\ UNCHANGED <<clock, entries, dead, granted>>
    BY <1>8 DEF CleanupPrune, ghost, Release
  <2>2. hits' = [hits EXCEPT ![e] = Prune(hits[e], c)]
    BY <1>5, <1>8, <2>1 DEF CleanupPrune, TypeOK, HeapTypes, Release
  <2>3. c \in Int
    BY <1>0, <1>5, <2>1
  <2>4. CASE dead[e]
    BY <1>5, <2>1, <2>2, <2>4, RewriteLog DEF LogStep, Quiet
  <2>5. CASE ~dead[e] /\ window[e] = 0
    <3>1. hits[e] = <<>> /\ Prune(hits[e], c) = <<>>
      BY <1>5, <2>1, <2>3, <2>5, PruneNothing DEF Timing, StampsAreTimely
    <3>2. hits' = hits
      BY <2>2, <3>1 DEF TypeOK, HeapTypes
    <3> QED
      BY <1>1, <2>1, <3>2
  <2>6. CASE ~dead[e] /\ window[e] # 0
    <3>1. window[e] >= ShortestWindow
      BY <1>5, <2>1, <2>6 DEF Timing, StampsAreTimely
    <3>2. c \in StartClock - MaxWindow .. clock - ShortestWindow
      BY <1>0, <1>5, <2>1, <3>1
    <3>3. LogOf' = [LogOf EXCEPT ![key[s]] = Prune(LogOf[key[s]], c)]
      BY <1>5, <2>1, <2>2, <2>6, RewriteLog
    <3>4. Log!Trim(key[s], c)
      BY <1>0, <2>1, <3>3, LogActions
    <3> QED
      BY <1>0, <3>2, <3>4 DEF LogStep
  <2> QED
    BY <2>4, <2>5, <2>6
<1> QED
  BY <1>2, <1>3, <1>4, <1>6, <1>7, <1>8 DEF ScanStep

LEMMA NextSimulates == TypeOK /\ Structure /\ Timing /\ Origins /\ [Next]_vars => LogStep
<1> SUFFICES ASSUME TypeOK, Structure, Timing, Origins, [Next]_vars PROVE LogStep
  OBVIOUS
<1>1. ASSUME UNCHANGED <<clock, entries, hits, dead, granted>> PROVE LogStep
  BY <1>1 DEF LogStep, Quiet, LogOf, LiveHits
<1>2. CASE Tick
  <2>1. LogOf' = LogOf
    BY <1>2 DEF Tick, heap, LogOf, LiveHits
  <2> QED
    BY <1>2, <2>1 DEF Tick, LogStep, ghost
<1>3. CASE Close \/ JanitorExit \/ UNCHANGED vars
  BY <1>1, <1>3 DEF Close, JanitorExit, vars, heap, ghost
<1>4. ASSUME NEW w \in Workers, NEW k \in Keys, NEW raw \in Policies,
             BeginAllow(w, k, raw) \/ BeginPeek(w, k, raw)
      PROVE  LogStep
  BY <1>1, <1>4 DEF BeginAllow, BeginPeek, heap, ghost
<1> QED
  BY <1>2, <1>3, <1>4, WorkerSimulates, ScannerSimulates DEF Next

LEMMA InitSimulates == Init => Log!Init
  BY DEF Init, Log!Init, LiveHits

(***************************************************************************)
(* memory.go implements the window log: for any number of goroutines, keys *)
(* and entries, with evictions, resets and retries between any two steps,  *)
(* what a caller sees is decided on one log per key, in one step.          *)
(***************************************************************************)
THEOREM MemoryImplementsLog == Spec => Refinement
<1> DEFINE Inv == TypeOK /\ Structure /\ Timing /\ Origins
<1>1. Init => Inv
  BY InitTypes, InitTiming, InitOrigins
<1>2. Inv /\ [Next]_vars => Inv'
  BY NextTypes, NextStructure, NextTiming, NextOrigins DEF Structure
<1>3. Inv /\ [Next]_vars => [Log!Next]_(Log!vars)
  BY NextSimulates, LogStepIsNext
<1>4. Init => Log!Init
  BY InitSimulates
<1> HIDE DEF Inv
<1> QED
  BY <1>1, <1>2, <1>3, <1>4, PTL DEF Spec, Refinement, Log!Spec

-----------------------------------------------------------------------------
(***************************************************************************)
(* The history: what the window log keeps true of its log and of the       *)
(* admissions, it keeps true of the live entries.                          *)
(***************************************************************************)
Counted == \A k \in Keys : Matches(granted[k], LogOf[k], clock)

LEMMA InitCounted == Init => Counted
<1> SUFFICES ASSUME Init, NEW k \in Keys PROVE Matches(granted[k], LogOf[k], clock)
  BY DEF Counted
<1>1. granted[k] = <<>> /\ LogOf[k] = <<>>
  BY DEF Init, LogOf, LiveHits
<1>2. <<>> \in Seq(Int) /\ <<>> \in Seq(Admissions) /\ Len(<<>>) = 0 /\ Spaced(<<>>)
  BY EmptySeq DEF Spaced, Apart
<1>3. Matches(<<>>, <<>>, clock)
  BY <1>2 DEF Matches
<1> QED
  BY <1>1, <1>3

LEMMA CountedAt ==
    ASSUME NEW c \in Keys, NEW g, NEW h, Counted, TypeOK,
           Matches(g, h, clock), clock' = clock,
           LogOf' = [LogOf EXCEPT ![c] = h], granted' = [granted EXCEPT ![c] = g]
    PROVE  Counted'
<1> SUFFICES ASSUME NEW k \in Keys PROVE Matches(granted[k], LogOf[k], clock)'
  BY DEF Counted
<1> SUFFICES Matches(granted'[k], LogOf'[k], clock)
  BY DEF Matches, Spaced, Apart
<1>1. CASE k = c
  <2>1. granted'[k] = g /\ LogOf'[k] = h
    BY <1>1 DEF TypeOK, LogOf
  <2> QED
    BY <2>1
<1>2. CASE k # c
  <2>1. granted'[k] = granted[k] /\ LogOf'[k] = LogOf[k]
    BY <1>2 DEF TypeOK, LogOf
  <2> QED
    BY <2>1 DEF Counted
<1> QED
  BY <1>1, <1>2

LEMMA LogStepCounts == TypeOK /\ Counted /\ LogStep => Counted'
<1> SUFFICES ASSUME TypeOK, Counted, LogStep PROVE Counted'
  OBVIOUS
<1>0. clock \in Nat /\ granted \in [Keys -> Seq(Admissions)]
  BY DEF TypeOK
<1>1. CASE Quiet
  BY <1>1 DEF Quiet, Counted, Matches, Spaced, Apart
<1>2. CASE clock' = clock + 1 /\ LogOf' = LogOf /\ granted' = granted
  <2> SUFFICES ASSUME NEW k \in Keys PROVE Matches(granted[k], LogOf[k], clock + 1)
    BY <1>2 DEF Counted, Matches, Spaced, Apart
  <2> QED
    BY <1>0, MatchesLater DEF Counted
<1>3. ASSUME NEW k \in Keys, NEW raw \in Policies, NEW n \in clock - MaxDelay .. clock,
             Log!Grant(k, Normalize(raw), n) \/ Log!Deny(k, Normalize(raw), n)
      PROVE  Counted'
  <2> DEFINE p    == Normalize(raw)
             kept == Prune(LogOf[k], n - p.window)
             a    == Admission(clock, n, p.limit)
  <2>1. p.limit \in Nat /\ p.limit >= 1 /\ p.window \in Nat /\ p.window >= ShortestWindow
    BY PolicyInUse
  <2>2. n \in Int /\ n <= clock /\ clock <= n + MaxDelay
    BY <1>0, DelayAssumption
  <2>3. Matches(granted[k], kept, clock)
    <3>1. n - p.window \in Int /\ n - p.window <= clock - ShortestWindow
      BY <1>0, <2>1, <2>2, DelayAssumption
    <3>2. Matches(granted[k], LogOf[k], clock)
      BY DEF Counted
    <3> HIDE DEF p
    <3> QED
      BY <1>0, <3>1, <3>2, MatchesPruned
  <2>4. CASE Log!Grant(k, p, n)
    <3>1. /\ Len(kept) < p.limit /\ LogOf' = [LogOf EXCEPT ![k] = Append(kept, n)]
          /\ granted' = [granted EXCEPT ![k] = Append(granted[k], a)] /\ clock' = clock
      BY <2>4, LogActions
    <3> HIDE DEF kept, p
    <3>2. Matches(Append(granted[k], a), Append(kept, n), clock)
      BY <1>0, <2>1, <2>2, <2>3, <3>1, MatchesGranted
    <3> HIDE DEF a
    <3> QED
      BY <3>1, <3>2, CountedAt
  <2>5. CASE Log!Deny(k, p, n)
    <3>1. LogOf' = [LogOf EXCEPT ![k] = kept] /\ granted' = granted /\ clock' = clock
      BY <2>5, LogActions
    <3> HIDE DEF kept, p
    <3>2. granted' = [granted EXCEPT ![k] = granted[k]]
      BY <1>0, <3>1
    <3> QED
      BY <2>3, <3>1, <3>2, CountedAt
  <2> QED
    BY <1>3, <2>4, <2>5
<1>4. ASSUME NEW k \in Keys, NEW c \in StartClock - MaxWindow .. clock - ShortestWindow,
             Log!Trim(k, c)
      PROVE  Counted'
  <2>1. c \in Int /\ c <= clock - ShortestWindow
    BY <1>0, ClampAssumption, ClockAssumption, DelayAssumption
  <2>2. Matches(granted[k], Prune(LogOf[k], c), clock)
    BY <1>0, <2>1, MatchesPruned DEF Counted
  <2>3. /\ LogOf' = [LogOf EXCEPT ![k] = Prune(LogOf[k], c)] /\ clock' = clock
        /\ granted' = [granted EXCEPT ![k] = granted[k]]
    BY <1>0, <1>4, LogActions
  <2> QED
    BY <2>2, <2>3, CountedAt
<1>5. ASSUME NEW k \in Keys, Log!Forget(k) PROVE Counted'
  <2>1. /\ \A j \in DOMAIN LogOf[k] : LogOf[k][j] <= clock - ShortestWindow
        /\ LogOf' = [LogOf EXCEPT ![k] = <<>>] /\ clock' = clock
        /\ granted' = [granted EXCEPT ![k] = granted[k]]
    BY <1>0, <1>5, LogActions
  <2>2. Matches(granted[k], <<>>, clock)
    BY <1>0, <2>1, MatchesForgotten DEF Counted
  <2> QED
    BY <2>1, <2>2, CountedAt
<1>6. ASSUME NEW k \in Keys, Log!Clear(k) PROVE Counted'
  <2>1. /\ LogOf' = [LogOf EXCEPT ![k] = <<>>] /\ clock' = clock
        /\ granted' = [granted EXCEPT ![k] = <<>>]
    BY <1>6, LogActions
  <2>2. Matches(<<>>, <<>>, clock)
    BY EmptySeq DEF Matches, Spaced, Apart
  <2> QED
    BY <2>1, <2>2, CountedAt
<1> QED
  BY <1>1, <1>2, <1>3, <1>4, <1>5, <1>6 DEF LogStep

LEMMA CountedIsBound == TypeOK /\ Counted => LogMatchesGranted /\ WindowBound
<1> SUFFICES ASSUME TypeOK, Counted, NEW k \in Keys
             PROVE  /\ Timely(granted[k], clock) /\ SuffixOf(granted[k], LiveHits(k), clock)
                    /\ AtMostLimitWithin(granted[k], ShortestWindow - MaxDelay)
  BY DEF LogMatchesGranted, WindowBound
<1>1. LogOf[k] = LiveHits(k) /\ Matches(granted[k], LogOf[k], clock)
  BY DEF LogOf, Counted
<1>2. granted[k] \in Seq(Admissions) /\ LogOf[k] \in Seq(Int) /\ clock \in Int
  BY <1>1 DEF TypeOK, Matches
<1>3. /\ Timely(granted[k], clock) /\ SuffixOf(granted[k], LiveHits(k), clock)
      /\ Spaced(granted[k])
  BY <1>1, <1>2, MatchesIsSuffix
<1> QED
  BY <1>2, <1>3, SpacedCounts

(***************************************************************************)
(* The limiter limits: for every policy in use and any delay up to the     *)
(* shortest window, no client gets more counted admissions through in a    *)
(* window than its limit, whatever the janitor evicts and whoever retries. *)
(***************************************************************************)
THEOREM MemoryKeepsWindows == Spec => [](LogMatchesGranted /\ WindowBound)
<1> DEFINE Inv == TypeOK /\ Structure /\ Timing /\ Origins /\ Counted
<1>1. Init => Inv
  BY InitTypes, InitTiming, InitOrigins, InitCounted
<1>2. Inv /\ [Next]_vars => Inv'
  BY NextTypes, NextStructure, NextTiming, NextOrigins, NextSimulates, LogStepCounts
  DEF Structure
<1>3. Inv => LogMatchesGranted /\ WindowBound
  BY CountedIsBound
<1> HIDE DEF Inv
<1> QED
  BY <1>1, <1>2, <1>3, PTL DEF Spec

-----------------------------------------------------------------------------
(***************************************************************************)
(* Retries.  The map knows the key of every entry a goroutine holds, so    *)
(* that whoever lets go of a dead entry has removed it from the map; and a *)
(* call that is on its n-th retry has met n retirements, one of them still *)
(* to come as long as it holds, or is about to load, a live entry.         *)
(***************************************************************************)
KnownKeys ==
    \A p \in Procs, k \in Keys : ptr[p] # NoEntry /\ entries[k] = ptr[p] => key[p] = k

Zombie(k) == entries[k] # NoEntry /\ dead[entries[k]]

Caused(w) ==
    /\ pc[w] = "load" =>
        /\ kills[w] >= attempt[w] - 1
        /\ Zombie(key[w]) => kills[w] >= attempt[w]
    /\ pc[w] \in {"seen", "lock", "drop"} =>
        /\ kills[w] >= attempt[w] - 1
        /\ dead[ptr[w]] => kills[w] >= attempt[w]
        /\ dead[ptr[w]] /\ Zombie(key[w]) /\ entries[key[w]] # ptr[w] =>
             kills[w] >= MinOf(attempt[w] + 1, MaxAttempts)

Removal == KnownKeys /\ ZombieIsBeingRemoved /\ \A w \in Workers : Caused(w)

LEMMA InitRemoval == Init => Removal
<1> SUFFICES ASSUME Init PROVE Removal
  OBVIOUS
<1>1. KnownKeys /\ ZombieIsBeingRemoved
  BY DEF Init, KnownKeys, ZombieIsBeingRemoved
<1>2. \A w \in Workers : pc[w] = "idle"
  BY Constants DEF Init
<1> QED
  BY <1>1, <1>2 DEF Removal, Caused

\* The numbers a call is judged by.
LEMMA CallCounts ==
    ASSUME TypeOK, NEW w \in Workers
    PROVE  /\ kills[w] \in 0 .. MaxAttempts /\ attempt[w] \in 0 .. MaxAttempts
           /\ kills[w] \in Int /\ attempt[w] \in Int /\ MaxAttempts \in Int
           /\ w \in Procs /\ key[w] \in Keys
  BY Constants DEF TypeOK, ProcTypes

\* Nothing moves, or one goroutine moves on with what it has.
LEMMA StillKeepsRemoval ==
    ASSUME Removal, UNCHANGED <<entries, dead, ptr, key, pc, attempt, kills>>
    PROVE  Removal'
  BY DEF Removal, KnownKeys, ZombieIsBeingRemoved, Caused, Zombie

LEMMA MoveKeepsRemoval ==
    ASSUME TypeOK, Removal, NEW p \in Procs, NEW label,
           pc' = [pc EXCEPT ![p] = label], pc[p] # "drop",
           p \in Workers => /\ pc[p] \in {"seen", "lock"}
                            /\ label \in {"lock", "drop"},
           UNCHANGED <<entries, dead, ptr, key, attempt, kills>>
    PROVE  Removal'
<1>1. \A q \in Procs : q # p => pc'[q] = pc[q]
  BY DEF TypeOK, ProcTypes
<1>2. KnownKeys'
  BY DEF Removal, KnownKeys
<1>3. ZombieIsBeingRemoved'
  BY <1>1 DEF Removal, ZombieIsBeingRemoved
<1>4. ASSUME NEW w \in Workers PROVE Caused(w)'
  <2>1. CASE w = p
    <3>1. pc'[w] = label
      BY <2>1 DEF TypeOK, ProcTypes
    <3> QED
      BY <2>1, <3>1 DEF Removal, Caused, Zombie
  <2>2. CASE w # p
    BY <1>1, <2>2, Constants DEF Removal, Caused, Zombie
  <2> QED
    BY <2>1, <2>2
<1> QED
  BY <1>2, <1>3, <1>4 DEF Removal

\* A call begins.
LEMMA BeginKeepsRemoval ==
    ASSUME TypeOK, Structure, Removal, NEW w \in Workers, NEW k \in Keys,
           pc[w] = "idle", pc' = [pc EXCEPT ![w] = "load"], key' = [key EXCEPT ![w] = k],
           attempt' = [attempt EXCEPT ![w] = 0], kills' = [kills EXCEPT ![w] = 0],
           UNCHANGED <<entries, dead, ptr>>
    PROVE  Removal'
<1>1. w \in Procs /\ ptr[w] = NoEntry
  BY Constants DEF Structure, Shape, Holding
<1>2. /\ \A q \in Procs : q # w => pc'[q] = pc[q] /\ key'[q] = key[q]
      /\ \A v \in Workers : v # w => attempt'[v] = attempt[v] /\ kills'[v] = kills[v]
      /\ pc'[w] = "load" /\ attempt'[w] = 0 /\ kills'[w] = 0
  BY <1>1 DEF TypeOK, ProcTypes
<1>3. KnownKeys'
  BY <1>1, <1>2 DEF Removal, KnownKeys
<1>4. ZombieIsBeingRemoved'
  BY <1>2 DEF Removal, ZombieIsBeingRemoved
<1>5. ASSUME NEW v \in Workers PROVE Caused(v)'
  <2>1. CASE v = w
    BY <1>2, <2>1 DEF Caused
  <2>2. CASE v # w
    BY <1>2, <2>2, Constants DEF Removal, Caused, Zombie
  <2> QED
    BY <2>1, <2>2
<1> QED
  BY <1>3, <1>4, <1>5 DEF Removal

\* A goroutine takes a pointer from the map.
LEMMA TakeKeepsRemoval ==
    ASSUME TypeOK, Structure, Removal, NEW p \in Procs, NEW k \in Keys, NEW label,
           entries[k] # NoEntry, pc[p] # "drop", label # "drop",
           ptr' = [ptr EXCEPT ![p] = entries[k]], key' = [key EXCEPT ![p] = k],
           pc' = [pc EXCEPT ![p] = label],
           p \in Workers => \/ label = "peek"
                            \/ pc[p] = "load" /\ label = "seen" /\ k = key[p],
           UNCHANGED <<entries, dead, attempt, kills>>
    PROVE  Removal'
<1>1. /\ \A q \in Procs : q # p => pc'[q] = pc[q] /\ key'[q] = key[q] /\ ptr'[q] = ptr[q]
      /\ pc'[p] = label /\ key'[p] = k /\ ptr'[p] = entries[k]
  BY DEF TypeOK, ProcTypes
<1>2. KnownKeys'
  BY <1>1 DEF Removal, KnownKeys, Structure, OneKeyPerEntry
<1>3. ZombieIsBeingRemoved'
  BY <1>1 DEF Removal, ZombieIsBeingRemoved
<1>4. ASSUME NEW v \in Workers PROVE Caused(v)'
  <2>1. CASE v = p
    BY <1>1, <2>1 DEF Removal, Caused, Zombie
  <2>2. CASE v # p
    BY <1>1, <2>2, Constants DEF Removal, Caused, Zombie
  <2> QED
    BY <2>1, <2>2
<1> QED
  BY <1>2, <1>3, <1>4 DEF Removal

\* A decision, or the janitor passing by: the pointer is let go.
LEMMA ReleaseKeepsRemoval ==
    ASSUME TypeOK, Removal, NEW p \in Procs, NEW label,
           pc[p] # "drop", label # "drop", label = "idle" \/ p \notin Workers,
           pc' = [pc EXCEPT ![p] = label], ptr' = [ptr EXCEPT ![p] = NoEntry],
           UNCHANGED <<entries, dead, key, attempt, kills>>
    PROVE  Removal'
<1>1. /\ \A q \in Procs : q # p => pc'[q] = pc[q] /\ ptr'[q] = ptr[q]
      /\ pc'[p] = label /\ ptr'[p] = NoEntry
  BY DEF TypeOK, ProcTypes
<1>2. KnownKeys'
  BY <1>1 DEF Removal, KnownKeys
<1>3. ZombieIsBeingRemoved'
  BY <1>1 DEF Removal, ZombieIsBeingRemoved
<1>4. ASSUME NEW v \in Workers PROVE Caused(v)'
  <2>1. CASE v = p
    BY <1>1, <2>1 DEF Caused
  <2>2. CASE v # p
    BY <1>1, <2>2, Constants DEF Removal, Caused, Zombie
  <2> QED
    BY <2>1, <2>2
<1> QED
  BY <1>2, <1>3, <1>4 DEF Removal

\* A dead entry is removed from the map, unless it has been already.
LEMMA DeleteKeepsRemoval ==
    ASSUME TypeOK, Structure, Removal, NEW p \in Procs, NEW label,
           pc[p] = "drop", label # "drop", CompareAndDelete(key[p], ptr[p]),
           pc' = [pc EXCEPT ![p] = label], ptr' = [ptr EXCEPT ![p] = NoEntry],
           p \in Workers =>
             \/ label = "idle" /\ UNCHANGED attempt
             \/ /\ label = "load" /\ attempt[p] < MaxAttempts
                /\ attempt' = [attempt EXCEPT ![p] = attempt[p] + 1],
           p \notin Workers => UNCHANGED attempt,
           UNCHANGED <<dead, key, kills>>
    PROVE  Removal'
<1>1. /\ \A q \in Procs : q # p => pc'[q] = pc[q] /\ ptr'[q] = ptr[q]
      /\ pc'[p] = label /\ ptr'[p] = NoEntry
      /\ \A v \in Workers : v # p => attempt'[v] = attempt[v]
  BY DEF TypeOK, ProcTypes
<1>2. key[p] \in Keys /\ ptr[p] # NoEntry /\ dead[ptr[p]]
  BY DEF TypeOK, ProcTypes, Structure, Shape, Holding
<1>3. \A k \in Keys : entries'[k] = IF k = key[p] /\ entries[k] = ptr[p] THEN NoEntry
                                    ELSE entries[k]
  BY <1>2 DEF CompareAndDelete, TypeOK, HeapTypes
<1>4. KnownKeys'
  BY <1>1, <1>3 DEF Removal, KnownKeys
<1>5. ZombieIsBeingRemoved'
  <2> SUFFICES ASSUME NEW k \in Keys, entries'[k] # NoEntry, dead[entries'[k]]
               PROVE  \E q \in Procs : pc'[q] = "drop" /\ ptr'[q] = entries'[k]
    BY DEF ZombieIsBeingRemoved
  <2>1. entries'[k] = entries[k]
    BY <1>3
  <2>2. PICK q \in Procs : pc[q] = "drop" /\ ptr[q] = entries[k]
    BY <2>1 DEF Removal, ZombieIsBeingRemoved
  <2>3. q # p
    <3> SUFFICES ASSUME q = p PROVE FALSE
      OBVIOUS
    <3>1. k = key[p]
      BY <1>2, <2>2 DEF Removal, KnownKeys
    <3> QED
      BY <1>3, <2>1, <2>2, <3>1
  <2> QED
    BY <1>1, <2>1, <2>2, <2>3
<1>6. \A k \in Keys : Zombie(k)' => Zombie(k) /\ entries'[k] = entries[k]
  BY <1>3 DEF Zombie
<1>7. ASSUME NEW v \in Workers PROVE Caused(v)'
  <2>0. /\ kills[v] \in Int /\ attempt[v] \in Int /\ MaxAttempts \in Int
        /\ v \in Procs /\ key[v] \in Keys
    BY CallCounts
  <2>1. CASE v = p /\ label = "idle"
    BY <1>1, <2>1 DEF Caused
  <2>2. CASE v = p /\ label # "idle"
    <3>1. attempt'[v] = attempt[v] + 1 /\ attempt[v] < MaxAttempts /\ pc'[v] = "load"
      BY <1>1, <2>2 DEF TypeOK, ProcTypes
    <3>2. kills[v] >= attempt[v]
      BY <1>2, <2>2 DEF Removal, Caused
    <3>3. Zombie(key[v])' => kills[v] >= attempt[v] + 1
      <4> SUFFICES ASSUME Zombie(key[v])' PROVE kills[v] >= attempt[v] + 1
        OBVIOUS
      <4>1. Zombie(key[v]) /\ entries'[key[v]] = entries[key[v]] /\ entries'[key[v]] # NoEntry
        BY <1>6, <2>0 DEF Zombie
      <4>2. entries[key[v]] # ptr[v]
        BY <1>3, <2>0, <2>2, <4>1
      <4>3. kills[v] >= MinOf(attempt[v] + 1, MaxAttempts)
        BY <1>2, <2>2, <4>1, <4>2 DEF Removal, Caused
      <4> QED
        BY <2>0, <3>1, <4>3 DEF MinOf
    <3> QED
      BY <2>0, <3>1, <3>2, <3>3 DEF Caused
  <2>3. CASE v # p
    <3>1. pc'[v] = pc[v] /\ ptr'[v] = ptr[v] /\ attempt'[v] = attempt[v]
      BY <1>1, <2>0, <2>3
    <3>2. Zombie(key[v])' => Zombie(key[v]) /\ entries'[key[v]] = entries[key[v]]
      BY <1>6, <2>0
    <3> QED
      BY <3>1, <3>2 DEF Removal, Caused, Zombie
  <2> QED
    BY <2>1, <2>2, <2>3
<1> QED
  BY <1>4, <1>5, <1>7 DEF Removal

\* A scanner marks the entry it holds; every call for its key counts that.
LEMMA RetireKeepsRemoval ==
    ASSUME TypeOK, Structure, Removal, NEW s \in Scanners, Retire(s), pc[s] = "lock",
           UNCHANGED <<entries, key, ptr, attempt>>
    PROVE  Removal'
<1>1. s \in Procs /\ s \notin Workers
  BY Constants
<1>2. ptr[s] \in Entries /\ ptr[s] # NoEntry /\ key[s] \in Keys
  BY <1>1, Constants DEF Structure, Shape, Holding, TypeOK, ProcTypes
<1>3. /\ dead'[ptr[s]] /\ \A e \in Entries : e # ptr[s] => (dead'[e] <=> dead[e])
      /\ pc'[s] = "drop" /\ \A q \in Procs : q # s => pc'[q] = pc[q]
  BY <1>1, <1>2 DEF Retire, Goto, TypeOK, ProcTypes, HeapTypes
<1>4. KnownKeys'
  BY DEF Removal, KnownKeys
<1>5. ZombieIsBeingRemoved'
  <2> SUFFICES ASSUME NEW k \in Keys, entries[k] # NoEntry, dead'[entries[k]]
               PROVE  \E q \in Procs : pc'[q] = "drop" /\ ptr[q] = entries[k]
    BY DEF ZombieIsBeingRemoved
  <2>1. CASE entries[k] = ptr[s]
    BY <1>1, <1>3, <2>1
  <2>2. CASE entries[k] # ptr[s]
    <3>1. entries[k] \in Entries /\ dead[entries[k]]
      BY <1>3, <2>2 DEF TypeOK, HeapTypes
    <3>2. PICK q \in Procs : pc[q] = "drop" /\ ptr[q] = entries[k]
      BY <3>1 DEF Removal, ZombieIsBeingRemoved
    <3> QED
      BY <1>3, <3>2
  <2> QED
    BY <2>1, <2>2
<1>6. ASSUME NEW w \in Workers PROVE Caused(w)'
  <2>0. /\ kills[w] \in 0 .. MaxAttempts /\ attempt[w] \in 0 .. MaxAttempts
        /\ MaxAttempts \in Nat /\ w \in Procs /\ key[w] \in Keys /\ pc'[w] = pc[w]
        /\ Caused(w)
    BY <1>1, <1>3, CallCounts, Constants DEF Removal
  <2>1. kills'[w] = IF pc[w] # "idle" /\ key[w] = key[s] /\ ~dead[ptr[s]]
                    THEN MinOf(kills[w] + 1, MaxAttempts) ELSE kills[w]
    BY DEF Retire
  <2>2. CASE pc[w] # "idle" /\ key[w] = key[s] /\ ~dead[ptr[s]]
    <3>1. kills'[w] = MinOf(kills[w] + 1, MaxAttempts)
      BY <2>1, <2>2
    <3>2. entries[key[w]] = ptr[s] /\ ~Zombie(key[w])
      BY <1>1, <1>2, <2>2 DEF Structure, LiveIsMapped, Zombie
    <3>3. CASE pc[w] = "load"
      BY <2>0, <3>1, <3>3 DEF Caused, MinOf
    <3>4. CASE pc[w] \in {"seen", "lock", "drop"}
      <4>1. ptr[w] \in Entries
        BY <2>0, <3>4 DEF Structure, Shape, Holding, TypeOK, ProcTypes
      <4>2. CASE ptr[w] = ptr[s]
        BY <2>0, <3>1, <3>2, <3>4, <4>2 DEF Caused, MinOf
      <4>3. CASE ptr[w] # ptr[s]
        <5>1. dead[ptr[w]]
          BY <2>0, <3>2, <4>1, <4>3, Constants DEF Structure, LiveIsMapped
        <5>2. kills[w] >= attempt[w]
          BY <2>0, <3>4, <5>1 DEF Caused
        <5> QED
          BY <2>0, <3>1, <3>4, <5>2 DEF Caused, MinOf
      <4> QED
        BY <4>2, <4>3
    <3>5. CASE pc[w] \notin {"load", "seen", "lock", "drop"}
      BY <2>0, <3>5 DEF Caused
    <3> QED
      BY <3>3, <3>4, <3>5
  <2>3. CASE pc[w] = "idle"
    BY <2>0, <2>3 DEF Caused
  <2>4. CASE key[w] # key[s] \/ dead[ptr[s]]
    <3>1. kills'[w] = kills[w]
      BY <2>1, <2>4
    <3>2. Zombie(key[w])' => Zombie(key[w])
      <4>1. CASE dead[ptr[s]]
        BY <1>2, <1>3, <4>1, <2>0 DEF Zombie, TypeOK, HeapTypes
      <4>2. CASE ~dead[ptr[s]]
        <5>1. entries[key[s]] = ptr[s]
          BY <1>1, <1>2, <4>2 DEF Structure, LiveIsMapped
        <5>2. entries[key[w]] # ptr[s]
          BY <1>2, <2>0, <2>4, <4>2, <5>1 DEF Structure, OneKeyPerEntry
        <5> QED
          BY <1>3, <2>0, <5>2 DEF Zombie, TypeOK, HeapTypes
      <4> QED
        BY <4>1, <4>2
    <3>3. pc[w] \in {"seen", "lock", "drop"} => (dead'[ptr[w]] => dead[ptr[w]])
      <4> SUFFICES ASSUME pc[w] \in {"seen", "lock", "drop"}, ~dead[ptr[w]], ptr[w] = ptr[s]
                   PROVE  FALSE
        BY <1>3, <2>0 DEF Structure, Shape, Holding, TypeOK, ProcTypes
      <4>1. entries[key[w]] = ptr[w] /\ entries[key[s]] = ptr[s]
        BY <1>1, <1>2, <2>0 DEF Structure, LiveIsMapped
      <4>2. key[w] = key[s]
        BY <1>2, <2>0, <4>1 DEF Structure, OneKeyPerEntry
      <4> QED
        BY <2>4, <4>2
    <3> QED
      BY <2>0, <3>1, <3>2, <3>3 DEF Caused
  <2> QED
    BY <2>2, <2>3, <2>4
<1> QED
  BY <1>4, <1>5, <1>6 DEF Removal

\* A new entry is published; it is not dead.
LEMMA PublishKeepsRemoval ==
    ASSUME TypeOK, Structure, Removal, NEW w \in Workers, LoadMiss(w)
    PROVE  Removal'
<1>1. w \in Procs /\ key[w] \in Keys
  BY Constants DEF TypeOK, ProcTypes
<1>2. PICK e \in Entries :
        /\ Free(e)
        /\ entries' = [entries EXCEPT ![key[w]] = e]
        /\ dead' = [dead EXCEPT ![e] = FALSE]
        /\ ptr' = [ptr EXCEPT ![w] = e]
  BY DEF LoadMiss, Point
<1>3. /\ pc' = [pc EXCEPT ![w] = "seen"] /\ UNCHANGED <<key, attempt, kills>>
      /\ entries[key[w]] = NoEntry /\ pc[w] = "load"
  BY DEF LoadMiss, Goto, local, ghost
<1>4. /\ \A p \in Procs : p # w => ptr'[p] = ptr[p] /\ ptr[p] # e /\ pc'[p] = pc[p]
      /\ ptr'[w] = e /\ pc'[w] = "seen" /\ entries'[key[w]] = e
      /\ ~dead'[e] /\ \A f \in Entries : f # e => (dead'[f] <=> dead[f])
      /\ \A k \in Keys : k # key[w] => entries'[k] = entries[k] /\ entries[k] # e
  BY <1>1, <1>2, <1>3 DEF Free, TypeOK, ProcTypes, HeapTypes
<1>5. KnownKeys'
  BY <1>1, <1>3, <1>4 DEF Removal, KnownKeys
<1>6. \A k \in Keys : Zombie(k)' => Zombie(k) /\ k # key[w] /\ entries'[k] = entries[k]
  BY <1>4 DEF Zombie, TypeOK, HeapTypes
<1>7. ZombieIsBeingRemoved'
  <2> SUFFICES ASSUME NEW k \in Keys, Zombie(k)'
               PROVE  \E q \in Procs : pc'[q] = "drop" /\ ptr'[q] = entries'[k]
    BY DEF ZombieIsBeingRemoved, Zombie
  <2>1. PICK q \in Procs : pc[q] = "drop" /\ ptr[q] = entries[k]
    BY <1>6 DEF Removal, ZombieIsBeingRemoved, Zombie
  <2> QED
    BY <1>3, <1>4, <1>6, <2>1
<1>8. ASSUME NEW v \in Workers PROVE Caused(v)'
  <2>0. v \in Procs /\ key[v] \in Keys /\ Caused(v)
    BY CallCounts DEF Removal
  <2>1. CASE v = w
    BY <1>3, <1>4, <2>0, <2>1 DEF Caused
  <2>2. CASE v # w
    <3>1. pc'[v] = pc[v] /\ ptr'[v] = ptr[v] /\ ptr[v] # e
      BY <1>4, <2>0, <2>2
    <3>2. pc[v] \in {"seen", "lock", "drop"} => (dead'[ptr[v]] <=> dead[ptr[v]])
      BY <1>4, <2>0, <3>1 DEF Structure, Shape, Holding, TypeOK, ProcTypes
    <3>3. Zombie(key[v])' => Zombie(key[v]) /\ entries'[key[v]] = entries[key[v]]
      BY <1>3, <1>6, <2>0
    <3> QED
      BY <1>3, <2>0, <3>1, <3>2, <3>3 DEF Caused
  <2> QED
    BY <2>1, <2>2
<1> QED
  BY <1>5, <1>7, <1>8 DEF Removal

LEMMA NextRemoval == TypeOK /\ Structure /\ Removal /\ [Next]_vars => Removal'
<1> SUFFICES ASSUME TypeOK, Structure, Removal, [Next]_vars PROVE Removal'
  OBVIOUS
<1> USE Constants
<1>1. CASE Tick \/ Close \/ UNCHANGED vars
  <2>1. UNCHANGED <<entries, dead, ptr, key, pc, attempt, kills>>
    BY <1>1 DEF Tick, Close, vars, heap, local, ghost
  <2> QED
    BY <2>1, StillKeepsRemoval
<1>2. CASE JanitorExit
  BY <1>2, MoveKeepsRemoval DEF JanitorExit, Goto, heap, local, ghost
<1>3. ASSUME NEW w \in Workers, NEW k \in Keys, NEW raw \in Policies,
             BeginAllow(w, k, raw) \/ BeginPeek(w, k, raw)
      PROVE  Removal'
  <2>1. CASE BeginAllow(w, k, raw)
    BY <2>1, BeginKeepsRemoval DEF BeginAllow, Goto, heap
  <2>2. CASE BeginPeek(w, k, raw)
    <3>1. /\ entries[k] # NoEntry /\ pc[w] # "drop" /\ "peek" # "drop"
          /\ ptr' = [ptr EXCEPT ![w] = entries[k]] /\ key' = [key EXCEPT ![w] = k]
          /\ pc' = [pc EXCEPT ![w] = "peek"]
          /\ UNCHANGED <<entries, dead, attempt, kills>>
      BY <2>2 DEF BeginPeek, Goto, Point, heap, ghost
    <3> QED
      BY <3>1, TakeKeepsRemoval
  <2> QED
    BY <1>3, <2>1, <2>2
<1>4. ASSUME NEW w \in Workers, WorkerStep(w) PROVE Removal'
  <2>0. w \in Procs /\ key[w] \in Keys
    BY CallCounts
  <2>1. CASE LoadHit(w)
    <3>1. /\ entries[key[w]] # NoEntry /\ pc[w] = "load"
          /\ ptr' = [ptr EXCEPT ![w] = entries[key[w]]]
          /\ key' = [key EXCEPT ![w] = key[w]]
          /\ pc' = [pc EXCEPT ![w] = "seen"]
          /\ UNCHANGED <<entries, dead, attempt, kills>>
      BY <2>1 DEF LoadHit, Goto, Point, heap, local, ghost, TypeOK, ProcTypes
    <3> QED
      BY <2>0, <3>1, TakeKeepsRemoval
  <2>2. CASE LoadMiss(w)
    BY <2>2, PublishKeepsRemoval
  <2>3. CASE StoreLastSeen(w)
    BY <2>0, <2>3, MoveKeepsRemoval DEF StoreLastSeen, Goto, local, ghost
  <2>4. CASE MeetDead(w)
    BY <2>0, <2>4, MoveKeepsRemoval DEF MeetDead, Goto, heap, local, ghost
  <2>5. CASE Admit(w) \/ Refuse(w) \/ PeekPrune(w)
    <3>1. /\ pc[w] # "drop" /\ pc' = [pc EXCEPT ![w] = "idle"]
          /\ ptr' = [ptr EXCEPT ![w] = NoEntry]
          /\ UNCHANGED <<entries, dead, key, attempt, kills>>
      BY <2>5 DEF Admit, Refuse, PeekPrune, Goto, Point, local, ghost, Release, CountRequest
    <3> QED
      BY <2>0, <3>1, ReleaseKeepsRemoval
  <2>6. CASE Retry(w)
    <3>1. /\ pc[w] = "drop" /\ CompareAndDelete(key[w], ptr[w])
          /\ pc' = [pc EXCEPT ![w] = "load"] /\ ptr' = [ptr EXCEPT ![w] = NoEntry]
          /\ attempt[w] < MaxAttempts /\ attempt' = [attempt EXCEPT ![w] = attempt[w] + 1]
          /\ UNCHANGED <<dead, key, kills>>
      BY <2>6 DEF Retry, LoadAgain, Release, Goto, Point, heap, local, ghost
    <3> QED
      BY <2>0, <3>1, DeleteKeepsRemoval
  <2>7. CASE AdmitDetached(w)
    <3>1. /\ pc[w] = "drop" /\ CompareAndDelete(key[w], ptr[w])
          /\ pc' = [pc EXCEPT ![w] = "idle"] /\ ptr' = [ptr EXCEPT ![w] = NoEntry]
          /\ UNCHANGED <<dead, key, kills, attempt>>
      BY <2>7 DEF AdmitDetached, Release, Goto, Point, heap, local, ghost
    <3> QED
      BY <2>0, <3>1, DeleteKeepsRemoval
  <2> QED
    BY <1>4, <2>1, <2>2, <2>3, <2>4, <2>5, <2>6, <2>7 DEF WorkerStep
<1>5. ASSUME NEW s \in Scanners, StartScan(s) \/ ScanStep(s) PROVE Removal'
  <2>0. s \in Procs /\ s \notin Workers
    OBVIOUS
  <2>1. CASE StartScan(s) \/ EndScan(s)
    <3>1. PICK label : pc' = [pc EXCEPT ![s] = label]
      BY <2>1 DEF StartScan, EndScan, Goto
    <3>2. pc[s] # "drop" /\ UNCHANGED <<entries, dead, ptr, key, attempt, kills>>
      BY <2>1 DEF StartScan, EndScan, heap, local, ghost
    <3> QED
      BY <2>0, <3>1, <3>2, MoveKeepsRemoval
  <2>2. ASSUME NEW k \in Keys, Visit(s, k) PROVE Removal'
    <3>1. CASE entries[k] = NoEntry
      <4>1. UNCHANGED <<entries, dead, ptr, key, pc, attempt, kills>>
        BY <2>2, <3>1 DEF Visit, heap, ghost
      <4> QED
        BY <4>1, StillKeepsRemoval
    <3>2. CASE entries[k] # NoEntry
      <4>1. /\ pc[s] # "drop" /\ ptr' = [ptr EXCEPT ![s] = entries[k]]
            /\ key' = [key EXCEPT ![s] = k] /\ pc' = [pc EXCEPT ![s] = "lock"]
            /\ UNCHANGED <<entries, dead, attempt, kills>>
        BY <2>2, <3>2 DEF Visit, Goto, Point, heap, ghost
      <4> QED
        BY <2>0, <3>2, <4>1, TakeKeepsRemoval
    <3> QED
      BY <3>1, <3>2
  <2>3. CASE ResetMark(s)
    BY <2>3, RetireKeepsRemoval DEF ResetMark, local
  <2>4. CASE s = Janitor /\ Evict
    BY <2>4, RetireKeepsRemoval DEF Evict, local
  <2>5. CASE s = Janitor /\ CleanupPrune
    <3>1. /\ pc[s] # "drop" /\ pc' = [pc EXCEPT ![s] = "range"]
          /\ ptr' = [ptr EXCEPT ![s] = NoEntry]
          /\ UNCHANGED <<entries, dead, key, attempt, kills>>
      BY <2>5 DEF CleanupPrune, Goto, Point, local, ghost, Release
    <3> QED
      BY <2>0, <3>1, ReleaseKeepsRemoval
  <2>6. CASE ScanDelete(s)
    <3>1. /\ pc[s] = "drop" /\ CompareAndDelete(key[s], ptr[s])
          /\ pc' = [pc EXCEPT ![s] = "range"] /\ ptr' = [ptr EXCEPT ![s] = NoEntry]
          /\ UNCHANGED <<dead, key, kills, attempt>>
      BY <2>6 DEF ScanDelete, Release, Goto, Point, heap, local, ghost
    <3> QED
      BY <2>0, <3>1, DeleteKeepsRemoval
  <2> QED
    BY <1>5, <2>1, <2>2, <2>3, <2>4, <2>5, <2>6 DEF ScanStep
<1> QED
  BY <1>1, <1>2, <1>3, <1>4, <1>5 DEF Next

(***************************************************************************)
(* A dead entry that is still in the map has someone about to remove it,   *)
(* so no entry stays behind on which every later call would retry          *)
(* (memory.go, CompareAndDelete after the unlock in Allow, Reset, cleanup).*)
(***************************************************************************)
THEOREM ZombiesAreRemoved == Spec => []ZombieIsBeingRemoved
<1>1. TypeOK /\ Structure /\ Removal /\ [Next]_vars => (TypeOK /\ Structure /\ Removal)'
  BY NextTypes, NextStructure, NextRemoval DEF Structure
<1>2. Removal => ZombieIsBeingRemoved
  BY DEF Removal
<1> QED
  BY <1>1, <1>2, InitTypes, InitRemoval, PTL DEF Spec

(***************************************************************************)
(* But for the first dead entry Allow meets, which may have been retired   *)
(* before, each is owed to a retirement of its key during the call, so the *)
(* uncounted admission of the last attempt takes MaxAttempts of them       *)
(* (memory.go, the retry loop of Allow).                                   *)
(***************************************************************************)
THEOREM RetriesHaveCauses == Spec => []RetriesAreCaused
<1>1. TypeOK /\ Structure /\ Removal /\ [Next]_vars => (TypeOK /\ Structure /\ Removal)'
  BY NextTypes, NextStructure, NextRemoval DEF Structure
<1>2. Structure /\ Removal => RetriesAreCaused
  BY Constants DEF Removal, Caused, RetriesAreCaused, Structure, Shape
<1> QED
  BY <1>1, <1>2, InitTypes, InitRemoval, PTL DEF Spec

-----------------------------------------------------------------------------
(***************************************************************************)
(* What a refused client is told.                                          *)
(***************************************************************************)
LEMMA DecisionFields ==
    ASSUME NEW p, NEW kept, NEW t \in Int, p.window \in Int, kept[1] \in Int
    PROVE  /\ Decision(FALSE, p, kept, t).resetAt = kept[1] + p.window
           /\ Decision(FALSE, p, kept, t).retryAfter = NonNegative(kept[1] + p.window - t)
  BY DEF Decision, NonNegative

LEMMA RefusalOf ==
    ASSUME TypeOK, Structure, NEW w \in Workers, Deciding(w), ~Verdict(w).allowed
    PROVE  /\ ptr[w] \in Entries /\ Kept(w) \in Seq(Int) /\ Len(Kept(w)) >= policy[w].limit
           /\ Len(Kept(w)) \in Nat /\ Kept(w)[1] \in Int /\ now[w] \in Int
           /\ Len(Kept(w)) >= 1 /\ policy[w].limit \in Nat /\ policy[w].window \in Nat
           /\ policy[w].limit >= 1
           /\ Verdict(w).resetAt = Kept(w)[1] + policy[w].window
           /\ Verdict(w).retryAfter = NonNegative(Kept(w)[1] + policy[w].window - now[w])
           /\ Verdict(w).retryAfter >= 1
<1>1. ptr[w] \in Entries
  BY Constants DEF Deciding, Structure, Shape, Holding, TypeOK, ProcTypes
<1>2. /\ hits[ptr[w]] \in Seq(Int) /\ now[w] \in Int /\ policy[w] \in EnforcedPolicies
      /\ Kept(w) \in Seq(Int)
  BY <1>1, KeptIsLog
<1>3. policy[w].limit \in Nat /\ policy[w].limit >= 1 /\ policy[w].window \in Nat
  BY <1>2, ClampAssumption DEF EnforcedPolicies
<1>4. Verdict(w).retryAfter >= 1
  BY <1>2, RefusalDelaysRetry DEF Verdict
<1>5. Len(Kept(w)) >= policy[w].limit /\ Verdict(w) = Decision(FALSE, policy[w], Kept(w), now[w])
  BY DEF Verdict, Decide, Kept, Decision
<1>6. Len(Kept(w)) \in Nat /\ Len(Kept(w)) >= 1
  BY <1>2, <1>3, <1>5, LenProperties
<1>7. Kept(w)[1] \in Int
  BY <1>2, <1>6, ElementOfSeq
<1>8. /\ Verdict(w).resetAt = Kept(w)[1] + policy[w].window
      /\ Verdict(w).retryAfter = NonNegative(Kept(w)[1] + policy[w].window - now[w])
  <2>1. policy[w].window \in Int
    BY <1>3
  <2>2. /\ Decision(FALSE, policy[w], Kept(w), now[w]).resetAt = Kept(w)[1] + policy[w].window
        /\ Decision(FALSE, policy[w], Kept(w), now[w]).retryAfter =
               NonNegative(Kept(w)[1] + policy[w].window - now[w])
    BY <1>2, <1>7, <2>1, DecisionFields, Zenon
  <2> QED
    BY <1>5, <2>2, Zenon
<1> QED
  BY <1>1, <1>2, <1>3, <1>4, <1>5, <1>6, <1>7, <1>8

(***************************************************************************)
(* RetryAfter is positive and at most a window plus the delay of a call,   *)
(* although other calls' stamps may be later than this call's (deny).      *)
(***************************************************************************)
THEOREM MemoryRetryIsBounded == Spec => []RetryAfterBounded
<1> DEFINE Inv == TypeOK /\ Structure /\ Timing
<1>1. Inv /\ [Next]_vars => Inv'
  BY NextTypes, NextStructure, NextTiming DEF Structure
<1>2. Inv => RetryAfterBounded
  <2> SUFFICES ASSUME Inv, NEW w \in Workers, Deciding(w), ~Verdict(w).allowed
               PROVE  Verdict(w).retryAfter \in 1 .. policy[w].window + MaxDelay
    BY DEF RetryAfterBounded
  <2>1. /\ ptr[w] \in Entries /\ Kept(w)[1] \in Int /\ Len(Kept(w)) \in Nat
        /\ Len(Kept(w)) >= 1 /\ now[w] \in Int /\ policy[w].window \in Nat
        /\ Verdict(w).retryAfter = NonNegative(Kept(w)[1] + policy[w].window - now[w])
        /\ Verdict(w).retryAfter >= 1
    BY RefusalOf
  <2>2. AllBelow(Kept(w), clock) /\ clock \in Int
    <3>1. /\ hits[ptr[w]] \in Seq(Int) /\ now[w] - policy[w].window \in Int /\ clock \in Int
      BY <2>1, KeptIsLog DEF TypeOK
    <3>2. AllBelow(hits[ptr[w]], clock)
      BY <2>1 DEF Timing, StampsAreTimely
    <3> QED
      BY <3>1, <3>2, AllBelowLaws DEF Kept
  <2>3. Kept(w)[1] <= clock
    BY <2>1, <2>2 DEF AllBelow
  <2>4. clock <= now[w] + MaxDelay /\ MaxDelay \in Int
    BY DelayAssumption DEF Deciding, Timing, CallsAreTimely
  <2> QED
    BY <2>1, <2>2, <2>3, <2>4 DEF NonNegative
<1>3. Init => Inv
  BY InitTypes, InitTiming
<1> HIDE DEF Inv
<1> QED
  BY <1>1, <1>2, <1>3, PTL DEF Spec

-----------------------------------------------------------------------------
(***************************************************************************)
(* ResetAt frees a slot while all policies in use have the same limit: an  *)
(* entry then never holds more stamps than the limit, and the oldest one   *)
(* is gone at ResetAt.                                                     *)
(***************************************************************************)
Filled(L) == \A e \in Entries : Len(hits[e]) <= L

LEMMA PruneShortens ==
    ASSUME NEW h \in Seq(Int), NEW c \in Int
    PROVE  /\ Len(Prune(h, c)) \in Nat /\ Len(Prune(h, c)) <= Len(h) /\ Len(h) \in Nat
           /\ Len(h) >= 1 /\ h[1] <= c => Len(Prune(h, c)) <= Len(h) - 1
<1>1. PICK n \in 0 .. Len(h) :
        /\ IsExpiredPrefix(h, c, n) /\ Len(Prune(h, c)) = Len(h) - n
  BY PruneKeepsSuffix
<1>2. Len(h) \in Nat /\ \A j \in 1 .. Len(h) : h[j] \in Int
  BY LenProperties
<1>3. ASSUME Len(h) >= 1, h[1] <= c PROVE n >= 1
  <2> SUFFICES ASSUME n = 0 PROVE FALSE
    BY <1>2
  <2>1. h[1] > c /\ h[1] \in Int
    BY <1>1, <1>2, <1>3 DEF IsExpiredPrefix
  <2> QED
    BY <1>3, <2>1
<1> QED
  BY <1>1, <1>2, <1>3

LEMMA NextFilled ==
    ASSUME NEW L \in Nat, \A raw \in Policies : Normalize(raw).limit = L,
           TypeOK, Structure, Origins, Filled(L), [Next]_vars
    PROVE  Filled(L)'
<1> USE Constants
<1>1. ASSUME NEW p \in Procs, ptr[p] \in Entries, NEW h, Len(h) <= L,
             hits' = [hits EXCEPT ![ptr[p]] = h]
      PROVE  Filled(L)'
  BY <1>1 DEF Filled, TypeOK, HeapTypes
<1>2. ASSUME UNCHANGED hits PROVE Filled(L)'
  BY <1>2 DEF Filled
<1>3. ASSUME NEW w \in Workers, ptr[w] \in Entries
      PROVE  Len(Kept(w)) <= L /\ Len(Kept(w)) \in Nat /\ Kept(w) \in Seq(Int)
  <2>1. hits[ptr[w]] \in Seq(Int) /\ now[w] - policy[w].window \in Int /\ Kept(w) \in Seq(Int)
    BY <1>3, KeptIsLog
  <2>2. Len(hits[ptr[w]]) <= L
    BY <1>3 DEF Filled
  <2> QED
    BY <2>1, <2>2, PruneShortens DEF Kept
<1>4. ASSUME NEW w \in Workers, WorkerStep(w) PROVE Filled(L)'
  <2>1. CASE Admit(w)
    <3>1. ptr[w] \in Entries /\ pc[w] # "idle" /\ now[w] \in Nat /\ w \in Procs
      BY <2>1 DEF Admit, CountRequest, Structure, Shape, Holding, TypeOK, ProcTypes
    <3>2. policy[w].limit = L
      BY <3>1 DEF Origins
    <3>3. Len(Kept(w)) < L
      <4>1. ~(Len(Kept(w)) >= policy[w].limit)
        BY <2>1 DEF Admit, CountRequest, Verdict, Decide, Decision, Kept
      <4> QED
        BY <1>3, <3>1, <3>2, <4>1
    <3>4. Len(Append(Kept(w), now[w])) <= L
      BY <1>3, <3>1, <3>3, AppendProperties
    <3> QED
      BY <1>1, <2>1, <3>1, <3>4 DEF Admit, CountRequest
  <2>2. CASE Refuse(w) \/ PeekPrune(w)
    <3>1. ptr[w] \in Entries /\ w \in Procs
      BY <2>2 DEF Refuse, PeekPrune, Structure, Shape, Holding, TypeOK, ProcTypes
    <3> QED
      BY <1>1, <1>3, <2>2, <3>1 DEF Refuse, PeekPrune
  <2>3. CASE LoadMiss(w)
    <3>1. PICK e \in Entries : hits' = [hits EXCEPT ![e] = <<>>]
      BY <2>3 DEF LoadMiss
    <3>2. Len(<<>>) = 0
      BY EmptySeq
    <3> QED
      BY <3>1, <3>2 DEF Filled, TypeOK, HeapTypes
  <2>4. CASE LoadHit(w) \/ StoreLastSeen(w) \/ MeetDead(w) \/ Retry(w) \/ AdmitDetached(w)
    BY <1>2, <2>4 DEF LoadHit, StoreLastSeen, MeetDead, Retry, AdmitDetached, LoadAgain, heap
  <2> QED
    BY <1>4, <2>1, <2>2, <2>3, <2>4 DEF WorkerStep
<1>5. ASSUME NEW s \in Scanners, StartScan(s) \/ ScanStep(s) PROVE Filled(L)'
  <2>1. CASE s = Janitor /\ Evict
    <3>1. ptr[s] \in Entries /\ Len(<<>>) = 0
      BY <2>1, EmptySeq DEF Evict, Structure, Shape, Holding, TypeOK, ProcTypes
    <3>2. hits' = [hits EXCEPT ![ptr[s]] = <<>>] /\ Len(<<>>) <= L /\ s \in Procs
      BY <2>1, <3>1 DEF Evict, Procs
    <3> QED
      BY <1>1, <3>1, <3>2, Zenon
  <2>2. CASE s = Janitor /\ CleanupPrune
    <3>1. ptr[s] \in Entries
      BY <2>2 DEF CleanupPrune, Structure, Shape, Holding, TypeOK, ProcTypes
    <3>2. /\ hits[ptr[s]] \in Seq(Int) /\ now[s] - window[ptr[s]] \in Int
          /\ Len(hits[ptr[s]]) <= L
      BY <3>1 DEF TypeOK, HeapTypes, ProcTypes, Filled
    <3>3. Len(Prune(hits[ptr[s]], now[s] - window[ptr[s]])) <= L
      BY <3>2, PruneShortens
    <3>4. hits' = [hits EXCEPT ![ptr[s]] = Prune(hits[ptr[s]], now[s] - window[ptr[s]])]
      BY <2>2, <3>1 DEF CleanupPrune, TypeOK, HeapTypes
    <3>5. s \in Procs
      BY DEF Procs
    <3> QED
      BY <1>1, <3>1, <3>3, <3>4, <3>5, Zenon
  <2>3. CASE StartScan(s) \/ EndScan(s) \/ ResetMark(s) \/ ScanDelete(s)
    BY <1>2, <2>3 DEF StartScan, EndScan, ResetMark, ScanDelete, heap
  <2>4. CASE \E k \in Keys : Visit(s, k)
    BY <1>2, <2>4 DEF Visit, heap
  <2> QED
    BY <1>5, <2>1, <2>2, <2>3, <2>4 DEF ScanStep
<1>6. ASSUME NEW w \in Workers, NEW k \in Keys, NEW raw \in Policies,
             BeginAllow(w, k, raw) \/ BeginPeek(w, k, raw)
      PROVE  Filled(L)'
  BY <1>2, <1>6 DEF BeginAllow, BeginPeek, heap
<1>7. CASE Tick \/ Close \/ JanitorExit \/ UNCHANGED vars
  BY <1>2, <1>7 DEF Tick, Close, JanitorExit, vars, heap
<1> QED
  BY <1>4, <1>5, <1>6, <1>7 DEF Next

(***************************************************************************)
(* "ResetAt is the instant at which the window frees up at least one slot" *)
(* (limiter.go, Decision): true whenever all policies in use have the same *)
(* limit, even if their windows differ.                                    *)
(***************************************************************************)
THEOREM MemoryResetFreesSlot ==
    ASSUME NEW L \in Nat, \A raw \in Policies : Normalize(raw).limit = L
    PROVE  Spec => []ResetFreesSlot
<1> DEFINE Inv == TypeOK /\ Structure /\ Origins /\ Filled(L)
<1>1. Init => Inv
  <2>1. Init => Filled(L)
    BY EmptySeq DEF Init, Filled
  <2> QED
    BY <2>1, InitTypes, InitOrigins
<1>2. Inv /\ [Next]_vars => Inv'
  BY NextTypes, NextStructure, NextOrigins, NextFilled DEF Structure
<1>3. Inv => ResetFreesSlot
  <2> SUFFICES ASSUME Inv, NEW w \in Workers, Deciding(w), ~Verdict(w).allowed
               PROVE  Decide(Kept(w), policy[w], Verdict(w).resetAt).allowed
    BY DEF ResetFreesSlot
  <2> DEFINE first == Kept(w)[1]
  <2>1. /\ ptr[w] \in Entries /\ Kept(w) \in Seq(Int) /\ first \in Int
        /\ Len(Kept(w)) \in Nat /\ Len(Kept(w)) >= 1 /\ policy[w].window \in Nat
        /\ Verdict(w).resetAt = first + policy[w].window
    BY RefusalOf
  <2>2. policy[w].limit = L
    BY DEF Deciding, Origins
  <2>3. Len(Kept(w)) <= L
    <3>1. hits[ptr[w]] \in Seq(Int) /\ now[w] - policy[w].window \in Int
      BY <2>1, KeptIsLog
    <3>2. Len(hits[ptr[w]]) <= L
      BY <2>1 DEF Filled
    <3> QED
      BY <3>1, <3>2, PruneShortens DEF Kept
  <2>4. Verdict(w).resetAt - policy[w].window = first
    BY <2>1
  <2>5. Len(Prune(Kept(w), first)) <= Len(Kept(w)) - 1 /\ Len(Prune(Kept(w), first)) \in Nat
    BY <2>1, PruneShortens
  <2>6. ~(Len(Prune(Kept(w), Verdict(w).resetAt - policy[w].window)) >= policy[w].limit)
    BY <2>1, <2>2, <2>3, <2>4, <2>5
  <2> QED
    BY <2>6 DEF Decide, Decision
<1> HIDE DEF Inv
<1> QED
  BY <1>1, <1>2, <1>3, PTL DEF Spec

-----------------------------------------------------------------------------
(* Calls advance. *)

LEMMA StageOf ==
    /\ Stage("load") = 5 /\ Stage("seen") = 4 /\ Stage("lock") = 3 /\ Stage("drop") = 2
    /\ Stage("peek") = 1 /\ Stage("range") = 1 /\ Stage("idle") = 0
  BY DEF Stage

\* Only p moves.
Moves(p, from, to) == pc[p] = from /\ pc' = [pc EXCEPT ![p] = to]

LEMMA WorkerMoves ==
    ASSUME NEW w \in Workers, WorkerStep(w)
    PROVE  /\ left' = left
           /\ \/ /\ attempt' = attempt
                 /\ \/ Moves(w, "load", "seen") \/ Moves(w, "seen", "lock")
                    \/ Moves(w, "lock", "drop") \/ Moves(w, "lock", "idle")
                    \/ Moves(w, "drop", "idle") \/ Moves(w, "peek", "idle")
              \/ /\ Moves(w, "drop", "load") /\ attempt[w] < MaxAttempts
                 /\ attempt' = [attempt EXCEPT ![w] = attempt[w] + 1]
<1>1. CASE LoadHit(w) \/ LoadMiss(w) \/ StoreLastSeen(w) \/ MeetDead(w)
  BY <1>1 DEF LoadHit, LoadMiss, StoreLastSeen, MeetDead, Goto, Moves
<1>2. CASE Admit(w) \/ Refuse(w) \/ PeekPrune(w) \/ AdmitDetached(w)
  BY <1>2 DEF Admit, CountRequest, Refuse, PeekPrune, AdmitDetached, Release, Goto, Moves
<1>3. CASE Retry(w)
  BY <1>3 DEF Retry, LoadAgain, Release, Goto, Moves
<1> QED
  BY <1>1, <1>2, <1>3 DEF WorkerStep

LEMMA ScannerMoves ==
    ASSUME TypeOK, NEW s \in Scanners, ScanStep(s)
    PROVE  /\ attempt' = attempt
           /\ \/ /\ left' = left
                 /\ \/ Moves(s, "range", "idle") \/ Moves(s, "lock", "drop")
                    \/ Moves(s, "lock", "range") \/ Moves(s, "drop", "range")
              \/ /\ pc' = pc \/ Moves(s, "range", "lock")
                 /\ \E k \in left[s] : left' = [left EXCEPT ![s] = left[s] \ {k}]
<1>1. ASSUME NEW k \in Keys, Visit(s, k)
      PROVE  /\ attempt' = attempt /\ (pc' = pc \/ Moves(s, "range", "lock"))
             /\ k \in left[s] /\ left' = [left EXCEPT ![s] = left[s] \ {k}]
  <2>1. pc' = pc \/ Moves(s, "range", "lock")
    BY <1>1 DEF Visit, Goto, Moves
  <2> QED
    BY <1>1, <2>1 DEF Visit
<1>2. CASE EndScan(s)
  BY <1>2 DEF EndScan, Goto, Moves
<1>3. CASE ResetMark(s)
  BY <1>3 DEF ResetMark, Retire, Goto, Moves
<1>4. CASE s = Janitor /\ (Evict \/ CleanupPrune)
  BY <1>4 DEF Evict, CleanupPrune, Retire, Release, Goto, Moves
<1>5. CASE ScanDelete(s)
  BY <1>5 DEF ScanDelete, Release, Goto, Moves
<1> QED
  BY <1>1, <1>2, <1>3, <1>4, <1>5 DEF ScanStep

LEMMA NextAdvances == TypeOK /\ [Next]_vars => Advance
<1> SUFFICES ASSUME TypeOK, [Next]_vars PROVE Advance
  OBVIOUS
<1>0. /\ \A w \in Workers : w \in Procs /\ attempt[w] \in 0 .. MaxAttempts
      /\ \A s \in Scanners : s \in Procs
      /\ \A w \in Workers, s \in Scanners : w # s
      /\ MaxAttempts \in Nat
      /\ pc \in [Procs -> Labels] /\ attempt \in [Workers -> 0 .. MaxAttempts]
      /\ left \in [Scanners -> SUBSET Keys]
  BY Constants DEF TypeOK, ProcTypes
<1>1. CASE UNCHANGED <<pc, attempt, left>>
  BY <1>1 DEF Advance
<1>2. ASSUME NEW p \in Procs, NEW label, pc[p] = "idle", Moves(p, "idle", label),
             \A w \in Workers : w # p => attempt'[w] = attempt[w],
             \A s \in Scanners : s # p => left'[s] = left[s]
      PROVE  Advance
  BY <1>0, <1>2 DEF Advance, Moves
<1>3. ASSUME NEW w \in Workers, WorkerStep(w) PROVE Advance
  <2>1. \A p \in Procs \ {w} : pc'[p] = pc[p]
    BY <1>0, <1>3, WorkerMoves DEF Moves
  <2>2. \A v \in Workers \ {w} : attempt'[v] = attempt[v]
    BY <1>0, <1>3, WorkerMoves
  <2>3. StepsLeft(w)' < StepsLeft(w)
    <3>1. PICK a, b, m, n : a = pc[w] /\ b = pc'[w] /\ m = attempt[w] /\ n = attempt'[w]
      OBVIOUS
    <3>2. \/ /\ n = m
             /\ \/ a = "load" /\ b = "seen"
                \/ a = "seen" /\ b = "lock"
                \/ a = "lock" /\ b \in {"drop", "idle"}
                \/ a \in {"drop", "peek"} /\ b = "idle"
          \/ a = "drop" /\ b = "load" /\ m < MaxAttempts /\ n = m + 1
      <4>1. \A x, y : Moves(w, x, y) => a = x /\ b = y
        BY <1>0, <3>1 DEF Moves
      <4>2. attempt' = attempt => n = m
        BY <3>1
      <4>3. attempt' = [attempt EXCEPT ![w] = attempt[w] + 1] => n = m + 1
        BY <1>0, <3>1
      <4> QED
        BY <1>3, <3>1, <4>1, <4>2, <4>3, WorkerMoves
    <3>3. m \in Int /\ MaxAttempts \in Int
      BY <1>0, <3>1
    <3>4. 4 * (MaxAttempts - n) + Stage(b) < 4 * (MaxAttempts - m) + Stage(a)
      <4>1. CASE a = "drop" /\ b = "load" /\ n = m + 1
        BY <3>3, <4>1, StageOf
      <4>2. CASE n = m /\ ~(a = "drop" /\ b = "load")
        <5>1. Stage(b) \in Int /\ Stage(a) \in Int /\ Stage(b) < Stage(a)
          BY <3>2, <4>2, StageOf
        <5> QED
          BY <3>3, <4>2, <5>1
      <4> QED
        BY <3>2, <4>1, <4>2
    <3> QED
      BY <3>1, <3>4 DEF StepsLeft
  <2>4. \A s \in Scanners : pc'[s] = pc[s] /\ left'[s] = left[s]
    BY <1>0, <1>3, <2>1, WorkerMoves
  <2> QED
    BY <1>0, <2>1, <2>2, <2>3, <2>4 DEF Advance
<1>4. ASSUME NEW s \in Scanners, ScanStep(s) PROVE Advance
  <2>1. \A p \in Procs \ {s} : pc'[p] = pc[p]
    BY <1>0, <1>4, ScannerMoves DEF Moves
  <2>2. \A r \in Scanners \ {s} : left'[r] = left[r]
    BY <1>0, <1>4, ScannerMoves
  <2>3. \/ left'[s] \subseteq left[s] /\ left'[s] # left[s]
        \/ left'[s] = left[s] /\ Stage(pc'[s]) < Stage(pc[s])
    <3>1. CASE \E k \in left[s] : left' = [left EXCEPT ![s] = left[s] \ {k}]
      BY <1>0, <3>1
    <3>2. CASE left' = left /\ \/ Moves(s, "range", "idle") \/ Moves(s, "lock", "drop")
                               \/ Moves(s, "lock", "range") \/ Moves(s, "drop", "range")
      BY <1>0, <3>2, StageOf DEF Moves
    <3> QED
      BY <1>4, <3>1, <3>2, ScannerMoves
  <2>4. \A w \in Workers : pc'[w] = pc[w] /\ attempt'[w] = attempt[w]
    BY <1>0, <1>4, <2>1, ScannerMoves
  <2> QED
    BY <1>0, <2>1, <2>2, <2>3, <2>4 DEF Advance
<1>5. CASE Tick \/ Close
  BY <1>1, <1>5 DEF Tick, Close
<1>6. CASE JanitorExit
  BY <1>2, <1>6, Constants DEF JanitorExit, Goto, Moves
<1>7. ASSUME NEW w \in Workers, NEW k \in Keys, NEW raw \in Policies,
             BeginAllow(w, k, raw) \/ BeginPeek(w, k, raw)
      PROVE  Advance
  <2>1. \E label : pc[w] = "idle" /\ Moves(w, "idle", label)
    BY <1>7 DEF BeginAllow, BeginPeek, Goto, Moves
  <2>2. left' = left /\ \A v \in Workers : v # w => attempt'[v] = attempt[v]
    BY <1>0, <1>7 DEF BeginAllow, BeginPeek
  <2> QED
    BY <1>0, <1>2, <2>1, <2>2
<1>8. ASSUME NEW s \in Scanners, StartScan(s) PROVE Advance
  <2>1. pc[s] = "idle" /\ Moves(s, "idle", "range") /\ attempt' = attempt
    BY <1>8 DEF StartScan, Goto, Moves
  <2>2. \A r \in Scanners : r # s => left'[r] = left[r]
    BY <1>0, <1>8 DEF StartScan
  <2> QED
    BY <1>0, <1>2, <2>1, <2>2
<1>9. CASE UNCHANGED vars
  BY <1>1, <1>9 DEF vars
<1> QED
  BY <1>3, <1>4, <1>5, <1>6, <1>7, <1>8, <1>9 DEF Next

(***************************************************************************)
(* Allow is wait-free and Reset and cleanup end, as far as safety goes: a  *)
(* request makes at most 4 * MaxAttempts + 5 steps in Allow, whatever the  *)
(* others do, and a scan visits no key twice.                              *)
(***************************************************************************)
THEOREM MemoryCallsAdvance == Spec => CallsAdvance
<1> DEFINE Inv == TypeOK /\ Structure
<1>1. Init => Inv
  BY InitTypes
<1>2. Inv /\ [Next]_vars => Inv'
  BY NextTypes, NextStructure DEF Structure
<1>3. Inv /\ [Next]_vars => [Advance]_vars
  BY NextAdvances
<1> HIDE DEF Inv
<1> QED
  BY <1>1, <1>2, <1>3, PTL DEF Spec, CallsAdvance

(***************************************************************************)
(* Types are kept; in particular Allow makes at most MaxAttempts retries.  *)
(***************************************************************************)
THEOREM MemoryIsTyped == Spec => []TypeOK
  BY LiveEntryIsMapped, PTL

(***************************************************************************)
(* No admission is forgotten while it matters: what the live entry of a    *)
(* key holds are its latest admissions, and what prune, cleanup or a retry *)
(* has dropped is out of every window in use.                              *)
(***************************************************************************)
THEOREM MemoryForgetsNothing == Spec => []LogMatchesGranted
  BY MemoryKeepsWindows, PTL
=============================================================================
