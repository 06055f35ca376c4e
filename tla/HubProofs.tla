----------------------------- MODULE HubProofs -----------------------------
(***************************************************************************)
(* Channel safety and frame accounting of the hub, for any number of       *)
(* connections and frames and any buffer.                                  *)
(*                                                                         *)
(* What makes NoPanic inductive is that a channel is open exactly as long  *)
(* as it is registered: the one place that closes a channel also takes it  *)
(* out of subs, under the same lock, and a Broadcast only has subscribers  *)
(* left to send to because it keeps that lock shared.                      *)
(* FramesAccounted outlives the registration, because the hub is closed by *)
(* the broadcaster on its way out, after the last frame.                   *)
(***************************************************************************)
EXTENDS Hub, TLAPS

Labels == {"new", "first", "select", "write", "leave", "done"}

Types ==
    /\ subs \subseteq Conns /\ closed \subseteq Conns
    /\ pc \in [Conns -> Labels]
    /\ queued \in [Conns -> Nat] /\ dropped \in [Conns -> Nat] /\ seen \in [Conns -> Nat]
    /\ frames \in Nat

\* A stream's channel is registered until it is closed, and a new one is pristine.
Registered ==
    /\ \A c \in Conns : pc[c] # "new" => c \in subs \/ c \in closed
    /\ \A c \in Conns : pc[c] = "new" =>
        c \notin subs /\ c \notin closed /\ queued[c] = 0 /\ dropped[c] = 0

\* Whoever a Broadcast still has to reach is registered: nobody leaves meanwhile.
ReadersLock == todo \subseteq subs /\ (~sending => todo = {})

\* A stream loses its registration only to Close, after which nothing is sent.
Closing ==
    /\ hubClosed => exited
    /\ \A c \in Conns : pc[c] \notin {"new", "done"} => c \in subs \/ exited

HubInv == Types /\ Registered /\ ReadersLock /\ Closing /\ NoPanic /\ FramesAccounted

-----------------------------------------------------------------------------
LEMMA InitHub == Init => HubInv
<1> SUFFICES ASSUME Init PROVE HubInv
  OBVIOUS
<1>1. Types
  BY DEF Init, Types, Labels
<1>2. Registered /\ ReadersLock /\ Closing /\ NoPanic
  BY DEF Init, Registered, ReadersLock, Closing, NoPanic
<1>3. FramesAccounted
  BY HubAssumption DEF Init, FramesAccounted
<1> QED
  BY <1>1, <1>2, <1>3 DEF HubInv

\* A step of a handler, or of its client, that leaves the hub alone.
LEMMA MovesKeep ==
    ASSUME HubInv, NEW c \in Conns, NEW label \in Labels \ {"new", "done"},
           pc[c] \notin {"new", "done"}, Goto(c, label),
           UNCHANGED <<hub, frames, sending, todo, exited>>
    PROVE  HubInv'
<1>1. Types' /\ Registered' /\ ReadersLock' /\ Closing'
  BY DEF HubInv, Types, Registered, ReadersLock, Closing, Goto, hub
<1>2. NoPanic'
  BY DEF HubInv, Types, NoPanic, Goto, hub
<1>3. FramesAccounted'
  BY DEF HubInv, Types, FramesAccounted, Goto, hub
<1> QED
  BY <1>1, <1>2, <1>3 DEF HubInv

LEMMA SubscribeKeeps ==
    ASSUME HubInv, NEW c \in Conns, Subscribe(c)
    PROVE  HubInv'
<1>1. /\ pc[c] = "new" /\ ~sending /\ pc' = [pc EXCEPT ![c] = "first"]
      /\ seen' = [seen EXCEPT ![c] = frames]
      /\ UNCHANGED <<frames, sending, todo, exited, hubClosed, queued, dropped>>
  BY DEF Subscribe, Goto, tower
<1>2. /\ c \notin subs /\ c \notin closed /\ queued[c] = 0 /\ dropped[c] = 0 /\ todo = {}
  BY <1>1 DEF HubInv, Registered, ReadersLock
<1>3. /\ ~panicked'
      /\ \/ subs' = subs /\ closed' = closed \cup {c} /\ hubClosed
         \/ subs' = subs \cup {c} /\ closed' = closed
  BY <1>2 DEF Subscribe, CloseChans, HubInv, NoPanic
<1>4. Types'
  BY <1>1, <1>3 DEF HubInv, Types, Labels
<1>5. Registered' /\ ReadersLock' /\ Closing'
  BY <1>1, <1>2, <1>3 DEF HubInv, Types, Registered, ReadersLock, Closing
<1>6. NoPanic'
  BY <1>1, <1>2, <1>3 DEF HubInv, Types, NoPanic
<1>7. FramesAccounted'
  <2>1. ASSUME NEW d \in Conns, d # c
        PROVE  pc'[d] = pc[d] /\ seen'[d] = seen[d]
    BY <1>1, <2>1 DEF HubInv, Types
  <2>2. seen'[c] = frames
    BY <1>1 DEF HubInv, Types
  <2> QED
    BY <1>1, <1>2, <2>1, <2>2 DEF HubInv, Types, FramesAccounted
<1> QED
  BY <1>4, <1>5, <1>6, <1>7 DEF HubInv

LEMMA ReceiveKeeps ==
    ASSUME HubInv, NEW c \in Conns, Receive(c)
    PROVE  HubInv'
<1>1. /\ pc[c] = "select" /\ queued[c] > 0 /\ pc' = [pc EXCEPT ![c] = "write"]
      /\ queued' = [queued EXCEPT ![c] = queued[c] - 1]
      /\ seen' = [seen EXCEPT ![c] = seen[c] + 1]
      /\ UNCHANGED <<subs, hubClosed, closed, dropped, panicked, frames, sending, todo, exited>>
  BY DEF Receive, Goto, tower
<1>2. Types'
  BY <1>1 DEF HubInv, Types, Labels
<1>3. Registered' /\ ReadersLock' /\ Closing' /\ NoPanic'
  BY <1>1 DEF HubInv, Types, Registered, ReadersLock, Closing, NoPanic
<1>4. FramesAccounted'
  <2>1. queued'[c] = queued[c] - 1 /\ seen'[c] = seen[c] + 1
    BY <1>1 DEF HubInv, Types
  <2>2. \A d \in Conns : d # c =>
          pc'[d] = pc[d] /\ queued'[d] = queued[d] /\ seen'[d] = seen[d]
    BY <1>1 DEF HubInv, Types
  <2> QED
    BY <1>1, <2>1, <2>2, HubAssumption DEF HubInv, Types, FramesAccounted
<1> QED
  BY <1>2, <1>3, <1>4 DEF HubInv

LEMMA UnsubscribeKeeps ==
    ASSUME HubInv, NEW c \in Conns, Unsubscribe(c)
    PROVE  HubInv'
<1>1. /\ pc[c] = "leave" /\ ~sending /\ pc' = [pc EXCEPT ![c] = "done"]
      /\ UNCHANGED <<frames, sending, todo, exited, hubClosed, queued, dropped, seen>>
  BY DEF Unsubscribe, Leaves, Goto, tower
<1>2. todo = {} /\ (c \in subs => c \notin closed) /\ (c \notin subs => c \in closed)
  BY <1>1 DEF HubInv, ReadersLock, NoPanic, Registered
<1>3. ~panicked' /\ subs' = subs \ {c} /\ closed' = closed \cup {c}
  BY <1>2 DEF Unsubscribe, CloseChans, HubInv, NoPanic
<1>4. Types'
  BY <1>1, <1>3 DEF HubInv, Types, Labels
<1>5. Registered' /\ ReadersLock' /\ Closing' /\ NoPanic'
  BY <1>1, <1>2, <1>3 DEF HubInv, Types, Registered, ReadersLock, Closing, NoPanic
<1>6. FramesAccounted'
  BY <1>1, <1>3 DEF HubInv, Types, FramesAccounted
<1> QED
  BY <1>4, <1>5, <1>6 DEF HubInv

LEMMA SendKeeps ==
    ASSUME HubInv, NEW c \in Conns, Send(c)
    PROVE  HubInv'
<1>1. /\ sending /\ c \in todo /\ todo' = todo \ {c}
      /\ UNCHANGED <<subs, hubClosed, closed, pc, frames, sending, exited, seen>>
  BY DEF Send, SendTo
<1>2. c \in subs /\ c \notin closed
  BY <1>1 DEF HubInv, ReadersLock, NoPanic
<1>3. ~panicked'
  BY <1>2 DEF Send, SendTo, HubInv, NoPanic
<1>4. queued[c] \in Nat /\ dropped[c] \in Nat /\ seen[c] \in Nat /\ frames \in Nat
  BY DEF HubInv, Types
<1>5. \/ /\ queued[c] < Buffer /\ queued' = [queued EXCEPT ![c] = queued[c] + 1]
         /\ dropped' = dropped
      \/ dropped' = [dropped EXCEPT ![c] = dropped[c] + 1] /\ queued' = queued
  BY DEF Send, HasRoom
<1>6. Types'
  BY <1>1, <1>4, <1>5 DEF HubInv, Types
<1>7. Registered' /\ ReadersLock' /\ Closing' /\ NoPanic'
  <2>1. pc[c] # "new"
    BY <1>2 DEF HubInv, Registered
  <2>2. \A d \in Conns : d # c => queued'[d] = queued[d] /\ dropped'[d] = dropped[d]
    BY <1>5 DEF HubInv, Types
  <2> QED
    BY <1>1, <1>3, <2>1, <2>2 DEF HubInv, Registered, ReadersLock, Closing, NoPanic
<1>8. FramesAccounted'
  <2>1. \A d \in Conns : d # c =>
          /\ queued'[d] = queued[d] /\ dropped'[d] = dropped[d] /\ seen'[d] = seen[d]
          /\ d \in todo' <=> d \in todo
    BY <1>1, <1>5 DEF HubInv, Types
  <2>2. frames = seen[c] + queued[c] + dropped[c] + 1 /\ queued[c] <= Buffer
    BY <1>1, <1>2 DEF HubInv, Types, NoPanic, FramesAccounted
  <2>3. queued'[c] <= Buffer /\ frames = seen[c] + queued'[c] + dropped'[c] + 0
    <3>1. CASE queued[c] < Buffer /\ queued' = [queued EXCEPT ![c] = queued[c] + 1]
               /\ dropped' = dropped
      <4>1. queued'[c] = queued[c] + 1 /\ dropped'[c] = dropped[c]
        BY <3>1 DEF HubInv, Types
      <4> QED
        BY <1>4, <2>2, <3>1, <4>1, HubAssumption
    <3>2. CASE dropped' = [dropped EXCEPT ![c] = dropped[c] + 1] /\ queued' = queued
      <4>1. queued'[c] = queued[c] /\ dropped'[c] = dropped[c] + 1
        BY <3>2 DEF HubInv, Types
      <4> QED
        BY <1>4, <2>2, <3>2, <4>1, HubAssumption
    <3> QED
      BY <1>5, <3>1, <3>2
  <2> QED
    BY <1>1, <2>1, <2>3 DEF HubInv, FramesAccounted
<1> QED
  BY <1>6, <1>7, <1>8 DEF HubInv

\* The broadcaster's own steps.
LEMMA BroadcasterKeeps ==
    ASSUME HubInv, Broadcast \/ BroadcastEnd \/ CloseHub
    PROVE  HubInv'
<1>1. CASE Broadcast
  <2>1. todo = {} /\ todo' = subs /\ sending' /\ frames' = frames + 1
        /\ ~exited /\ UNCHANGED <<hub, pc, exited>>
    BY <1>1 DEF Broadcast, HubInv, ReadersLock
  <2>2. Types' /\ Registered' /\ ReadersLock' /\ Closing' /\ NoPanic'
    BY <2>1 DEF HubInv, Types, Registered, ReadersLock, Closing, NoPanic, hub
  <2>3. FramesAccounted'
    <3>1. \A c \in Conns : pc[c] \notin {"new", "done"} => c \in subs
      BY <2>1 DEF HubInv, Closing
    <3> QED
      BY <2>1, <3>1 DEF HubInv, Types, FramesAccounted, hub
  <2> QED
    BY <2>2, <2>3 DEF HubInv
<1>2. CASE BroadcastEnd
  <2>1. todo = {} /\ UNCHANGED <<hub, pc, frames, todo, exited>>
    BY <1>2 DEF BroadcastEnd
  <2> QED
    BY <2>1 DEF HubInv, Types, Registered, ReadersLock, Closing, NoPanic, FramesAccounted, hub
<1>3. CASE CloseHub
  <2>0. todo = {} /\ subs \cap closed = {} /\ ~panicked
    <3>1. ~panicked /\ (~sending => todo = {}) /\ \A c \in subs : c \notin closed
      BY DEF HubInv, ReadersLock, NoPanic
    <3> QED
      BY <1>3, <3>1 DEF CloseHub
  <2>1. /\ todo = {} /\ subs' = {} /\ closed' = closed \cup subs /\ subs \cap closed = {}
        /\ ~panicked' /\ exited' /\ UNCHANGED <<queued, dropped, pc, frames, sending, todo, seen>>
    BY <1>3, <2>0 DEF CloseHub, CloseChans
  <2>2. Types' /\ Registered' /\ ReadersLock' /\ Closing' /\ NoPanic'
    BY <2>1 DEF HubInv, Types, Registered, ReadersLock, Closing, NoPanic
  <2>3. FramesAccounted'
    BY <2>1 DEF HubInv, FramesAccounted
  <2> QED
    BY <2>2, <2>3 DEF HubInv
<1> QED
  BY <1>1, <1>2, <1>3

LEMMA NextHub == HubInv /\ [Next]_vars => HubInv'
<1> SUFFICES ASSUME HubInv, [Next]_vars PROVE HubInv'
  OBVIOUS
<1>1. ASSUME UNCHANGED <<hub, pc, frames, sending, todo, exited>> PROVE HubInv'
  BY <1>1 DEF HubInv, Types, Registered, ReadersLock, Closing, NoPanic, FramesAccounted, hub
<1>2. CASE Cancel \/ UNCHANGED vars
  BY <1>1, <1>2 DEF Cancel, vars, tower
<1>3. ASSUME NEW c \in Conns, Stall(c) \/ Resume(c) \/ GoAway(c) PROVE HubInv'
  BY <1>1, <1>3 DEF Stall, Resume, GoAway, tower
<1>4. ASSUME NEW c \in Conns,
             WriteOk(c) \/ WriteFails(c) \/ SeesDone(c) \/ KeepAlive(c) \/ SeesClose(c)
      PROVE  HubInv'
  <2>1. "select" \in Labels \ {"new", "done"} /\ "write" \in Labels \ {"new", "done"}
        /\ "leave" \in Labels \ {"new", "done"}
    BY DEF Labels
  <2>2. \E label \in Labels \ {"new", "done"} : Goto(c, label)
    BY <1>4, <2>1 DEF WriteOk, WriteFails, SeesDone, KeepAlive, SeesClose, Moves
  <2>3. pc[c] \notin {"new", "done"} /\ UNCHANGED <<hub, frames, sending, todo, exited>>
    BY <1>4 DEF WriteOk, WriteFails, SeesDone, KeepAlive, SeesClose, Moves, tower
  <2> QED
    BY <2>2, <2>3, MovesKeep
<1>5. ASSUME NEW c \in Conns, Subscribe(c) \/ Receive(c) \/ Unsubscribe(c) \/ Send(c)
      PROVE  HubInv'
  BY <1>5, SubscribeKeeps, ReceiveKeeps, UnsubscribeKeeps, SendKeeps
<1> QED
  BY <1>2, <1>3, <1>4, <1>5, BroadcasterKeeps DEF Next, StreamStep, Notices

(***************************************************************************)
(* hub.go never closes a channel twice and never sends on a closed one,    *)
(* whatever Subscribe, Unsubscribe, Broadcast and Close of any number of   *)
(* streams do to each other, and a stream that ended is not registered.    *)
(***************************************************************************)
THEOREM HubNeverPanics == Spec => []NoPanic
<1>1. HubInv => NoPanic
  BY DEF HubInv
<1> QED
  BY <1>1, InitHub, NextHub, PTL DEF Spec

(***************************************************************************)
(* Every frame broadcast during a client's stream was received, is in its  *)
(* queue or is counted in Dropped, also across the hub's Close, and no     *)
(* queue outgrows its buffer.                                              *)
(***************************************************************************)
THEOREM HubAccountsForFrames == Spec => []FramesAccounted
<1>1. HubInv => FramesAccounted
  BY DEF HubInv
<1> QED
  BY <1>1, InitHub, NextHub, PTL DEF Spec
=============================================================================
