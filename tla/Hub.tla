-------------------------------- MODULE Hub --------------------------------
(***************************************************************************)
(* internal/metrics/hub.go and internal/api/sse.go: the fan-out of stats   *)
(* frames to the dashboards.  The Broadcaster sends a frame per tick until *)
(* its context is cancelled and then closes the hub; every connection has  *)
(* a handleStream goroutine that subscribes, writes what it receives and   *)
(* unsubscribes when it leaves.                                            *)
(*                                                                         *)
(* Broadcast holds the read lock from its first send to its last, so       *)
(* Subscribe, Unsubscribe and Close, under the write lock, are single      *)
(* steps that wait for it.  Frames are only counted.  Sending on a closed  *)
(* channel, or closing one again, panics.                                  *)
(***************************************************************************)
EXTENDS Integers, Sequences, FiniteSets

CONSTANTS
    Conns,      \* connections, each opened at most once
    Buffer,     \* frames a subscriber's channel holds
    MaxFrames   \* bound on broadcasts

ASSUME HubAssumption == Buffer \in Nat \ {0} /\ MaxFrames \in Nat

VARIABLES
    subs,       \* registered subscribers
    hubClosed,
    queued,     \* frames in each subscriber's channel
    closed,     \* channels that are closed
    dropped,
    pc,         \* where each handleStream is
    gone,       \* connections whose request context is done
    hung,       \* connections whose client does not read: Write blocks
    frames,     \* frames broadcast
    sending,    \* a Broadcast holds the read lock
    todo,       \* the subscribers it has not reached yet
    cancelled,  \* the Broadcaster's context is done
    exited,     \* the Broadcaster has returned
    panicked,
    seen        \* history: frames before the subscriber joined or received by it

hub     == <<subs, hubClosed, queued, closed, dropped, panicked, seen>>
clients == <<gone, hung>>
tower   == <<frames, sending, todo, cancelled, exited>>
vars    == <<hub, clients, tower, pc>>

Init ==
    /\ subs = {} /\ hubClosed = FALSE
    /\ queued = [c \in Conns |-> 0] /\ closed = {}
    /\ dropped = [c \in Conns |-> 0]
    /\ pc = [c \in Conns |-> "new"]
    /\ gone = {} /\ hung = {}
    /\ frames = 0 /\ sending = FALSE /\ todo = {}
    /\ cancelled = FALSE /\ exited = FALSE /\ panicked = FALSE
    /\ seen = [c \in Conns |-> 0]

Goto(c, label) == pc' = [pc EXCEPT ![c] = label]

\* A step of the handler that touches nothing but itself.
Moves(c, label) == Goto(c, label) /\ UNCHANGED <<hub, clients, tower>>

\* close(ch) of every channel in C.
CloseChans(C) ==
    /\ closed' = closed \cup C
    /\ panicked' = (panicked \/ C \cap closed # {})

-----------------------------------------------------------------------------
(* The environment: browsers stall, resume and go away; the server stops. *)

Stall(c) ==
    /\ pc[c] \in {"first", "select", "write"} /\ c \notin hung
    /\ hung' = hung \cup {c}
    /\ UNCHANGED <<hub, tower, pc, gone>>

Resume(c) ==
    /\ c \in hung
    /\ hung' = hung \ {c}
    /\ UNCHANGED <<hub, tower, pc, gone>>

GoAway(c) ==
    /\ pc[c] \in {"first", "select", "write"} /\ c \notin gone
    /\ gone' = gone \cup {c} /\ hung' = hung \ {c}
    /\ UNCHANGED <<hub, tower, pc>>

Cancel ==
    /\ ~cancelled
    /\ cancelled' = TRUE
    /\ UNCHANGED <<hub, clients, pc, frames, sending, todo, exited>>

-----------------------------------------------------------------------------
(* handleStream *)

\* A closed hub hands out a subscriber whose channel is closed already.
Subscribe(c) ==
    /\ pc[c] = "new" /\ ~sending
    /\ IF hubClosed THEN CloseChans({c}) /\ UNCHANGED subs
       ELSE subs' = subs \cup {c} /\ UNCHANGED <<closed, panicked>>
    /\ seen' = [seen EXCEPT ![c] = frames]
    /\ Goto(c, "first")
    /\ UNCHANGED <<clients, tower, hubClosed, queued, dropped>>

\* Write and Flush, of the first frame and of every later one.
WriteOk(c) ==
    /\ pc[c] \in {"first", "write"} /\ c \notin hung
    /\ Moves(c, "select")

WriteFails(c) ==
    /\ pc[c] \in {"first", "write"} /\ c \in gone
    /\ Moves(c, "leave")

\* The select: the request is over, the keepalive ticks, a frame, or the close.
SeesDone(c) ==
    /\ pc[c] = "select" /\ c \in gone
    /\ Moves(c, "leave")

KeepAlive(c) ==
    /\ pc[c] = "select"
    /\ Moves(c, "write")

Receive(c) ==
    /\ pc[c] = "select" /\ queued[c] > 0
    /\ queued' = [queued EXCEPT ![c] = @ - 1]
    /\ seen' = [seen EXCEPT ![c] = @ + 1]
    /\ Goto(c, "write")
    /\ UNCHANGED <<clients, tower, subs, hubClosed, closed, dropped, panicked>>

SeesClose(c) ==
    /\ pc[c] = "select" /\ queued[c] = 0 /\ c \in closed
    /\ Moves(c, "leave")

Leaves(c) ==
    /\ pc[c] = "leave" /\ ~sending
    /\ Goto(c, "done")
    /\ UNCHANGED <<clients, tower, hubClosed, queued, dropped, seen>>

\* Fault: the channel is closed whether or not the hub still knows it.
UnsubscribeAlways(c) == Leaves(c) /\ subs' = subs \ {c} /\ CloseChans({c})

Unsubscribe(c) ==
    /\ Leaves(c)
    /\ IF c \in subs THEN subs' = subs \ {c} /\ CloseChans({c})
       ELSE UNCHANGED <<subs, closed, panicked>>

-----------------------------------------------------------------------------
(* StartBroadcaster *)

Broadcast ==
    /\ ~sending /\ ~exited /\ frames < MaxFrames
    /\ frames' = frames + 1
    /\ sending' = TRUE /\ todo' = subs
    /\ UNCHANGED <<hub, clients, pc, cancelled, exited>>

HasRoom(c) == queued[c] < Buffer

SendTo(c) ==
    /\ sending /\ c \in todo
    /\ todo' = todo \ {c}
    /\ panicked' = (panicked \/ c \in closed)
    /\ UNCHANGED <<clients, subs, hubClosed, closed, pc, frames, sending, cancelled, exited, seen>>

\* Fault: Broadcast waits for room.
SendBlocking(c) ==
    /\ SendTo(c) /\ HasRoom(c)
    /\ queued' = [queued EXCEPT ![c] = @ + 1]
    /\ UNCHANGED dropped

\* Fault: a full queue gives up its oldest frame, and nobody counts it.
SendNewest(c) ==
    /\ SendTo(c)
    /\ queued' = [queued EXCEPT ![c] = IF HasRoom(c) THEN @ + 1 ELSE @]
    /\ UNCHANGED dropped

Send(c) ==
    /\ SendTo(c)
    /\ \/ HasRoom(c) /\ queued' = [queued EXCEPT ![c] = @ + 1] /\ UNCHANGED dropped
       \/ ~HasRoom(c) /\ dropped' = [dropped EXCEPT ![c] = @ + 1] /\ UNCHANGED queued

BroadcastEnd ==
    /\ sending /\ todo = {}
    /\ sending' = FALSE
    /\ UNCHANGED <<hub, clients, pc, frames, todo, cancelled, exited>>

\* ctx.Done: Close the hub and return.
CloseHub ==
    /\ cancelled /\ ~sending /\ ~exited
    /\ hubClosed' = TRUE /\ exited' = TRUE
    /\ CloseChans(subs) /\ subs' = {}
    /\ UNCHANGED <<clients, queued, dropped, pc, frames, sending, todo, cancelled, seen>>

-----------------------------------------------------------------------------
StreamStep(c) == WriteOk(c) \/ WriteFails(c) \/ Unsubscribe(c)
Notices(c)    == SeesDone(c) \/ Receive(c) \/ SeesClose(c)

Next ==
    \/ Cancel
    \/ \E c \in Conns :
        \/ Stall(c) \/ Resume(c) \/ GoAway(c)
        \/ Subscribe(c) \/ StreamStep(c) \/ Notices(c) \/ KeepAlive(c)
        \/ Send(c)
    \/ Broadcast \/ BroadcastEnd \/ CloseHub

Spec == Init /\ [][Next]_vars

(***************************************************************************)
(* Goroutines that can run do; a goroutine waiting for the lock gets it in *)
(* the end; select picks at random among what is ready, so neither ticker  *)
(* can hide another case for ever.  Nothing makes a stalled client resume. *)
(***************************************************************************)
FairSpec ==
    /\ Spec
    /\ \A c \in Conns :
        /\ WF_vars(WriteOk(c) \/ WriteFails(c)) /\ SF_vars(Unsubscribe(c))
        /\ SF_vars(Notices(c)) /\ WF_vars(Send(c))
    /\ WF_vars(BroadcastEnd) /\ SF_vars(CloseHub)

-----------------------------------------------------------------------------
(***************************************************************************)
(* Unsubscribe "removes a client and closes its channel exactly once": the *)
(* handler and the hub may both want to close a channel, and Broadcast     *)
(* sends on it from a third goroutine, yet none is closed twice or sent on *)
(* when closed, and a stream that is over leaves nothing registered.       *)
(***************************************************************************)
NoPanic ==
    /\ ~panicked
    /\ \A c \in subs : c \notin closed /\ pc[c] \notin {"new", "done"}
    /\ \A c \in Conns : pc[c] = "done" => c \in closed

(***************************************************************************)
(* Dropped "counts frames skipped because this client could not keep up":  *)
(* as long as its stream lasts, every frame broadcast since a client       *)
(* subscribed has been received, waits in its queue, or was counted as     *)
(* dropped, also when the hub was closed in between, and the queue never   *)
(* outgrows its buffer.                                                    *)
(***************************************************************************)
FramesAccounted ==
    \A c \in Conns :
        /\ queued[c] <= Buffer
        /\ pc[c] \notin {"new", "done"} =>
            frames = seen[c] + queued[c] + dropped[c] + (IF c \in todo THEN 1 ELSE 0)

(***************************************************************************)
(* "a slow client loses frames rather than stalling the broadcaster" (Hub) *)
(* and "Further Subscribe calls return a closed subscriber so handlers     *)
(* exit immediately" (Close): once the server is stopping the Broadcaster  *)
(* returns, however many clients are stalled, and every stream ends whose  *)
(* own client is not: handleStream clears the write deadline, so nothing   *)
(* ends a Write to a client that never reads.                              *)
(***************************************************************************)
ShutdownEnds ==
    /\ cancelled ~> exited
    /\ \A c \in Conns :
        cancelled /\ pc[c] # "new" ~> pc[c] = "done" \/ c \in hung
=============================================================================
