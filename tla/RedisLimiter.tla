---------------------------- MODULE RedisLimiter ----------------------------
(***************************************************************************)
(* internal/limiter/redis.go: the limiter that every instance of the proxy *)
(* shares, one Redis sorted set per client key.                            *)
(*                                                                         *)
(* A request goroutine (Worker) of some instance stamps its call with its  *)
(* own clock and sends the script; Redis runs the script in one step,      *)
(* possibly after the caller has given up, and possibly again when the     *)
(* client library resends it after a broken connection.  Reset scans and   *)
(* deletes in batches.  Peek, ActiveKeys and Ping only read.               *)
(*                                                                         *)
(* The clock is the server's and counts milliseconds, as scores do.  A     *)
(* stamp is ahead of it by at most MaxAhead when it is read, and behind it *)
(* by at most MaxDelay when the script runs: the caller's skew and the     *)
(* time in transit together.                                               *)
(*                                                                         *)
(* granted and counted are history variables: the code has no such state.  *)
(***************************************************************************)
EXTENDS SlidingWindow

CONSTANTS
    Keys, Workers, Resetters,
    Home,        \* the instance each request goroutine belongs to
    Milli,       \* ticks of a policy's window per millisecond
    MaxAhead,    \* how far a caller's clock is ahead of the server's
    MaxSends     \* how often a command is sent at most

Instances == {Home[w] : w \in Workers}

\* Window.Milliseconds() cuts the fraction off.
WindowMS(p) == IF p.window \div Milli < 1 THEN 1 ELSE p.window \div Milli

ASSUME RedisAssumption ==
    /\ Keys # {}
    /\ Workers \cap Resetters = {}
    /\ DOMAIN Home = Workers
    /\ Milli \in Nat \ {0} /\ MaxAhead \in Nat /\ MaxSends \in Nat \ {0}
    /\ \A p \in Policies : ShortestWindow <= WindowMS(Normalize(p))

VARIABLES
    clock,      \* the server's time
    zset,       \* per key, the members of its sorted set with their scores
    expireAt,   \* per key, when PEXPIRE lets it expire
    seq,        \* per instance, RedisLimiter.seq
    pc,         \* "idle", "sent", "gone" (the caller has given up), "scan", "del"
    key,        \* Allow: the client key
    policy,     \* Allow: the normalised policy
    now,        \* Allow: ARGV[1], the caller's clock
    member,     \* Allow: ARGV[4]
    sends,      \* Allow: how often the script ran for this call
    left,       \* Reset: keys the cursor has not reached
    found,      \* Reset: keys the last SCAN returned
    granted,    \* per key, the calls admitted since its last Reset
    counted     \* Allow: this call is one of them

redis == <<zset, expireAt>>
call  == <<key, policy, now, member>>
ghost == <<granted, counted>>
vars  == <<clock, redis, seq, pc, call, sends, left, found, ghost>>

Init ==
    /\ clock = StartClock
    /\ zset = [k \in Keys |-> {}]
    /\ expireAt = [k \in Keys |-> StartClock]
    /\ seq = [i \in Instances |-> 0]
    /\ pc = [p \in Workers \cup Resetters |-> "idle"]
    /\ key = [w \in Workers |-> CHOOSE k \in Keys : TRUE]
    /\ policy = [w \in Workers |-> [limit |-> 1, window |-> DefaultWindow]]
    /\ now = [w \in Workers |-> StartClock]
    /\ member = [w \in Workers |-> [instance |-> Home[w], seq |-> 0]]
    /\ sends = [w \in Workers |-> 0]
    /\ left = [r \in Resetters |-> {}]
    /\ found = [r \in Resetters |-> {}]
    /\ granted = [k \in Keys |-> <<>>]
    /\ counted = [w \in Workers |-> FALSE]

Goto(p, label) == pc' = [pc EXCEPT ![p] = label]

Tick ==
    /\ clock < MaxClock
    /\ \A w \in Workers : pc[w] # "idle" => clock + 1 - now[w] <= MaxDelay
    /\ clock' = clock + 1
    /\ UNCHANGED <<redis, seq, pc, call, sends, left, found, ghost>>

-----------------------------------------------------------------------------
(***************************************************************************)
(* Allow: normalise, read the clock and draw a member.  The instance's     *)
(* random id and its counter tell members apart; the nanoseconds between   *)
(* them add nothing while the counter works.                               *)
(***************************************************************************)
\* Fault: two calls of an instance in the same tick share a member.
MemberOfTick(w, t) == [instance |-> Home[w], seq |-> t]

Member(w, t) == [instance |-> Home[w], seq |-> seq[Home[w]] + 1]

Send(w, k, raw, t) ==
    /\ pc[w] = "idle"
    /\ key' = [key EXCEPT ![w] = k]
    /\ policy' = [policy EXCEPT ![w] = Normalize(raw)]
    /\ now' = [now EXCEPT ![w] = t]
    /\ member' = [member EXCEPT ![w] = Member(w, t)]
    /\ seq' = [seq EXCEPT ![Home[w]] = @ + 1]
    /\ sends' = [sends EXCEPT ![w] = 0]
    /\ counted' = [counted EXCEPT ![w] = FALSE]
    /\ Goto(w, "sent")
    /\ UNCHANGED <<clock, redis, left, found, granted>>

-----------------------------------------------------------------------------
(* The script, for the call of w. *)

\* A key past its expiry is not there.
Live(k) == IF clock > expireAt[k] THEN {} ELSE zset[k]

\* Fault: a member exactly one window old still counts.
KeptTooLong(w) == {e \in Live(key[w]) : e.score >= now[w] - WindowMS(policy[w])}

\* ZREMRANGEBYSCORE key -inf (now - window): what stays.
Kept(w) == {e \in Live(key[w]) : e.score > now[w] - WindowMS(policy[w])}

Scores(set) == {e.score : e \in set}

Oldest(set) == CHOOSE s \in Scores(set) : \A r \in Scores(set) : s <= r

\* Fault: every execution adds a member of its own.
EntryPerSend(w) ==
    [score |-> now[w], member |-> [member[w] EXCEPT !.seq = MaxSends * @ + sends[w]]]

Entry(w) == [score |-> now[w], member |-> member[w]]

\* ZADD: a member that is already there keeps its place.
ZAdd(set, entry) == {e \in set : e.member # entry.member} \cup {entry}

\* Fault: the limit is compared with <= instead of <.
AllowsOneMore(w) == Cardinality(Kept(w)) <= policy[w].limit

Allows(w) == Cardinality(Kept(w)) < policy[w].limit

After(w) == IF Allows(w) THEN ZAdd(Kept(w), Entry(w)) ELSE Kept(w)

\* Fault: the slot is announced one tick too early.
ResetInEarly(w) == NonNegative(Oldest(After(w)) + WindowMS(policy[w]) - now[w] - 1)

\* reset_ms; the set is never empty here, because a limit is positive.
ResetIn(w) == NonNegative(Oldest(After(w)) + WindowMS(policy[w]) - now[w])

\* {allowed, used, reset_ms}: ResetAt is now + reset_ms, RetryAfter is reset_ms.
Reply(w) ==
    [allowed |-> Allows(w),
     used    |-> Cardinality(Kept(w)) + (IF Allows(w) THEN 1 ELSE 0),
     reset   |-> ResetIn(w)]

\* Fault: the window is passed in a coarser unit.
ExpiryCut(w) == clock + WindowMS(policy[w]) \div Milli

\* PEXPIRE key window.
Expiry(w) == clock + WindowMS(policy[w])

Admitted(w) ==
    [at |-> clock, stamp |-> now[w], limit |-> policy[w].limit, member |-> Entry(w).member]

RunScript(w) ==
    /\ pc[w] \in {"sent", "gone"}
    /\ sends[w] < MaxSends
    /\ sends' = [sends EXCEPT ![w] = @ + 1]
    /\ zset' = [zset EXCEPT ![key[w]] = After(w)]
    /\ expireAt' = [expireAt EXCEPT ![key[w]] = Expiry(w)]
    /\ counted' = [counted EXCEPT ![w] = @ \/ Allows(w)]
    /\ granted' = IF Allows(w) /\ ~counted[w]
                  THEN [granted EXCEPT ![key[w]] = Append(@, Admitted(w))]
                  ELSE granted
    /\ UNCHANGED <<clock, seq, pc, call, left, found>>

-----------------------------------------------------------------------------
\* The script's reply, the last one if it ran again, becomes the Decision.
Return(w) ==
    /\ pc[w] = "sent"
    /\ sends[w] > 0
    /\ Goto(w, "idle")
    /\ UNCHANGED <<clock, redis, seq, call, sends, left, found, ghost>>

\* ErrUnavailable, with the command perhaps still on its way ...
GiveUp(w) ==
    /\ pc[w] = "sent"
    /\ Goto(w, "gone")
    /\ UNCHANGED <<clock, redis, seq, call, sends, left, found, ghost>>

\* ... until it has run or is lost.
Vanish(w) ==
    /\ pc[w] = "gone"
    /\ Goto(w, "idle")
    /\ UNCHANGED <<clock, redis, seq, call, sends, left, found, ghost>>

-----------------------------------------------------------------------------
(***************************************************************************)
(* Reset: SCAN returns every key that is there throughout, in batches, and *)
(* each batch is deleted by one DEL.  An error ends it halfway.            *)
(***************************************************************************)
StartReset(r) ==
    /\ pc[r] = "idle"
    /\ left' = [left EXCEPT ![r] = Keys]
    /\ Goto(r, "scan")
    /\ UNCHANGED <<clock, redis, seq, call, sends, found, ghost>>

Scan(r, batch) ==
    /\ pc[r] = "scan"
    /\ found' = [found EXCEPT ![r] = {k \in batch : Live(k) # {}}]
    /\ left' = [left EXCEPT ![r] = @ \ batch]
    /\ Goto(r, "del")
    /\ UNCHANGED <<clock, redis, seq, call, sends, ghost>>

Del(r) ==
    /\ pc[r] = "del"
    /\ zset' = [k \in Keys |-> IF k \in found[r] THEN {} ELSE zset[k]]
    /\ granted' = [k \in Keys |-> IF k \in found[r] THEN <<>> ELSE granted[k]]
    /\ counted' = [w \in Workers |-> counted[w] /\ key[w] \notin found[r]]
    /\ Goto(r, IF left[r] = {} THEN "idle" ELSE "scan")
    /\ UNCHANGED <<clock, expireAt, seq, call, sends, left, found>>

ResetFails(r) ==
    /\ pc[r] \in {"scan", "del"}
    /\ Goto(r, "idle")
    /\ UNCHANGED <<clock, redis, seq, call, sends, left, found, ghost>>

Next ==
    \/ Tick
    \/ \E w \in Workers :
        \/ \E k \in Keys, raw \in Policies, t \in clock - MaxDelay .. clock + MaxAhead :
            Send(w, k, raw, t)
        \/ RunScript(w) \/ Return(w) \/ GiveUp(w) \/ Vanish(w)
    \/ \E r \in Resetters :
        \/ StartReset(r) \/ Del(r) \/ ResetFails(r)
        \/ \E batch \in SUBSET left[r] : Scan(r, batch)

Spec == Init /\ [][Next]_vars

-----------------------------------------------------------------------------
Members == [instance : Instances, seq : Nat]

Stamped == [score : Int, member : Members]

CountedAdmissions == [at : Nat, stamp : Int, limit : Nat, member : Members]

(***************************************************************************)
(* The types; in particular a policy is normalised before Redis sees it.   *)
(***************************************************************************)
TypeOK ==
    /\ clock \in Nat
    /\ \A k \in Keys : zset[k] \subseteq Stamped /\ IsFiniteSet(zset[k])
    /\ expireAt \in [Keys -> Nat]
    /\ seq \in [Instances -> Nat]
    /\ pc \in [Workers \cup Resetters -> {"idle", "sent", "gone", "scan", "del"}]
    /\ key \in [Workers -> Keys]
    /\ policy \in [Workers -> EnforcedPolicies]
    /\ now \in [Workers -> Int]
    /\ member \in [Workers -> Members]
    /\ sends \in [Workers -> 0 .. MaxSends]
    /\ left \in [Resetters -> SUBSET Keys]
    /\ found \in [Resetters -> SUBSET Keys]
    /\ granted \in [Keys -> Seq(CountedAdmissions)]
    /\ counted \in [Workers -> BOOLEAN]

(***************************************************************************)
(* "Every instance of the proxy sharing a Redis deployment enforces one    *)
(* global limit per client key" (RedisLimiter): looking back over less     *)
(* than a window from any admission of a key, there are no more of them    *)
(* than its limit, whichever instances took them.  By the server's clock   *)
(* the window is shorter by the callers' skew and delay.                   *)
(***************************************************************************)
WindowBound ==
    \A k \in Keys :
        AtMostLimitWithin(granted[k], ShortestWindow - MaxDelay - MaxAhead)

(***************************************************************************)
(* An admission keeps its member until it has left every window in use, by *)
(* the clock of the instance that is furthest ahead: neither a caller that *)
(* is ahead, nor PEXPIRE by the server's clock, nor another request's      *)
(* member makes the set forget it earlier.                                 *)
(***************************************************************************)
AdmissionsAreCounted ==
    \A k \in Keys : \A i \in DOMAIN granted[k] :
        \/ [score |-> granted[k][i].stamp, member |-> granted[k][i].member] \in Live(k)
        \/ granted[k][i].stamp <= clock + MaxAhead - ShortestWindow

(***************************************************************************)
(* However often a call's command is resent, and however late, it takes    *)
(* one slot, and no two calls share one: ARGV[4] is drawn once per call,   *)
(* so ZADD meets its own member and no other.                              *)
(***************************************************************************)
OneSlotPerCall ==
    \A k \in Keys :
        /\ \A i, j \in DOMAIN granted[k] :
            granted[k][i].member = granted[k][j].member => i = j
        /\ \A e \in Live(k) :
            \E i \in DOMAIN granted[k] : granted[k][i].member = e.member

\* The script will run for the call of w, perhaps not for the first time.
Pending(w) == pc[w] = "sent" /\ sends[w] < MaxSends

(***************************************************************************)
(* A refused client is told to come back later, never at once and never    *)
(* after more than a window and what clocks may differ (the script's       *)
(* reset_ms, which becomes RetryAfter).                                    *)
(***************************************************************************)
RetryAfterBounded ==
    \A w \in Workers : Pending(w) /\ ~Reply(w).allowed =>
        Reply(w).reset \in 1 .. WindowMS(policy[w]) + MaxDelay + MaxAhead

(***************************************************************************)
(* "The window frees a slot when its oldest member expires" (the script):  *)
(* a client refused now finds a slot at ResetAt if nobody else takes it,   *)
(* by whichever clock the members of the set were stamped.  Under one      *)
(* policy.                                                                 *)
(***************************************************************************)
ResetFreesSlot ==
    \A w \in Workers : Pending(w) /\ ~Reply(w).allowed =>
        LET again == now[w] + Reply(w).reset IN
        Cardinality({e \in Kept(w) : e.score > again - WindowMS(policy[w])})
            < policy[w].limit
=============================================================================
