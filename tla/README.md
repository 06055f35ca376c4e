# A TLA+ model of the rate-limiting reverse proxy

The system is a reverse proxy that counts every request against its client's
key and refuses it when the key has used up its limit inside a sliding window.
Counts live in Redis and are shared by all proxy instances; when Redis is
unreachable each instance falls back to counters of its own. A dashboard shows
live statistics and lets an operator change the policy or the upstream.

This directory holds the specification of every part with state of its own, the
TLC runs that check it on small instances, and TLAPS proofs of the safety of
every part for instances of any size. `internal/proxy` and `cmd/proxy`, which
other packages import, are not in the source tree; requests are therefore the
environment of every module.

## 1. The parts of the system

| part | state | operations | interacts with | hard behaviour |
| --- | --- | --- | --- | --- |
| sliding-window decision (`limiter/limiter.go`, `memEntry` in `memory.go`) | a log of stamps | `Normalize`, `prune`, the decision, `deny` | used by both limiters | boundaries; a log that is not sorted |
| in-memory limiter (`limiter/memory.go`) | `sync.Map` of entries with `hits`, `window`, `dead`, `lastSeen` | `Allow`, `Peek`, `Reset`, `cleanup`, `Close` | called by the manager and by the API's reset | entries retired under a request; clocks read before locks; retries |
| manager (`limiter/manager.go`) | `failures`, `openUntil`, `lastErr` under a mutex; `redisHealthy`, `degraded` atomics; the policy | `AllowPolicy`, `tryPrimary`, `recordSuccess`, `recordFailure`, `probeLoop`, `SetPolicy`, `Close` | calls Redis, then the in-memory limiter | late verdicts, flags stored after the unlock, half-open probes, recovery |
| Redis limiter (`limiter/redis.go`) | one sorted set per key in Redis | the Lua script, `Peek`, `ActiveKeys`, `Ping`, `Reset` | shared by all instances | lost replies, clock skew, expiry |
| policy and upstream store (`limiter/policystore.go`, `upstreamstore.go`) | a document in Redis and a broadcast channel | `Load`, `Save`, `Watch` | API saves, watchers apply | SET and PUBLISH of two instances interleave; lost broadcasts |
| control-plane API (`api/api.go`) | none of its own | `handlePolicySet`, `handleClientsReset`, `handleUpstreamSet` | manager, stores, collector | read-modify-write without a lock; resets in several steps |
| metrics collector (`metrics/metrics.go`) | counters, a ring of one-second buckets, a table of clients | `Record`, `Snapshot`, `Sweep`, `ResetClients` | the proxy records, the broadcaster reads and sweeps | torn snapshots; check then delete; the cap of the table |
| SSE hub and broadcaster (`metrics/hub.go`, `api/sse.go`) | set of subscribers with bounded channels | `Subscribe`, `Unsubscribe`, `Broadcast`, `Close` | stream handlers read the channels | send on, or double close of, a closed channel; shutdown |
| authentication, configuration, dashboard assets, devredis | none that changes | | | none |

What makes each part correct:

- *in-memory limiter*: of the counted admissions of a key never more than the
  limit fall into one window; no request is counted where it cannot be seen; a
  refused client learns a time that works; every call returns.
- *manager*: the breaker's fields agree; an open circuit is probed by one
  request at a time; every request is decided; the breaker recovers without
  traffic; what `Degraded` reports is true.
- *Redis limiter*: the same promise as the in-memory limiter, fleet-wide, up to
  clock skew.
- *stores and API*: all instances end up with the policy that is stored; no
  update is lost.
- *collector*: per-client sums agree with the totals; the table is bounded and
  keeps the recent clients.
- *hub*: no send on a closed channel, one close per channel, a slow subscriber
  stalls nobody, every stream ends at shutdown.

## 2. Modules

| module | models | state and actions |
| --- | --- | --- |
| `SlidingWindow` | the pure part: `Policy.Normalize`, `memEntry.prune`, the decision | operators only; `Prune` takes out the longest expired prefix, as the scan does |
| `WindowLog` | abstract specification of a limiter | one log per key; `Grant`, `Deny`, `Trim`, `Forget`, `Clear` |
| `MemoryLimiter` | `memory.go` | the map, the heap of entries and the locals of every goroutine; one action per `sync.Map` operation, atomic store or lock section |
| `MCMemoryLimiter` | | policies, symmetry and the view for TLC |
| `RedisLimiter` | `redis.go` | the sorted sets with their expiry, the calls in flight, the scans; the Lua script is one action |
| `MCRedisLimiter` | | policies, symmetry and the view for TLC |
| `Manager` | `manager.go` | the breaker, the flags, the calls in flight, Redis as an environment that is up or down |
| `Failover`, `MCFailover` | `AllowPolicy` end to end, `handleClientsReset` | extends `Manager` with what the two backends have counted and answered |
| `Fleet`, `MCFleet` | `policystore.go`, `upstreamstore.go`, `handlePolicySet`, `handleUpstreamSet` | what each instance runs with, the stored documents, the broadcasts on their way, the admin requests in progress |
| `Collector`, `MCCollector` | `metrics.go` | the atomics, the ring, the client table and its rows, the locals of `Record`, `Snapshot`, `Sweep` and `ResetClients` |
| `Hub` | `hub.go`, `sse.go` | subscribers, their channels, the stream handlers, the broadcaster and its shutdown |
| `SlidingWindowProofs`, `WindowLogProofs`, `MemoryLimiterProofs`, `RedisLimiterProofs`, `ManagerProofs` (with `Failover`), `FleetProofs`, `CollectorProofs`, `HubProofs` | | theorems and their lemmas |

`MemoryLimiter` follows the code's control flow. `Allow` is `BeginAllow` (the
clock is read), `LoadHit` or `LoadMiss` (`LoadOrStore`), `StoreLastSeen` (outside
the lock), then one of the lock sections `MeetDead`, `Admit` and `Refuse`; after
`MeetDead` the entry is removed and the call starts over (`Retry`) or, on the
last attempt, decides on a detached entry (`AdmitDetached`). `Reset` and
`cleanup` are scans: `StartScan`, then per key `Visit`, a lock section
(`ResetMark`, `Evict` or `CleanupPrune`) and `ScanDelete`. Entry identities are
taken from a finite set and reused when nothing refers to them. Two history
variables record what no field of the code does: `granted`, the counted
admissions of a key with the instants at which they were made, and `kills`, how
often a key was retired during a call. The `evictions` counter and the
re-allocation in `prune` are left out: no decision reads them.

In `RedisLimiter` a call is `Send` (the caller's clock is read and a member drawn),
any number of `RunScript` up to `MaxSends`, and `Return`, or `GiveUp` when the
caller's context ends first: the script may then still run. Redis is external and
modelled by what the code relies on: a script runs alone, a key past its expiry is
absent, `ZADD` overwrites a member of the same name, and the client library may
send a command again after a broken connection. The clock counts milliseconds;
`WindowMS` cuts a policy's window to them, as the code does. `Reset` is `Scan` and
`Del` per batch, and `ResetFails` at any point. `Peek`, `ActiveKeys` and `Ping`
change nothing and are left out.

In `Manager` a Redis call is `StartCall` and one of `CallOk`, `CallFails` and
`CallCancelled`. A call that overlapped an outage may fail, one that ends while
Redis is up may succeed, and none lives longer than `Timeout`, which counts from
`tryPrimary`'s look at the clock: the call's own timeout and whatever delays its
goroutine before that starts. `Close` ends no call, because the Redis limiter does
not own its client (`redis.go:224-229`). Time is relative
(what is left of the cooldown, the age of each call), so the state space is
finite without a bound on the clock. `failures` is counted exactly up to
`FailureCap`, above the threshold.

`Failover` takes `Manager`'s actions as they are and adds what they leave open.
Between `StartCall` and the end of a call the script may run (`Script`): it takes
its slot in Redis even if the caller times out and asks the fallback
(`Abandoned`). `ServeRedis` and `ServeFallback` return the answers, and
`ServeDetached` the uncounted one of a call whose entry of the memory limiter was
reset on every attempt (`AdmitDetached` in `MemoryLimiter`; `met` counts the resets
a call in the fallback has met). `OtherInstance` spends the same Redis budget, and `handleClientsReset` is
`ResetMemory`, then `ResetRedis`, which fails while Redis is down. One client and
one window: the limiters' own modules are about time.

In `Fleet` an admin request is `ReadPolicy` or `ReadUpstream` (read, merge,
validate), `ApplyLocally`, `SetKey` and `Publish`, with nothing locked in between;
the last two may fail before or after Redis has done its part. `Watch` applies one
broadcast; `Disconnect` loses what had not been received yet, and everything
published until `Connect`; `Restart` kills the requests in progress and puts
the defaults back until `Load`. `FaultKinds` says which of these may happen: calls
that fail, connections that break, crashes. The order of start-up belongs to the main program
and is left open. Documents change on the way: windows travel in whole
milliseconds, URLs trimmed. `lastSet`, `lastSent`, `astray` and `reached` are history: which
request stored and which broadcast last, which instances missed that broadcast
or changed on their own after it, and how many faults there had been when a
broadcast last found every subscription up.

In `Collector` a `Record` is `Begin` (the clock is read), one `Add` per atomic in
the order of the code, `RecordSeries`, and for events with a key `LoadOrStore`,
for a new row the cap (`CountRows`, `CollectRows`, `Evict`), and `UpdateRow`.
Rows are numbered by the event that made them, so a row that was removed from the
table while a request holds it is still there to be written. `Snapshot`, `Sweep`
and `ResetClients` share one process, the Keeper. A `Range` that only counts or
collects is one step, one that deletes is a step per key. Latency sums and the
descriptive fields of a row are left out.

In `Hub` the lock is in the guards: `Broadcast` holds the read lock from its first
`Send` to `BroadcastEnd`, and `Subscribe`, `Unsubscribe` and `CloseHub` wait for
it. Frames are counted, not told apart. `Stall`, `Resume` and `GoAway` are the
browser: a write to a client that does not read blocks, and no deadline ends it.

## 3. Runs

| run | result | what it shows |
| --- | --- | --- |
| `memory` | pass | two requests, the janitor and unbounded time: `Refinement` of the window log, `WindowBound`, `LogMatchesGranted`, `LiveIsMapped`, and that refused clients are told a time that is positive, bounded (`RetryAfterBounded`) and sufficient (`ResetFreesSlot`) |
| `memory_reset` | pass | a request against endless resets and evictions: every retry after the first is owed to a retirement during the call (`RetriesAreCaused`), dead entries have someone removing them, every step of a call brings it nearer its end (`CallsAdvance`), calls return, `Close` ends |
| `memory_order` | violation | the log is not "in ascending order" (`memory.go:13-14`) |
| `redis` | pass | two requests and a `Reset` on the shared set: one global limit for all instances (`WindowBound`), admissions stay counted while they matter (`AdmissionsAreCounted`), one slot per call however often it is resent (`OneSlotPerCall`), and a retry time as for `memory` |
| `manager` | pass | `BreakerConsistent`, `OneProbe`, `Decided`, `Recovery`, `CloseReturns` with two requests, the prober, `Close` and a Redis that comes and goes |
| `manager_degraded` | violation | `Degraded()` can be false while the circuit is open (`manager.go:144-145`) |
| `failover` | pass | the breaker with the counts of both backends, abandoned calls, other instances and resets: an outage costs at most one limit more, and only a call that was reset on every attempt goes uncounted (`Metered`) |
| `fleet` | pass | two instances, two requests and one fault anywhere: instances that have read the last broadcast agree at all times (`Agreement`), a restart finds what they run with unless SET and PUBLISH crossed (`SurvivesRestart`), and a broadcast that every instance can hear brings all of them, those that had missed earlier ones too, to one value at which they stay unless something else fails (`Convergence`) |
| `fleet_partial` | violation | of two partial updates one undoes the other (`api.go:198-199`) |
| `fleet_missed` | violation | one broken connection: an instance is connected again and stale for good (`policystore.go:23`, `83-84`) |
| `collector` | pass | two requests beside a snapshot, sweep or reset: no counter runs ahead of one written before it (`Reconciled`), graph and rows do not add up to more than was counted (`SumsReconciled`), each second of the graph is exact (`SeriesExact`), the table is bounded (`TableBounded`), only idle clients or ones being recorded are swept (`SweptIsIdle`) |
| `hub` | pass | two streams, the broadcaster and shutdown: no send on or second close of a closed channel (`NoPanic`), every frame accounted for as long as the stream lasts (`FramesAccounted`), shutdown ends all but the stalled streams (`ShutdownEnds`) |

Bounds, and why they are enough. `memory` has one key because keys share nothing
but the map (the proofs cover any number); two requests, so that one can be
overtaken at every point of its call; four entries, so that `LoadMiss` never
waits for one; limit 2, so that the oldest hit and the newest differ; a window of
two ticks and a delay of one, so that a stamp can be inside, on the edge of and
outside the window and calls can overlap a tick; `MinTTL` below twice the window,
so that both arguments of cleanup's maximum decide. Its `VIEW` replaces instants
by ages, capped where every comparison has the same outcome, drops what no step
can read again, and keeps of the history what the next admission is compared
with and whether the properties about the history hold, so that a state in which
one fails is never taken for one in which it holds; the quotient is finite and is
explored to the end, so `MaxClock` never binds. `memory_reset` stands still in time and has two attempts, so that a retry,
the last attempt and the detached admission all happen. `redis` has a window of seven half
milliseconds, so that its conversion cuts something off, and stamps up to one tick
ahead of and one tick behind the server; the window exceeds both together, and the
bound of `WindowBound` is then reached exactly. Its `VIEW` works like that of `memory`. `manager` has threshold
2, so that a count short of it exists, and timeout and cooldown of one tick, the
boundary case of `OneProbe`. `failover` has limit 1 and three requests, so that a
lost answer, a fallback and a return to Redis fit into one behaviour, and
threshold 1, because what trips the breaker is the subject of `manager`; two
attempts and two resets, so that a detached admission happens. Its `VIEW` drops
the flags and the last error, which no step reads, and keeps the balance of what was
admitted instead of its parts.
`fleet` has two instances, each of which may serve both requests or one each, a
millisecond of two ticks, so that a window is cut on the way, a window and a URL
that are refused, and one fault of any kind at any point; a missed broadcast, the
reconnection and the next broadcast fit into it. `fleet_missed` needs one request
and one broken connection. `collector` has a cap of
one client for two keys, a ring of two seconds within three, a TTL of one, and
three events, so that the cap, the wrap and a sweep meet requests in progress.
`hub` has a buffer of two and three frames, so that a queue fills up and drops.
`fleet`, `collector`, `hub` and `failover` bound requests, events or frames and
therefore stop; they do not check for deadlock.

Fairness. A goroutine inside a call is scheduled again (weak fairness of
`WorkerStep`, `ScanStep`, `ProberStep`): no lock is held across a step, so none
blocks. A Redis call ends because its context has a deadline, and the ticker
fires (`ProbeTick`). Go's `select` chooses at random among ready cases, so a
closed stop channel cannot be passed over for ever: strong fairness of
`JanitorExit` and `ProberExit`. Nothing is assumed about arrivals of requests,
about Redis or about `Close` being called. In `Fleet` a handler runs to its end
(`Save` has a deadline of two seconds), `Watch` keeps reading, and the client library
subscribes again after a broken connection (weak fairness of `Connect`). In `Hub` runnable goroutines run, and `select` and the fair
`RWMutex` justify strong fairness of `Notices`, `Unsubscribe` and `CloseHub`; a
stalled client never has to resume.

The delay `MaxDelay` of a call is an assumption about the scheduler: the code
does not bound the time between reading the clock and deciding. It is a
parameter, at most the shortest window, and appears in what is promised: counting
back from an admission under limit L there are at most L in any real time shorter
than `ShortestWindow - MaxDelay`. For the Redis limiter, whose callers stamp their
requests with clocks of their own, `MaxDelay` includes how far a caller's clock is
behind the server's, and `MaxAhead`, how far it is ahead, is lost as well.
`Collector` has a `MaxDelay` of its own, shorter than the ring: a `Record` that
took longer from its clock reading to `recordSeries` would wipe a newer bucket.

Every property of a passing run comes with a mutated definition (the operators
marked `Fault:`) that makes TLC find it violated.

## 4. Findings

- `memory_order` (comment and code differ): the log is not always ascending. The
  promise survives, as `memory` and the proofs show, because an old stamp behind a
  newer one is only kept longer.
- `manager_degraded` (a race): the flag is stored after the mutex is released, so
  a success that was overtaken by the failures that trip the circuit clears it.
  `Recovery` and `BreakerIsConsistent` show what is left intact: the breaker never
  depends on the flag, and the flag settles when Redis does.
- `fleet_partial` (a race): `handlePolicySet` reads, merges and stores without a
  lock, so of two concurrent partial updates the later one writes back the old
  value of the other's field, here and in the whole fleet.
- `fleet_missed` (comment and code differ): nothing reloads the setting when a
  subscription is back, so an instance that missed a broadcast keeps the old one
  until the next change. `Convergence` is what is left of the promise.

Remarks that the conditions in the properties stand for, without a run of their
own:

- One request probes at a time only if `REDIS_TIMEOUT` is
  less than `FALLBACK_COOLDOWN` by what may delay a goroutine, which nothing checks
  (`manager.go:212-213`).
- `ResetAt` frees a slot (`limiter.go:71`) whatever happens to the window of the
  policy, but not when `SetPolicy` lowers the limit below what the window holds.
- SET and PUBLISH are two commands: when those of two requests cross, the whole fleet
  runs with the document published last while the other one is stored, and a restart
  loads that (`upstreamstore.go:14-15`, "survives a restart").
- When a PUBLISH fails the fleet runs with another document than a restart would
  load, until the next broadcast; the response says so (`shared_with_fleet`).
- An instance's own broadcast comes back to it and may undo a later local update
  whose sharing failed.
- `Config.Validate` has no upper bound for the configured window: with one of more
  than an hour `validatePolicy` rejects every update that leaves `window_seconds`
  out (`config.go:168`, `api.go:294`).
- `Snapshot` loads `total` before `blocked`, so that with one blocked request counted
  before it a block rate above 1 can be shown (`metrics.go:238-242`). `Reconciled`
  bounds what a snapshot can miss by the requests in progress.
- `Sweep` does not look again before it deletes: it forgets a client whose request is
  in `recordClient` at that time (`metrics.go:348-351`).
- At the cap of the client table a new row has no `lastSeen` yet, so the client that
  made the table too large is the first to be dropped, not the one least recently seen
  (`metrics.go:164`, `196`).
- `Subscribe` never returns nil: on a closed hub it returns a closed subscriber.

## 5. Proofs

All theorems are checked by TLAPS for arbitrary sets of keys, goroutines,
entries, instances, connections and policies and arbitrary bounds, from the named
ASSUMEs of the modules: the clamps of `Normalize` are ordered, windows in use are
at least `ShortestWindow`, `MaxDelay` is at most that, process start lies after the epoch, identities are
distinct, a second and an hour are whole numbers of milliseconds, the configured limit
is positive and the configured upstream not blank, a `Record` is shorter than the ring.

**Decision.** `NormalizeEnforces`, `RefusalDelaysRetry`: what the clamping and a
refusal guarantee for every log, sorted or not. `DecisionIsExact`: `prune` takes out
a prefix, so what it leaves contains all that is in the window, and no more than that
if the log is ascending (`PruneCounts`); the scan then decides what counting the
window would, and an unsorted log can only refuse too much. `WindowLogIsSpaced`: the
abstract log never lets a burst through. The promise `WindowBound` counts admissions
of the whole history while a step sees only the log. It follows from `Spaced`, that
an admission under limit L is at least the span after the L-th one before it
(`SpacedCounts`), and that is strengthened by `LogMatchesGranted`: the log is a suffix
of the history and what is missing has expired. A log with fewer than L stamps that
admits a request thus has the L-th admission before it among the expired ones.

**In-memory limiter.**

- `LiveEntryIsMapped`: the `dead` flag works. The invariant is `Structure`: a
  goroutine points to an entry exactly where its code uses it, it removes only
  dead entries, an entry that is not dead is still mapped for its holder, and no
  entry is mapped twice. Every step takes, keeps, releases, marks or publishes
  one pointer; there is a lemma for each.
- `MemoryImplementsLog`, `MemoryKeepsWindows`, `MemoryForgetsNothing`: the
  concurrent limiter implements `WindowLog`, and so its live logs and admissions
  keep the promise. Two more invariants are needed: `Timing` (a stamp is at most
  `MaxDelay` later than its entry's `lastSeen`, which may go backwards, so an entry
  idle for twice its window holds expired stamps only) and `Origins` (where cutoffs
  and policies come from). `Evict` then maps to `Forget`, `ResetMark` to `Clear`,
  the prunes to `Trim`, and publishing, removing or revisiting entries to
  stuttering.
- `ZombiesAreRemoved`, `RetriesHaveCauses`: the invariant is `Removal`. A
  retirement during a call is charged to the call (`kills`); a call that holds or
  is about to load a dead entry has one charged that it has not retried for yet,
  and two if the dead entry it holds is not the dead one in the map. The latter
  makes it inductive: letting go of an entry removes only that one.
- `MemoryCallsAdvance`, the part of `CallsReturn` that needs no fairness: the attempts
  left and then the steps left of an attempt, or the keys a scan has not visited and
  then the steps left at one, are a rank (`StepsLeft`) that every step of the call
  lowers and no step of another one raises.
- `MemoryRetryIsBounded` from `Timing`. `MemoryResetFreesSlot` for policies with
  one limit, from `Filled`: no log is longer than the limit, so that the oldest
  stamp leaving makes room. With a lowered limit it is false (section 4).

**Redis limiter.** Its set is pruned by score and not from the front, so it is no
instance of `WindowLog`, and members are counted instead. `RedisInv` says that
calls are punctual, members belong to one call each (`Identified`), a call that was
counted is in the history (`Credited`), the history is in order of time and close to
its stamps (`Paced`), every member is an admission whose key outlives its window
(`Backed`) and every recent admission is a member (`AdmissionsAreCounted`). If
fewer than L members are left when the script admits, the last L admissions cannot
all be among them, so the L-th is out of the window (`Spread`, which counts as
`Spaced` does): `RedisKeepsWindows`,
`RedisCountsAdmissions`, `RedisCallTakesOneSlot`, and `RedisRetryIsBounded` and
`RedisResetFreesSlot` as above.

**Manager and failover.** `BreakerIsConsistent`, `OneProbeAtATime`: the breaker's
fields agree; with `Timeout <= Cooldown` a probe ends before the next one may
start, because the age of a probe and what is left of the cooldown add up to at
least the cooldown. `FailoverImplementsManager`: the composition implements the
breaker, so `FailoverKeepsBreaker` is inherited. `FailoverIsMetered` needs `Books`,
which accounts for every answer on its way: what Redis has counted covers what was
admitted from it, by other instances, and by calls that have run their script and
not returned yet; and a call has met no more resets than there were (`Contended`).

**Fleet.** `FleetAgrees`, `FleetSurvivesRestart`. The invariant looks ahead
(`Heading`): what an instance will run with once it has read its inbox is the same
for all that are not astray, and it is what the key holds while the fleet is in
step. An instance with an empty inbox runs with it already, so the theorems need no
quiet period. `Numbering` says which request stored and sent which document, and that one
that has yet to store or publish is not the last that did. Cutting a window to
whole milliseconds keeps it within the range the handler accepts (`WholeMillis`), so
what is stored or broadcast decodes to a policy the handler would have accepted
(`FleetIsTyped`). Only the configured policy may lie outside that range; it is within
what `Normalize` keeps (`DefaultIsNormal`), and nothing is assumed about its window.

**Collector.**

- `CollectorReconciles`: the difference of two counters is the number of recorders
  between the two additions (`CounterInv`), and the additions of a request come in
  one order (`Follows`); counters only grow, so what a snapshot loads later can only
  be larger than what it missed (`ViewInv`).
- `CollectorSumsReconcile`: sums are sizes of sets (`Tally`), one element for each
  request, so that adding a request, reusing a bucket and writing a row are steps from
  a set to one with an element more or with fewer. `SumInv` adds the recorders that
  have been counted and are not in the graph, or a row, yet; and it counts all rows,
  also forgotten ones that a recorder may still write. The tracked rows are among
  them, each once, because a row belongs to one key (`TrackedInRows`).
- `CollectorSeriesIsExact`, from `RingInv`: a slot holds all the events of its
  second, and a second of the window whose slot holds another has had none. Two
  seconds of the window never share a slot (`SlotIsUnique`), and a `Record` writes
  inside the window because `MaxDelay < RingLen`.
- `CollectorTableIsBounded`: while the table is over its cap, some recorder has yet
  to count it, or holds victims whose removal brings it back (`TableInv`). That
  list stays good enough when others store, because they come to count
  themselves.
- `CollectorSweepsIdle`: rows belong to one key each and an id is used by one
  recorder (`Owned`), so whoever writes a row marks the sweep of that key
  (`Sweeping`).

**Hub.** `HubNeverPanics` and `HubAccountsForFrames`: a stream's channel stays
registered until it is closed, a new one has seen nothing (`Registered`), and a
broadcast sends to registered channels only, since it holds the read lock
(`ReadersLock`). The account stays right after `Close` has taken the registration
away, because only the broadcaster closes the hub, after its last frame (`Closing`).

`MemoryIsTyped`, `RedisIsTyped`, `ManagerIsTyped`, `FleetIsTyped` and
`CollectorIsTyped` are the type invariants those rest on. The inductive invariants of
the Redis limiter and the collector, whose strengthenings are the least obvious,
were model-checked on the instances of their runs before they were proved.

Only model-checked: what holds under fairness (`CallsReturn`, `CloseStopsJanitor`,
`Decided`, `Recovery`, `CloseReturns`, `Convergence`, `ShutdownEnds`), which is out of
this prover's reach.

## 6. What is left

The modules cover every part with state of its own, and every safety property of a
passing run is proved. What could be added is a second keeper in the collector (a
sweep beside a reset), which the model serialises.

Not modelled, and why:

- authentication: a stateless comparison of a request with the configured token;
- configuration: environment parsing at start-up, whose results are the constants
  of the modules and their ASSUMEs;
- the handlers and methods that only read (`handleStats`, `Stats`, `Peek` of the
  Redis limiter, `Keys`, `Clients`): each is one copy of state that is modelled;
- JSON and form decoding, logging, static assets, the development Redis;
- the overlap of key prefixes: `Reset` scans `prefix*` (`redis.go:205`), and
  whether that matches the stores' keys depends on the names the missing main
  program passes;
- `internal/proxy` and `cmd/proxy`, which are not in the source tree.
