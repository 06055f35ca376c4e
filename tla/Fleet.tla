------------------------------- MODULE Fleet -------------------------------
(***************************************************************************)
(* The settings every instance shares through Redis: the rate-limit policy *)
(* (policystore.go) and the upstream target (upstreamstore.go), changed by *)
(* handlePolicySet and handleUpstreamSet (internal/api/api.go).            *)
(*                                                                         *)
(* An admin request reads and merges, applies locally, SETs the shared key *)
(* and PUBLISHes the same document, each a step of its own and nothing     *)
(* locked in between.  Every instance, the sender too, applies the         *)
(* broadcasts in the order Redis sends them; one published while a         *)
(* subscription is down is gone.  Start-up (default, Load, subscribe) is   *)
(* in the main program, which is outside this repository's sources.        *)
(***************************************************************************)
EXTENDS Integers, Sequences, FiniteSets

CONSTANTS
    Instances, Admins,
    Limits, Windows, Texts,      \* what admins ask for
    Blank,                       \* the text of a URL that is all white space
    DefaultPolicy, DefaultText,  \* the configured settings
    LimitMax, Milli, Second, Hour, Day,  \* durations, in the clock's unit
    None,
    FaultKinds,                  \* what may fail
    MaxRequests, MaxFaults       \* bounds on requests, and on faults

ASSUME FleetAssumption ==
    /\ {LimitMax, Milli, Second, Hour, Day} \subseteq Nat \ {0}
    /\ Milli <= Second /\ Second <= Hour /\ Hour <= Day
    /\ Second % Milli = 0 /\ Hour % Milli = 0
    /\ {MaxRequests, MaxFaults} \subseteq Nat
    /\ FaultKinds \subseteq {"call", "connection", "crash"}

\* Config.Validate bounds neither from above, and a duration may overflow.
ASSUME ConfiguredAssumption ==
    /\ DefaultPolicy.limit \in Nat \ {0} /\ DefaultPolicy.window \in Int
    /\ DefaultText # Blank

VARIABLES
    live,       \* live[i]: the policy and the upstream instance i runs with
    stored,     \* the documents in Redis
    inbox,      \* broadcasts on their way to, or queued at, a subscriber
    connected,  \* subscriptions Redis knows of
    loading,    \* the settings a restarted instance has yet to Load
    op,         \* what each admin request is doing
    requests, faults,
    lastSet,    \* history: the request whose document is stored
    lastSent,   \* history: the request broadcast last
    astray,     \* history: instances that missed the last broadcast, or
                \* changed on their own after it
    reached     \* history: the faults so far when a broadcast last reached all

history == <<lastSet, lastSent, astray, reached>>
vars == <<live, stored, inbox, connected, loading, op, requests, faults, history>>

Settings == {"policy", "upstream"}

-----------------------------------------------------------------------------
(* Policy.Normalize, validatePolicy, and the documents that travel. *)

Clamp(n, low, high) == IF n < low THEN low ELSE IF n > high THEN high ELSE n

Normalize(p) ==
    [limit  |-> Clamp(p.limit, 1, LimitMax),
     window |-> IF p.window < Milli THEN Second ELSE Clamp(p.window, Milli, Day)]

\* Fault: any policy is accepted.
ValidAny(p) == TRUE

ValidPolicy(p) == p.limit \in 1 .. LimitMax /\ p.window \in Second .. Hour

TrimSpace(url) == [url EXCEPT !.padded = FALSE]

\* Save: a policy travels in whole milliseconds, a URL without its blanks.
Encode(s, v) ==
    IF s = "policy"
    THEN [limit |-> Normalize(v).limit, ms |-> Normalize(v).window \div Milli]
    ELSE TrimSpace(v)

\* Load and Watch.
Decode(s, doc) ==
    IF s = "policy"
    THEN Normalize([limit |-> doc.limit, window |-> doc.ms * Milli])
    ELSE TrimSpace(doc)

Url(text, padded) == [text |-> text, padded |-> padded]

Defaults == [policy |-> Normalize(DefaultPolicy), upstream |-> Url(DefaultText, FALSE)]

\* decodePolicyRequest: a body that names at least one field.
PolicyRequests ==
    {[limit |-> l] : l \in Limits} \cup {[window |-> w] : w \in Windows}
        \cup {[limit |-> l, window |-> w] : l \in Limits, w \in Windows}

\* decodeUpstreamRequest: a URL that is not blank.
UpstreamRequests == {TrimSpace(Url(text, padded)) : text \in Texts \ {Blank}, padded \in BOOLEAN}

Merge(p, req) ==
    [f \in {"limit", "window"} |-> IF f \in DOMAIN req THEN req[f] ELSE p[f]]

-----------------------------------------------------------------------------
Idle == [pc |-> "idle"]

Init ==
    /\ live = [i \in Instances |-> Defaults]
    /\ stored = [s \in Settings |-> None]
    /\ inbox = [i \in Instances |-> [s \in Settings |-> <<>>]]
    /\ connected = Instances \X Settings
    /\ loading = {}
    /\ op = [a \in Admins |-> Idle]
    /\ requests = 0 /\ faults = 0
    /\ lastSet = [s \in Settings |-> 0]
    /\ lastSent = [s \in Settings |-> 0]
    /\ astray = [s \in Settings |-> {}]
    /\ reached = [s \in Settings |-> 0]

Begin(a, i, s, value, fields) ==
    /\ op[a] = Idle /\ requests < MaxRequests
    /\ requests' = requests + 1
    /\ op' = [op EXCEPT ![a] = [pc |-> "apply", at |-> i, setting |-> s, value |-> value,
                                fields |-> fields, id |-> requests + 1]]
    /\ UNCHANGED <<live, stored, inbox, connected, loading, faults, history>>

(***************************************************************************)
(* handlePolicySet up to validation: the policy in force, with the fields  *)
(* of the body written over it.  A rejected request changes nothing.       *)
(***************************************************************************)
ReadPolicy(a, i) ==
    \E req \in PolicyRequests :
        LET next == Merge(live[i].policy, req) IN
        ValidPolicy(next) /\ Begin(a, i, "policy", next, DOMAIN req)

\* handleUpstreamSet up to NewUpstream, which may refuse the URL.
ReadUpstream(a, i) == \E url \in UpstreamRequests : Begin(a, i, "upstream", url, {"url"})

Step(a, label) == op' = [op EXCEPT ![a].pc = label]

\* The response, which says whether the change was shared with the fleet.
Respond(a) == op' = [op EXCEPT ![a] = Idle]

\* SetPolicy and SetUpstream: one atomic store.
ApplyLocally(a) ==
    /\ op[a].pc = "apply"
    /\ LET i == op[a].at  s == op[a].setting IN
       /\ live' = [live EXCEPT ![i][s] =
                     IF s = "policy" THEN Normalize(op[a].value) ELSE op[a].value]
       /\ astray' = [astray EXCEPT ![s] = @ \cup {i}]
    /\ Step(a, "set")
    /\ UNCHANGED <<stored, inbox, connected, loading, requests, faults, lastSet, lastSent, reached>>

-----------------------------------------------------------------------------
(***************************************************************************)
(* Save: SET, then PUBLISH.  Either may fail, before or after Redis has    *)
(* carried it out; a failed SET publishes nothing.                         *)
(***************************************************************************)
Doc(a) == Encode(op[a].setting, op[a].value)

Fails(kind) == kind \in FaultKinds /\ faults < MaxFaults /\ faults' = faults + 1

SetsKey(a, doc) ==
    /\ stored' = [stored EXCEPT ![op[a].setting] = doc]
    /\ lastSet' = [lastSet EXCEPT ![op[a].setting] = op[a].id]
    /\ \/ Step(a, "publish") /\ UNCHANGED faults
       \/ Respond(a) /\ Fails("call")

\* Fault: the key is only written when it is absent (SETNX).
SetIfAbsent(a) ==
    /\ op[a].pc = "set"
    /\ LET old == stored[op[a].setting] IN SetsKey(a, IF old = None THEN Doc(a) ELSE old)
    /\ UNCHANGED <<live, inbox, connected, loading, requests, lastSent, astray, reached>>

SetKey(a) ==
    /\ op[a].pc = "set"
    /\ \/ SetsKey(a, Doc(a))
       \/ Respond(a) /\ Fails("call") /\ UNCHANGED <<stored, lastSet>>
    /\ UNCHANGED <<live, inbox, connected, loading, requests, lastSent, astray, reached>>

Subscribers(s) == {i \in Instances : <<i, s>> \in connected}

\* Every instance hears the next broadcast, and is past its own Load.
Listening(s) == \A i \in Instances : <<i, s>> \in connected \ loading

SendTo(a, group) ==
    LET s == op[a].setting IN
    /\ inbox' = [i \in Instances |->
                   IF i \in group THEN [inbox[i] EXCEPT ![s] = Append(@, Doc(a))]
                   ELSE inbox[i]]
    /\ lastSent' = [lastSent EXCEPT ![s] = op[a].id]
    /\ astray' = [astray EXCEPT ![s] = Instances \ Subscribers(s)]
    /\ Respond(a) /\ (Fails("call") \/ UNCHANGED faults)
    /\ reached' = IF Listening(s) THEN [reached EXCEPT ![s] = faults'] ELSE reached

\* Fault: the sender does not hear its own broadcast.
PublishToOthers(a) ==
    /\ op[a].pc = "publish"
    /\ SendTo(a, Subscribers(op[a].setting) \ {op[a].at})
    /\ UNCHANGED <<live, stored, connected, loading, requests, lastSet>>

Publish(a) ==
    /\ op[a].pc = "publish"
    /\ \/ SendTo(a, Subscribers(op[a].setting))
       \/ Respond(a) /\ Fails("call") /\ UNCHANGED <<inbox, lastSent, astray, reached>>
    /\ UNCHANGED <<live, stored, connected, loading, requests, lastSet>>

-----------------------------------------------------------------------------
(***************************************************************************)
(* Watch: apply each broadcast in turn.  A subscription that breaks loses  *)
(* what it had not received yet and is set up again by the client library. *)
(***************************************************************************)
Applies(i, s, rest) ==
    /\ inbox[i][s] # <<>>
    /\ live' = [live EXCEPT ![i][s] = Decode(s, Head(inbox[i][s]))]
    /\ inbox' = [inbox EXCEPT ![i][s] = rest]
    /\ UNCHANGED <<stored, connected, loading, op, requests, faults, history>>

\* Fault: what has queued up behind a broadcast is dropped when that is applied.
WatchDrops(i, s) == Applies(i, s, <<>>)

Watch(i, s) == Applies(i, s, Tail(inbox[i][s]))

Disconnect(i, s) ==
    /\ <<i, s>> \in connected /\ Fails("connection")
    /\ connected' = connected \ {<<i, s>>}
    /\ \E n \in 0 .. Len(inbox[i][s]) :
        /\ inbox' = [inbox EXCEPT ![i][s] = SubSeq(@, 1, n)]
        /\ astray' = IF n = Len(inbox[i][s]) THEN astray
                     ELSE [astray EXCEPT ![s] = @ \cup {i}]
    /\ UNCHANGED <<live, stored, loading, op, requests, lastSet, lastSent, reached>>

Connect(i, s) ==
    /\ <<i, s>> \notin connected
    /\ connected' = connected \cup {<<i, s>>}
    /\ UNCHANGED <<live, stored, inbox, loading, op, requests, faults, history>>

-----------------------------------------------------------------------------
\* A crash and restart: requests and queues die, the settings are the defaults.
Restart(i) ==
    /\ Fails("crash")
    /\ live' = [live EXCEPT ![i] = Defaults]
    /\ inbox' = [inbox EXCEPT ![i] = [s \in Settings |-> <<>>]]
    /\ connected' = connected \ ({i} \X Settings)
    /\ loading' = loading \cup ({i} \X Settings)
    /\ op' = [a \in Admins |-> IF op[a] # Idle /\ op[a].at = i THEN Idle ELSE op[a]]
    /\ astray' = [s \in Settings |-> astray[s] \cup {i}]
    /\ UNCHANGED <<stored, requests, lastSet, lastSent, reached>>

InStep(s) == lastSet[s] = lastSent[s]

Loaded(s) == IF stored[s] = None THEN None ELSE Decode(s, stored[s])

(***************************************************************************)
(* Load: nothing stored, or Redis unreachable, leaves the setting as it    *)
(* is.  A broadcast still queued will be applied over what was loaded.     *)
(***************************************************************************)
Load(i, s) ==
    /\ <<i, s>> \in loading
    /\ loading' = loading \ {<<i, s>>}
    /\ \/ /\ Loaded(s) # None
          /\ live' = [live EXCEPT ![i][s] = Loaded(s)]
          /\ astray' = IF inbox[i][s] # <<>> THEN astray
                       ELSE [astray EXCEPT ![s] = IF InStep(s) THEN @ \ {i} ELSE @ \cup {i}]
          /\ UNCHANGED faults
       \/ Loaded(s) = None /\ UNCHANGED <<live, astray, faults>>
       \/ Fails("call") /\ UNCHANGED <<live, astray>>
    /\ UNCHANGED <<stored, inbox, connected, op, requests, lastSet, lastSent, reached>>

-----------------------------------------------------------------------------
AdminStep(a) == ApplyLocally(a) \/ SetKey(a) \/ Publish(a)

Next ==
    \/ \E a \in Admins, i \in Instances : ReadPolicy(a, i) \/ ReadUpstream(a, i)
    \/ \E a \in Admins : AdminStep(a)
    \/ \E i \in Instances, s \in Settings :
        Watch(i, s) \/ Disconnect(i, s) \/ Connect(i, s) \/ Load(i, s)
    \/ \E i \in Instances : Restart(i)

Spec == Init /\ [][Next]_vars

\* Handlers run to their end, under the 2 s deadline of Save, and Watch keeps
\* reading and "reconnects on its own" (the client library does).
FairSpec ==
    /\ Spec
    /\ \A a \in Admins : WF_vars(AdminStep(a))
    /\ \A i \in Instances, s \in Settings : WF_vars(Watch(i, s)) /\ WF_vars(Connect(i, s))

-----------------------------------------------------------------------------
Policies == [limit : 1 .. LimitMax, window : Second .. Hour]
Urls == [text : (Texts \cup {DefaultText}) \ {Blank}, padded : {FALSE}]

Accepted(s) == IF s = "policy" THEN Policies ELSE Urls

(***************************************************************************)
(* Types; in particular a policy that is asked for, stored, broadcast or   *)
(* in use is one that validatePolicy accepts, and cutting its window to    *)
(* milliseconds leaves it one; only the configured policy, until it is     *)
(* replaced, may be another.  An upstream is not blank and trimmed.        *)
(***************************************************************************)
TypeOK ==
    /\ live \in [Instances -> [policy : Policies \cup {Defaults.policy}, upstream : Urls]]
    /\ connected \subseteq Instances \X Settings /\ loading \subseteq Instances \X Settings
    /\ \A a \in Admins : op[a] # Idle => op[a].value \in Accepted(op[a].setting)
    /\ \A s \in Settings :
        /\ Loaded(s) \in Accepted(s) \cup {None}
        /\ \A i \in Instances : \A n \in DOMAIN inbox[i][s] :
            Decode(s, inbox[i][s][n]) \in Accepted(s)
        /\ astray[s] \subseteq Instances
    /\ requests \in 0 .. MaxRequests /\ faults \in 0 .. MaxFaults

\* The instances that have read the last broadcast, or what it said, and have
\* not changed on their own since.
UpToDate(s) == {i \in Instances \ astray[s] : inbox[i][s] = <<>>}

AllAgree(s) == \A i, j \in Instances : live[i][s] = live[j][s]

(***************************************************************************)
(* "A policy change made on one dashboard is persisted and published, and  *)
(* all other instances apply it" (PolicyStore): the instances that have    *)
(* read the last broadcast run with the same setting, whatever requests    *)
(* are under way; the sender included, although it had applied the value   *)
(* to itself before the others and in the clock's full precision.          *)
(***************************************************************************)
Agreement ==
    \A s \in Settings : \A i, j \in UpToDate(s) : live[i][s] = live[j][s]

(***************************************************************************)
(* "adopted by the whole fleet and survives a restart" (UpstreamStore):    *)
(* what is stored, and a restart would load, is what every instance runs   *)
(* with that has read the last broadcast.  It needs the stored document to *)
(* be the last one broadcast: two requests whose SET and PUBLISH cross, or *)
(* a PUBLISH that fails, leave another.                                    *)
(***************************************************************************)
SurvivesRestart ==
    \A s \in Settings : InStep(s) /\ Loaded(s) # None =>
        \A i \in UpToDate(s) : live[i][s] = Loaded(s)

(***************************************************************************)
(* Whatever went wrong before, and whoever missed what: a broadcast made   *)
(* when every subscription is up brings all instances to one value, at     *)
(* which they stay, unless something fails after it.  This is what is true *)
(* of "a Redis restart does not stop propagation" (Watch): it goes on with *)
(* the next change, however the echoes of several cross.                   *)
(***************************************************************************)
Convergence == \A s \in Settings : <>[](reached[s] = faults => AllAgree(s))

(***************************************************************************)
(* "all other instances apply it" and "It reconnects on its own, so a      *)
(* Redis restart does not stop propagation" (PolicyStore, Watch): when     *)
(* the requests are over and every subscription is up again, all instances *)
(* run with the same settings.                                             *)
(***************************************************************************)
Propagation == \A s \in Settings : <>[]AllAgree(s)

(***************************************************************************)
(* "a partial update leaves the other field untouched" (policyRequest):    *)
(* applying a request changes no field its body left out.                  *)
(***************************************************************************)
PartialUpdate ==
    [][\A a \in Admins :
        op[a].pc = "apply" /\ op'[a].pc = "set" /\ op[a].setting = "policy" =>
        \A f \in {"limit", "window"} \ op[a].fields :
            live'[op[a].at].policy[f] = live[op[a].at].policy[f]]_vars
=============================================================================
