---------------------------- MODULE FleetProofs ----------------------------
(***************************************************************************)
(* The shared settings, for any number of instances and admin requests and *)
(* whatever is lost on the way.                                            *)
(***************************************************************************)
EXTENDS Fleet, SequenceTheorems, TLAPS

\* What an instance runs with: a setting that was accepted, or the configured one.
InUse(s) == IF s = "policy" THEN Policies \cup {Defaults.policy} ELSE Urls

Held == Policies \cup {Defaults.policy} \cup Urls

\* What travels: a window in whole milliseconds that validatePolicy accepts.
Docs(s) ==
    IF s = "policy"
    THEN {d \in [limit : 1 .. LimitMax, ms : Nat] : d.ms * Milli \in Second .. Hour}
    ELSE Urls

Running ==
    [pc : {"apply", "set", "publish"}, at : Instances, setting : Settings,
     value : Policies \cup Urls, fields : SUBSET {"limit", "window", "url"}, id : Nat]

-----------------------------------------------------------------------------
\* Lemmas about the conversions.

LEMMA Scale ==
    /\ LimitMax \in Nat /\ LimitMax > 0 /\ Milli \in Nat /\ Milli > 0
    /\ Second \in Nat /\ Hour \in Nat /\ Day \in Nat
    /\ Milli <= Second /\ Second <= Hour /\ Hour <= Day
    /\ MaxRequests \in Nat /\ MaxFaults \in Nat
  BY FleetAssumption

LEMMA NormalizeKeeps ==
    ASSUME NEW p, p.limit \in 1 .. LimitMax, p.window \in Second .. Hour
    PROVE  /\ Normalize(p) \in Policies
           /\ Normalize(p).limit = p.limit /\ Normalize(p).window = p.window
  BY Scale DEF Normalize, Clamp, Policies

\* Cutting a window to whole milliseconds keeps it at or above a whole bound.
LEMMA WholeMillis ==
    ASSUME NEW w \in Second .. Hour
    PROVE  w \div Milli \in Nat /\ (w \div Milli) * Milli \in Second .. Hour
<1> DEFINE q == w \div Milli
           k == Second \div Milli
<1>1. w \in Nat /\ Second \in Nat /\ Milli \in Nat /\ Milli > 0 /\ w >= Second /\ w <= Hour
      /\ Hour \in Nat
  BY Scale
<1>2. q \in Nat /\ w = (q * Milli) + (w % Milli) /\ w % Milli \in 0 .. Milli - 1
  BY <1>1
<1>3. k \in Nat /\ Second = (k * Milli) + (Second % Milli)
  BY <1>1
<1>4. Second = k * Milli
  BY <1>1, <1>3, FleetAssumption
<1>5. q >= k
  <2> HIDE DEF q, k
  <2> SUFFICES ASSUME q < k PROVE FALSE
    BY <1>2, <1>3
  <2>1. PICK m \in Nat : k = q + 1 + m
    <3> k - q - 1 \in Nat
      BY <1>2, <1>3
    <3> k = q + 1 + (k - q - 1)
      BY <1>2, <1>3
    <3> QED
      OBVIOUS
  <2>2. k * Milli = q * Milli + Milli + m * Milli
    BY <1>1, <1>2, <2>1
  <2>3. m * Milli \in Nat /\ q * Milli \in Nat
    BY <1>1, <1>2
  <2>4. w % Milli < Milli /\ w % Milli \in Nat
    BY <1>1, <1>2
  <2> QED
    BY <1>1, <1>2, <1>4, <2>2, <2>3, <2>4
<1>6. q * Milli >= k * Milli
  <2> HIDE DEF q, k
  <2>1. PICK m \in Nat : q = k + m
    <3> q - k \in Nat /\ q = k + (q - k)
      BY <1>2, <1>3, <1>5
    <3> QED
      OBVIOUS
  <2>2. q * Milli = k * Milli + m * Milli /\ m * Milli \in Nat /\ k * Milli \in Nat
    BY <1>1, <1>3, <2>1
  <2> QED
    BY <2>2
<1>7. q * Milli \in Nat /\ q * Milli <= w
  <2> HIDE DEF q
  <2>1. q * Milli \in Nat /\ w % Milli \in Nat
    BY <1>1, <1>2
  <2> QED
    BY <1>1, <1>2, <2>1
<1> HIDE DEF q, k
<1>8. q \in Nat /\ q * Milli \in Second .. Hour
  BY <1>1, <1>2, <1>4, <1>6, <1>7
<1> QED
  BY <1>8 DEF q

LEMMA EncodeType ==
    ASSUME NEW s \in Settings, NEW v \in Accepted(s)
    PROVE  Encode(s, v) \in Docs(s)
<1>1. CASE s = "policy"
  <2>1. v.limit \in 1 .. LimitMax /\ v.window \in Second .. Hour
    BY <1>1 DEF Accepted, Policies
  <2> DEFINE d == [limit |-> v.limit, ms |-> v.window \div Milli]
  <2>2. d \in Docs(s)
    BY <1>1, <2>1, WholeMillis DEF Docs
  <2> QED
    BY <1>1, <2>1, <2>2, NormalizeKeeps DEF Encode
<1>2. CASE s = "upstream"
  BY <1>2 DEF Accepted, Docs, Urls, Encode, TrimSpace
<1> QED
  BY <1>1, <1>2 DEF Settings

LEMMA DecodeType ==
    ASSUME NEW s \in Settings, NEW d \in Docs(s)
    PROVE  Decode(s, d) \in Accepted(s)
<1>1. CASE s = "policy"
  BY <1>1, NormalizeKeeps DEF Docs, Accepted, Decode
<1>2. CASE s = "upstream"
  BY <1>2 DEF Accepted, Docs, Urls, Decode, TrimSpace
<1> QED
  BY <1>1, <1>2 DEF Settings

LEMMA DefaultsType ==
    /\ Defaults \in [Settings -> Held]
    /\ \A s \in Settings : Defaults[s] \in InUse(s)
<1>1. Url(DefaultText, FALSE) \in Urls
  BY ConfiguredAssumption DEF Url, Urls
<1> DEFINE p == Normalize(DefaultPolicy)
           u == Url(DefaultText, FALSE)
<1>2. Defaults = [policy |-> p, upstream |-> u]
  BY DEF Defaults
<1> HIDE DEF p, u
<1>3. u \in Urls /\ Defaults.policy = p /\ Defaults.upstream = u
  BY <1>1, <1>2 DEF u
<1>4. p \in Held /\ u \in Held
  BY <1>3 DEF Held
<1>5. Defaults \in [Settings -> Held]
  BY <1>2, <1>4 DEF Settings
<1>6. Defaults["policy"] \in InUse("policy") /\ Defaults["upstream"] \in InUse("upstream")
  BY <1>3 DEF InUse
<1> QED
  BY <1>5, <1>6 DEF Settings

\* The configured policy, whatever it is, is in the range the limiters can enforce.
LEMMA DefaultIsNormal ==
    /\ Defaults.policy \in [limit : 1 .. LimitMax, window : Milli .. Day]
    /\ Normalize(Defaults.policy) = Defaults.policy
<1>1. Defaults.policy = Normalize(DefaultPolicy)
  BY DEF Defaults
<1>2. Normalize(DefaultPolicy) \in [limit : 1 .. LimitMax, window : Milli .. Day]
  BY Scale, ConfiguredAssumption DEF Normalize, Clamp
<1>3. ASSUME NEW p \in [limit : 1 .. LimitMax, window : Milli .. Day]
      PROVE  Normalize(p) = p
  BY Scale DEF Normalize, Clamp
<1> QED
  BY <1>1, <1>2, <1>3

-----------------------------------------------------------------------------
\* Types, of what travels as well.
SettingTypes ==
    /\ live \in [Instances -> [Settings -> Held]]
    /\ \A i \in Instances, s \in Settings : live[i][s] \in InUse(s)
    /\ connected \subseteq Instances \X Settings /\ loading \subseteq Instances \X Settings
    /\ requests \in 0 .. MaxRequests /\ faults \in 0 .. MaxFaults

WireTypes ==
    /\ stored = [s \in Settings |-> stored[s]]
    /\ \A s \in Settings : stored[s] = None \/ stored[s] \in Docs(s)
    /\ inbox = [i \in Instances |-> [s \in Settings |-> inbox[i][s]]]
    /\ \A i \in Instances, s \in Settings : inbox[i][s] \in Seq(Docs(s))

OpTypes ==
    /\ op \in [Admins -> {Idle} \cup Running]
    /\ \A a \in Admins : op[a] # Idle => op[a].value \in Accepted(op[a].setting)

HistoryTypes ==
    /\ lastSet \in [Settings -> Nat] /\ lastSent \in [Settings -> Nat]
    /\ astray \in [Settings -> SUBSET Instances]

Types == SettingTypes /\ WireTypes /\ OpTypes /\ HistoryTypes

(***************************************************************************)
(* Requests are numbered as they come; a request that has not published    *)
(* yet is not the last to have done so, and likewise for the key.          *)
(***************************************************************************)
Numbering ==
    /\ \A s \in Settings : lastSet[s] <= requests /\ lastSent[s] <= requests
    /\ \A a \in Admins : op[a] # Idle =>
        /\ op[a].id <= requests
        /\ \A b \in Admins \ {a} : op[b] # Idle => op[b].id # op[a].id
        /\ lastSent[op[a].setting] # op[a].id
        /\ op[a].pc # "publish" => lastSet[op[a].setting] # op[a].id
        /\ lastSet[op[a].setting] = op[a].id => stored[op[a].setting] = Doc(a)

\* The setting i will run with once it has read its broadcasts.
Pending(i, s) ==
    IF inbox[i][s] = <<>> THEN live[i][s]
    ELSE Decode(s, inbox[i][s][Len(inbox[i][s])])

\* Who is not astray is on the way to one value: the stored one, if that was sent.
Heading ==
    \A s \in Settings : \A i \in Instances \ astray[s] :
        /\ \A j \in Instances \ astray[s] : Pending(i, s) = Pending(j, s)
        /\ InStep(s) /\ stored[s] # None => Pending(i, s) = Loaded(s)

FleetInv == Types /\ Numbering /\ Heading

LEMMA IdleOrRunning ==
    /\ Idle.pc = "idle"
    /\ \A r \in Running : r # Idle /\ r.pc # "idle"
  BY DEF Idle, Running

LEMMA InitInv == Init => FleetInv
<1> SUFFICES ASSUME Init PROVE FleetInv
  OBVIOUS
<1>1. SettingTypes
  BY DefaultsType, Scale DEF Init, SettingTypes
<1>2. WireTypes
  BY DEF Init, WireTypes
<1>3. OpTypes /\ HistoryTypes
  BY DEF Init, OpTypes, HistoryTypes
<1>4. Numbering
  BY DEF Init, Numbering
<1>5. Heading
  BY DEF Init, Heading, Pending
<1> QED
  BY <1>1, <1>2, <1>3, <1>4, <1>5 DEF FleetInv, Types

-----------------------------------------------------------------------------
\* What a step may do to requests in progress without touching the history.
OnlyProgress ==
    \A a \in Admins : op'[a] # Idle =>
        /\ op[a] # Idle
        /\ op'[a].id = op[a].id /\ op'[a].setting = op[a].setting
        /\ op'[a].value = op[a].value
        /\ op'[a].pc # "publish" => op[a].pc # "publish"

LEMMA NumberingKept ==
    ASSUME Numbering, OnlyProgress, UNCHANGED <<requests, stored, lastSet, lastSent>>
    PROVE  Numbering'
<1>1. \A a \in Admins : op'[a] # Idle => Doc(a)' = Doc(a)
  BY DEF OnlyProgress, Doc
<1> QED
  BY <1>1 DEF Numbering, OnlyProgress

LEMMA HeadingKept ==
    ASSUME Heading, UNCHANGED <<stored, lastSet, lastSent>>,
           \A s \in Settings : \A i \in Instances \ astray'[s] :
               i \notin astray[s] /\ Pending(i, s)' = Pending(i, s)
    PROVE  Heading'
<1>1. \A s \in Settings : Loaded(s)' = Loaded(s) /\ (InStep(s)' <=> InStep(s))
  BY DEF Loaded, InStep
<1> QED
  BY <1>1 DEF Heading

\* A request that goes on, or responds.
LEMMA Progress ==
    ASSUME OpTypes, NEW a \in Admins, op[a].pc \in {"apply", "set", "publish"},
           \/ Step(a, "set") /\ op[a].pc = "apply"
           \/ Step(a, "publish") /\ op[a].pc = "set"
           \/ Respond(a)
    PROVE  OpTypes' /\ OnlyProgress
<1>1. op[a] # Idle /\ op[a] \in Running
  BY IdleOrRunning DEF OpTypes
<1>2. CASE Respond(a)
  BY <1>2 DEF Respond, OpTypes, OnlyProgress
<1>3. ASSUME NEW l \in {"set", "publish"}, Step(a, l),
             l # "publish" => op[a].pc # "publish"
      PROVE  OpTypes' /\ OnlyProgress
  <2>1. op'[a] = [op[a] EXCEPT !.pc = l] /\ \A b \in Admins \ {a} : op'[b] = op[b]
    BY <1>3 DEF Step, OpTypes
  <2>2. op'[a] \in Running
    BY <1>1, <2>1 DEF Running
  <2>3. op' \in [Admins -> {Idle} \cup Running]
    BY <1>3, <2>1, <2>2 DEF Step, OpTypes
  <2>4. /\ op'[a].id = op[a].id /\ op'[a].setting = op[a].setting
        /\ op'[a].value = op[a].value /\ op'[a].pc = l
    BY <1>1, <2>1 DEF Running
  <2> QED
    BY <1>1, <1>3, <2>1, <2>3, <2>4 DEF OpTypes, OnlyProgress
<1> QED
  BY <1>2, <1>3

\* The type of a sender's value and document.
LEMMA SenderTypes ==
    ASSUME OpTypes, NEW a \in Admins, op[a].pc \in {"apply", "set", "publish"}
    PROVE  /\ op[a] # Idle /\ op[a].at \in Instances /\ op[a].setting \in Settings
           /\ op[a].id \in Nat
           /\ op[a].value \in Accepted(op[a].setting)
           /\ Doc(a) \in Docs(op[a].setting)
<1>1. op[a] # Idle /\ op[a] \in Running
  BY IdleOrRunning DEF OpTypes
<1>2. op[a].setting \in Settings /\ op[a].value \in Accepted(op[a].setting)
  BY <1>1 DEF OpTypes, Running
<1> QED
  BY <1>1, <1>2, EncodeType DEF Doc, Running

-----------------------------------------------------------------------------
LEMMA BeginKeeps ==
    ASSUME FleetInv, NEW a \in Admins, NEW i \in Instances, NEW s \in Settings,
           NEW v \in Accepted(s), NEW fields \in SUBSET {"limit", "window", "url"},
           Begin(a, i, s, v, fields)
    PROVE  FleetInv'
<1> DEFINE r == [pc |-> "apply", at |-> i, setting |-> s, value |-> v,
                 fields |-> fields, id |-> requests + 1]
<1>0. Types /\ Numbering /\ Heading
  BY DEF FleetInv
<1>1. requests \in Nat /\ requests < MaxRequests /\ requests' = requests + 1
  BY <1>0, Scale DEF Begin, Types, SettingTypes
<1>2. r \in Running /\ r # Idle
  BY <1>1, IdleOrRunning DEF Running, Accepted
<1>3. op' = [op EXCEPT ![a] = r] /\ op[a] = Idle
  BY DEF Begin
<1>4. OpTypes'
  BY <1>0, <1>2, <1>3 DEF Types, OpTypes
<1>5. SettingTypes' /\ WireTypes' /\ HistoryTypes'
  <2>1. SettingTypes'
    BY <1>0, <1>1, Scale DEF Begin, Types, SettingTypes
  <2>2. WireTypes'
    BY <1>0 DEF Begin, Types, WireTypes
  <2>3. HistoryTypes'
    BY <1>0 DEF Begin, Types, HistoryTypes, history
  <2> QED
    BY <2>1, <2>2, <2>3
<1>6. Heading'
  BY <1>0, HeadingKept DEF Begin, history, Pending
<1>7. Numbering'
  <2>1. /\ \A x \in Settings : lastSet'[x] = lastSet[x] /\ lastSent'[x] = lastSent[x]
                              /\ stored'[x] = stored[x]
                              /\ lastSet[x] \in Nat /\ lastSent[x] \in Nat
    BY <1>0 DEF Begin, history, Types, HistoryTypes
  <2>2. \A b \in Admins \ {a} : op'[b] = op[b] /\ (op[b] # Idle => Doc(b)' = Doc(b))
    BY <1>0, <1>3 DEF Types, OpTypes, Doc
  <2>3. \A b \in Admins : op[b] # Idle => op[b].id \in Nat /\ op[b].setting \in Settings
    BY <1>0 DEF Types, OpTypes, Running
  <2>4. op'[a] = r
    BY <1>0, <1>3 DEF Types, OpTypes
  <2>5. r.id = requests + 1 /\ r.setting = s /\ r.pc = "apply"
    OBVIOUS
  <2> HIDE DEF r
  <2> QED
    BY <1>0, <1>1, <2>1, <2>2, <2>3, <2>4, <2>5 DEF Numbering
<1> QED
  BY <1>4, <1>5, <1>6, <1>7 DEF FleetInv, Types

\* One setting of one instance is replaced.
LEMMA LiveTypes ==
    ASSUME SettingTypes, NEW i \in Instances, NEW s \in Settings, NEW v \in Accepted(s),
           live' = [live EXCEPT ![i][s] = v]
    PROVE  /\ live' \in [Instances -> [Settings -> Held]]
           /\ live'[i][s] = v
           /\ \A j \in Instances, x \in Settings :
                /\ live'[j][x] \in InUse(x)
                /\ j # i \/ x # s => live'[j][x] = live[j][x]
<1>1. v \in Held /\ v \in InUse(s)
  BY DEF Accepted, Held, InUse
<1>2. live' \in [Instances -> [Settings -> Held]]
  BY <1>1 DEF SettingTypes
<1>3. /\ live'[i][s] = v
      /\ \A j \in Instances, x \in Settings : j # i \/ x # s => live'[j][x] = live[j][x]
  BY DEF SettingTypes
<1> QED
  BY <1>1, <1>2, <1>3 DEF SettingTypes

LEMMA ApplyKeeps ==
    ASSUME FleetInv, NEW a \in Admins, ApplyLocally(a)
    PROVE  FleetInv'
<1> DEFINE i == op[a].at
           s == op[a].setting
<1>0. Types /\ Numbering /\ Heading /\ op[a].pc = "apply"
  BY DEF FleetInv, ApplyLocally
<1>1. i \in Instances /\ s \in Settings /\ op[a].value \in Accepted(s)
  BY <1>0, SenderTypes DEF Types
<1>2. PICK v \in Accepted(s) : live' = [live EXCEPT ![i][s] = v]
  <2>1. CASE s = "policy"
    BY <1>1, <2>1, NormalizeKeeps DEF ApplyLocally, Accepted, Policies
  <2>2. CASE s # "policy"
    BY <1>1, <2>2 DEF ApplyLocally
  <2> QED
    BY <2>1, <2>2
<1>3. SettingTypes'
  <2>1. live' \in [Instances -> [Settings -> Held]]
    BY <1>0, <1>1, <1>2, LiveTypes DEF Types
  <2>2. \A j \in Instances, x \in Settings : live'[j][x] \in InUse(x)
    BY <1>0, <1>1, <1>2, LiveTypes DEF Types
  <2> QED
    BY <1>0, <2>1, <2>2 DEF Types, SettingTypes, ApplyLocally
<1>4. OpTypes' /\ OnlyProgress
  BY <1>0, Progress DEF ApplyLocally, Types
<1>5. WireTypes'
  BY <1>0 DEF Types, WireTypes, ApplyLocally
<1>6. HistoryTypes'
  BY <1>0, <1>1 DEF Types, HistoryTypes, ApplyLocally
<1>7. Numbering'
  BY <1>0, <1>4, NumberingKept DEF ApplyLocally
<1>8. Heading'
  <2>1. \A x \in Settings : \A j \in Instances \ astray'[x] :
            j \notin astray[x] /\ live'[j][x] = live[j][x]
    BY <1>0, <1>1, <1>2 DEF ApplyLocally, Types, HistoryTypes, SettingTypes
  <2> QED
    BY <1>0, <2>1, HeadingKept DEF ApplyLocally, Pending
<1> QED
  BY <1>3, <1>4, <1>5, <1>6, <1>7, <1>8 DEF FleetInv, Types

LEMMA FailsType ==
    ASSUME SettingTypes, (\E kind : Fails(kind)) \/ UNCHANGED faults
    PROVE  faults' \in 0 .. MaxFaults
  BY Scale DEF SettingTypes, Fails

LEMMA SetKeyKeeps ==
    ASSUME FleetInv, NEW a \in Admins, SetKey(a)
    PROVE  FleetInv'
<1>0. Types /\ Numbering /\ Heading /\ op[a].pc = "set"
  BY DEF FleetInv, SetKey
<1>1. PICK t \in Settings, n \in Nat, d \in Docs(op[a].setting) :
          t = op[a].setting /\ n = op[a].id /\ op[a] # Idle /\ d = Doc(a) /\ d \in Docs(t)
  BY <1>0, SenderTypes DEF Types
<1>2. OpTypes' /\ OnlyProgress
  BY <1>0, Progress DEF SetKey, SetsKey, Types
<1>3. SettingTypes'
  <2>1. faults' \in 0 .. MaxFaults
    BY <1>0, FailsType DEF SetKey, SetsKey, Types
  <2> QED
    BY <1>0, <2>1 DEF SetKey, Types, SettingTypes
<1>4. CASE Respond(a) /\ UNCHANGED <<stored, lastSet>>
  <2>1. WireTypes' /\ HistoryTypes'
    BY <1>0, <1>4 DEF Types, WireTypes, HistoryTypes, SetKey
  <2>2. Numbering'
    BY <1>0, <1>2, <1>4, NumberingKept DEF SetKey
  <2>3. Heading'
    BY <1>0, <1>4, HeadingKept DEF SetKey, Pending
  <2> QED
    BY <1>2, <1>3, <2>1, <2>2, <2>3 DEF FleetInv, Types
<1>5. CASE SetsKey(a, Doc(a))
  <2>1. /\ stored' = [stored EXCEPT ![t] = d]
        /\ lastSet' = [lastSet EXCEPT ![t] = n]
        /\ UNCHANGED <<live, inbox, requests, lastSent, astray>>
    BY <1>1, <1>5 DEF SetsKey, SetKey
  <2>2. /\ stored'[t] = d /\ lastSet'[t] = n
        /\ \A x \in Settings \ {t} : stored'[x] = stored[x] /\ lastSet'[x] = lastSet[x]
    BY <1>0, <1>1, <2>1 DEF Types, WireTypes, HistoryTypes
  <2>3. WireTypes'
    <3>1. stored' = [s \in Settings |-> stored'[s]]
      BY <1>0, <2>1 DEF Types, WireTypes
    <3>2. \A s \in Settings : stored'[s] = None \/ stored'[s] \in Docs(s)
      BY <1>0, <1>1, <2>2 DEF Types, WireTypes
    <3> QED
      BY <1>0, <2>1, <3>1, <3>2 DEF Types, WireTypes
  <2>4. HistoryTypes'
    BY <1>0, <1>1, <2>1 DEF Types, HistoryTypes
  <2>5. Numbering'
    <3>1. /\ \A b \in Admins \ {a} : op'[b] = op[b]
          /\ op'[a] # Idle => op'[a].pc = "publish"
      BY <1>0, <1>1, <1>5, IdleOrRunning DEF SetsKey, Step, Respond, Types, OpTypes, Running
    <3>2. \A b \in Admins : op'[b] # Idle => Doc(b)' = Doc(b)
      BY <1>2 DEF OnlyProgress, Doc
    <3>3. \A b \in Admins : op[b] # Idle => op[b].setting \in Settings
      BY <1>0 DEF Types, OpTypes, Running
    <3> QED
      BY <1>0, <1>1, <1>2, <2>1, <2>2, <3>1, <3>2, <3>3 DEF Numbering, OnlyProgress
  <2>6. Heading'
    <3>1. \A x \in Settings, j \in Instances : Pending(j, x)' = Pending(j, x)
      BY <2>1 DEF Pending
    <3>2. ~InStep(t)'
      BY <1>0, <1>1, <2>1, <2>2 DEF InStep, Numbering
    <3>3. \A x \in Settings \ {t} :
             Loaded(x)' = Loaded(x) /\ (InStep(x)' <=> InStep(x)) /\ stored'[x] = stored[x]
      BY <2>1, <2>2 DEF Loaded, InStep
    <3> QED
      BY <1>0, <1>1, <2>1, <3>1, <3>2, <3>3 DEF Heading
  <2> QED
    BY <1>2, <1>3, <2>3, <2>4, <2>5, <2>6 DEF FleetInv, Types
<1> QED
  BY <1>4, <1>5 DEF SetKey

LEMMA PublishKeeps ==
    ASSUME FleetInv, NEW a \in Admins, Publish(a)
    PROVE  FleetInv'
<1>0. Types /\ Numbering /\ Heading /\ op[a].pc = "publish"
  BY DEF FleetInv, Publish
<1>1. PICK t \in Settings, n \in Nat, d \in Docs(op[a].setting) :
          t = op[a].setting /\ n = op[a].id /\ op[a] # Idle /\ d = Doc(a) /\ d \in Docs(t)
  BY <1>0, SenderTypes DEF Types
<1>2. OpTypes' /\ OnlyProgress
  BY <1>0, Progress DEF Publish, SendTo, Types
<1>3. SettingTypes'
  <2>1. faults' \in 0 .. MaxFaults
    BY <1>0, FailsType DEF Publish, SendTo, Types
  <2> QED
    BY <1>0, <2>1 DEF Publish, Types, SettingTypes
<1>4. CASE Respond(a) /\ UNCHANGED <<inbox, lastSent, astray>>
  <2>1. WireTypes' /\ HistoryTypes'
    BY <1>0, <1>4 DEF Types, WireTypes, HistoryTypes, Publish
  <2>2. Numbering'
    BY <1>0, <1>2, <1>4, NumberingKept DEF Publish
  <2>3. Heading'
    BY <1>0, <1>4, HeadingKept DEF Publish, Pending
  <2> QED
    BY <1>2, <1>3, <2>1, <2>2, <2>3 DEF FleetInv, Types
<1>5. CASE SendTo(a, Subscribers(op[a].setting))
  <2>0. PICK group \in SUBSET Instances : group = Subscribers(t)
    BY DEF Subscribers
  <2>1. /\ inbox' = [i \in Instances |->
                       IF i \in group THEN [inbox[i] EXCEPT ![t] = Append(@, d)]
                       ELSE inbox[i]]
        /\ lastSent' = [lastSent EXCEPT ![t] = n]
        /\ astray' = [astray EXCEPT ![t] = Instances \ group]
        /\ Respond(a)
        /\ UNCHANGED <<live, stored, requests, lastSet>>
    BY <1>1, <1>5, <2>0 DEF SendTo, Publish
  <2>2. /\ \A i \in Instances, x \in Settings :
             inbox'[i][x] = IF i \in group /\ x = t THEN Append(inbox[i][x], d) ELSE inbox[i][x]
        /\ inbox' = [i \in Instances |-> [x \in Settings |-> inbox'[i][x]]]
    <3>1. inbox = [i \in Instances |-> [s \in Settings |-> inbox[i][s]]]
      BY <1>0 DEF Types, WireTypes
    <3> QED
      BY <2>1, <3>1
  <2>3. WireTypes'
    <3>1. ASSUME NEW i \in Instances, NEW s \in Settings PROVE inbox'[i][s] \in Seq(Docs(s))
      <4>1. inbox[i][s] \in Seq(Docs(s))
        BY <1>0 DEF Types, WireTypes
      <4>2. s = t => Append(inbox[i][s], d) \in Seq(Docs(s))
        BY <1>1, <4>1, AppendProperties
      <4> QED
        BY <2>2, <4>1, <4>2
    <3> QED
      BY <1>0, <2>1, <2>2, <3>1 DEF Types, WireTypes
  <2>4. HistoryTypes'
    BY <1>0, <1>1, <2>1 DEF Types, HistoryTypes
  <2>5. /\ lastSent'[t] = n /\ astray'[t] = Instances \ group
        /\ \A x \in Settings \ {t} : lastSent'[x] = lastSent[x] /\ astray'[x] = astray[x]
    BY <1>0, <1>1, <2>1 DEF Types, HistoryTypes
  <2>6. Numbering'
    <3>1. op'[a] = Idle /\ \A b \in Admins \ {a} : op'[b] = op[b]
      BY <1>0, <2>1 DEF Respond, Types, OpTypes
    <3>2. \A b \in Admins : op'[b] # Idle => Doc(b)' = Doc(b)
      BY <1>2 DEF OnlyProgress, Doc
    <3>3. \A b \in Admins : op[b] # Idle => op[b].setting \in Settings
      BY <1>0 DEF Types, OpTypes, Running
    <3> QED
      BY <1>0, <1>1, <2>1, <2>5, <3>1, <3>2, <3>3 DEF Numbering
  <2>7. Heading'
    <3>1. ASSUME NEW i \in group PROVE Pending(i, t)' = Decode(t, d)
      <4>1. i \in Instances /\ inbox[i][t] \in Seq(Docs(t))
        BY <1>0, <2>0, <3>1 DEF Types, WireTypes
      <4>2. inbox'[i][t] = Append(inbox[i][t], d)
        BY <2>2, <3>1, <4>1
      <4>3. inbox'[i][t] # <<>> /\ inbox'[i][t][Len(inbox'[i][t])] = d
        BY <1>1, <4>1, <4>2, AppendProperties
      <4> QED
        BY <4>3 DEF Pending
    <3>2. \A i \in Instances, x \in Settings \ {t} : Pending(i, x)' = Pending(i, x)
      BY <2>1, <2>2 DEF Pending
    <3>3. InStep(t)' => Loaded(t)' = Decode(t, d) \/ stored'[t] = None
      BY <1>0, <1>1, <2>1, <2>5 DEF InStep, Numbering, Loaded
    <3>4. \A x \in Settings \ {t} :
             Loaded(x)' = Loaded(x) /\ (InStep(x)' <=> InStep(x)) /\ stored'[x] = stored[x]
      BY <2>1, <2>5 DEF Loaded, InStep
    <3> QED
      BY <1>0, <1>1, <2>0, <2>1, <2>5, <3>1, <3>2, <3>3, <3>4 DEF Heading
  <2> QED
    BY <1>2, <1>3, <2>3, <2>4, <2>6, <2>7 DEF FleetInv, Types
<1> QED
  BY <1>4, <1>5 DEF Publish

-----------------------------------------------------------------------------
\* Steps that change no request and no history but astray.
LEMMA QuietNumbering ==
    ASSUME Numbering, OpTypes, UNCHANGED <<op, requests, stored, lastSet, lastSent>>
    PROVE  Numbering' /\ OpTypes'
<1>1. OnlyProgress
  BY DEF OnlyProgress
<1> QED
  BY <1>1, NumberingKept DEF OpTypes

\* One queue of one instance is replaced.
LEMMA QueueTypes ==
    ASSUME WireTypes, NEW i \in Instances, NEW s \in Settings, NEW q \in Seq(Docs(s)),
           inbox' = [inbox EXCEPT ![i][s] = q], UNCHANGED stored
    PROVE  /\ WireTypes' /\ inbox'[i][s] = q
           /\ \A j \in Instances, x \in Settings :
                j # i \/ x # s => inbox'[j][x] = inbox[j][x]
<1>1. inbox = [j \in Instances |-> [x \in Settings |-> inbox[j][x]]]
  BY DEF WireTypes
<1>2. /\ inbox'[i][s] = q
      /\ inbox' = [j \in Instances |-> [x \in Settings |-> inbox'[j][x]]]
      /\ \A j \in Instances, x \in Settings : j # i \/ x # s => inbox'[j][x] = inbox[j][x]
  BY <1>1
<1> QED
  BY <1>2 DEF WireTypes

LEMMA WatchKeeps ==
    ASSUME FleetInv, NEW i \in Instances, NEW s \in Settings, Watch(i, s)
    PROVE  FleetInv'
<1>0. Types /\ Numbering /\ Heading
  BY DEF FleetInv
<1>1. PICK q \in Seq(Docs(s)) : q = inbox[i][s] /\ q # <<>>
  BY <1>0 DEF Watch, Applies, Types, WireTypes
<1>2. Head(q) \in Docs(s) /\ Tail(q) \in Seq(Docs(s))
  BY <1>1, HeadTailProperties
<1>3. PICK v \in Accepted(s) : v = Decode(s, Head(q))
  BY <1>2, DecodeType
<1>4. /\ live' = [live EXCEPT ![i][s] = v] /\ inbox' = [inbox EXCEPT ![i][s] = Tail(q)]
      /\ UNCHANGED <<stored, connected, loading, op, requests, faults, lastSet, lastSent,
                     astray>>
  BY <1>1, <1>3 DEF Watch, Applies, history
<1>5. SettingTypes'
  BY <1>0, <1>4, LiveTypes DEF Types, SettingTypes
<1>6. WireTypes'
  BY <1>0, <1>2, <1>4, QueueTypes DEF Types
<1>7. HistoryTypes'
  BY <1>0, <1>4 DEF Types, HistoryTypes
<1>8. Numbering' /\ OpTypes'
  BY <1>0, <1>4, QuietNumbering DEF Types
<1>9. Heading'
  <2>1. Pending(i, s)' = Pending(i, s)
    <3>1. inbox'[i][s] = Tail(q) /\ live'[i][s] = v
      <4>1. inbox'[i][s] = Tail(q)
        BY <1>0, <1>4 DEF Types, WireTypes
      <4>2. live'[i][s] = v
        BY <1>0, <1>4, LiveTypes DEF Types
      <4> QED
        BY <4>1, <4>2
    <3>2. CASE Tail(q) = <<>>
      <4>1. Len(Tail(q)) = 0 /\ Len(q) \in Nat /\ Len(q) # 0
        BY <1>1, <3>2, EmptySeq, LenProperties
      <4>2. Len(q) = 1 /\ Head(q) = q[1]
        BY <1>1, <4>1, HeadTailProperties
      <4> QED
        BY <1>1, <1>3, <3>1, <3>2, <4>2 DEF Pending
    <3>3. CASE Tail(q) # <<>>
      <4>1. Tail(q)[Len(Tail(q))] = q[Len(q)]
        BY <1>1, <1>2, <3>3, HeadTailProperties, EmptySeq
      <4> QED
        BY <1>1, <3>1, <3>3, <4>1 DEF Pending
    <3> QED
      BY <3>2, <3>3
  <2>2. \A j \in Instances, x \in Settings :
          j # i \/ x # s => inbox'[j][x] = inbox[j][x] /\ live'[j][x] = live[j][x]
    BY <1>0, <1>2, <1>4, QueueTypes, LiveTypes DEF Types
  <2>3. \A j \in Instances, x \in Settings : Pending(j, x)' = Pending(j, x)
    BY <2>1, <2>2 DEF Pending
  <2> QED
    BY <1>0, <1>4, <2>3, HeadingKept
<1> QED
  BY <1>5, <1>6, <1>7, <1>8, <1>9 DEF FleetInv, Types

LEMMA DisconnectKeeps ==
    ASSUME FleetInv, NEW i \in Instances, NEW s \in Settings, Disconnect(i, s)
    PROVE  FleetInv'
<1>0. Types /\ Numbering /\ Heading
  BY DEF FleetInv
<1>1. PICK q \in Seq(Docs(s)) : q = inbox[i][s]
  BY <1>0 DEF Types, WireTypes
<1>2. PICK n \in 0 .. Len(q) :
        /\ inbox' = [inbox EXCEPT ![i][s] = SubSeq(q, 1, n)]
        /\ astray' = IF n = Len(q) THEN astray ELSE [astray EXCEPT ![s] = astray[s] \cup {i}]
  BY <1>1 DEF Disconnect
<1>3. SubSeq(q, 1, n) \in Seq(Docs(s)) /\ (n = Len(q) => SubSeq(q, 1, n) = q)
  BY <1>2, SubSeqProperties
<1>4. /\ UNCHANGED <<live, stored, loading, op, requests, lastSet, lastSent>>
      /\ connected' \subseteq connected /\ Fails("connection")
  BY DEF Disconnect
<1>5. SettingTypes'
  BY <1>0, <1>4, FailsType DEF Types, SettingTypes
<1>6. WireTypes'
  BY <1>0, <1>2, <1>3, <1>4, QueueTypes DEF Types
<1>7. HistoryTypes'
  BY <1>0, <1>2, <1>4 DEF Types, HistoryTypes
<1>8. Numbering' /\ OpTypes'
  BY <1>0, <1>4, QuietNumbering DEF Types
<1>9. Heading'
  <2>1. \A j \in Instances, x \in Settings : j # i \/ x # s => inbox'[j][x] = inbox[j][x]
    BY <1>0, <1>2, <1>3, <1>4, QueueTypes DEF Types
  <2>2. \A x \in Settings : \A j \in Instances \ astray'[x] :
          j \notin astray[x] /\ (j = i /\ x = s => n = Len(q))
    BY <1>0, <1>2 DEF Types, HistoryTypes
  <2>3. n = Len(q) => inbox'[i][s] = inbox[i][s]
    BY <1>0, <1>1, <1>2, <1>3, <1>4, QueueTypes DEF Types
  <2>4. \A x \in Settings : \A j \in Instances \ astray'[x] :
          j \notin astray[x] /\ inbox'[j][x] = inbox[j][x]
    BY <2>1, <2>2, <2>3
  <2>5. \A x \in Settings : \A j \in Instances \ astray'[x] :
          j \notin astray[x] /\ Pending(j, x)' = Pending(j, x)
    BY <1>4, <2>4 DEF Pending
  <2> QED
    BY <1>0, <1>4, <2>5, HeadingKept
<1> QED
  BY <1>5, <1>6, <1>7, <1>8, <1>9 DEF FleetInv, Types

LEMMA ConnectKeeps ==
    ASSUME FleetInv, NEW i \in Instances, NEW s \in Settings, Connect(i, s)
    PROVE  FleetInv'
<1>0. Types /\ Numbering /\ Heading
  BY DEF FleetInv
<1>1. /\ connected' = connected \cup {<<i, s>>}
      /\ UNCHANGED <<live, stored, inbox, loading, op, requests, faults, lastSet, lastSent,
                     astray>>
  BY DEF Connect, history
<1>2. Types'
  <2>1. SettingTypes'
    BY <1>0, <1>1 DEF Types, SettingTypes
  <2>2. WireTypes'
    BY <1>0, <1>1 DEF Types, WireTypes
  <2>3. HistoryTypes' /\ OpTypes'
    BY <1>0, <1>1 DEF Types, HistoryTypes, OpTypes
  <2> QED
    BY <2>1, <2>2, <2>3 DEF Types
<1>3. Numbering'
  BY <1>0, <1>1, QuietNumbering DEF Types
<1>4. Heading'
  BY <1>0, <1>1, HeadingKept DEF Pending
<1> QED
  BY <1>2, <1>3, <1>4 DEF FleetInv

LEMMA RestartKeeps ==
    ASSUME FleetInv, NEW i \in Instances, Restart(i)
    PROVE  FleetInv'
<1>0. Types /\ Numbering /\ Heading
  BY DEF FleetInv
<1>1. /\ live' = [live EXCEPT ![i] = Defaults]
      /\ inbox' = [inbox EXCEPT ![i] = [s \in Settings |-> <<>>]]
      /\ astray' = [s \in Settings |-> astray[s] \cup {i}]
      /\ UNCHANGED <<stored, requests, lastSet, lastSent>>
  BY DEF Restart
<1>2. SettingTypes'
  <2>1. live' \in [Instances -> [Settings -> Held]]
    BY <1>0, <1>1, DefaultsType DEF Types, SettingTypes
  <2>2. \A j \in Instances, s \in Settings : live'[j][s] \in InUse(s)
    BY <1>0, <1>1, DefaultsType DEF Types, SettingTypes
  <2>3. connected' \subseteq Instances \X Settings /\ loading' \subseteq Instances \X Settings
    BY <1>0 DEF Restart, Types, SettingTypes
  <2>4. faults' \in 0 .. MaxFaults
    BY <1>0, FailsType DEF Restart, Types
  <2> QED
    BY <1>0, <1>1, <2>1, <2>2, <2>3, <2>4 DEF Types, SettingTypes
<1>3. WireTypes'
  <2>1. inbox = [j \in Instances |-> [s \in Settings |-> inbox[j][s]]]
    BY <1>0 DEF Types, WireTypes
  <2>2. /\ inbox' = [j \in Instances |-> [s \in Settings |-> inbox'[j][s]]]
        /\ \A j \in Instances, s \in Settings : inbox'[j][s] \in {inbox[j][s], <<>>}
    BY <1>1, <2>1
  <2>3. ASSUME NEW j \in Instances, NEW s \in Settings PROVE inbox'[j][s] \in Seq(Docs(s))
    <3>1. inbox[j][s] \in Seq(Docs(s)) /\ <<>> \in Seq(Docs(s))
      BY <1>0 DEF Types, WireTypes
    <3> QED
      BY <2>2, <3>1
  <2> QED
    BY <1>0, <1>1, <2>2, <2>3 DEF Types, WireTypes
<1>4. OpTypes' /\ OnlyProgress
  <2>1. /\ op' \in [Admins -> {Idle} \cup Running]
        /\ \A a \in Admins : op'[a] = Idle \/ op'[a] = op[a]
    BY <1>0 DEF Restart, Types, OpTypes
  <2> QED
    BY <1>0, <2>1 DEF Types, OpTypes, OnlyProgress
<1>5. HistoryTypes'
  BY <1>0, <1>1 DEF Types, HistoryTypes
<1>6. Numbering'
  BY <1>0, <1>1, <1>4, NumberingKept
<1>7. Heading'
  <2>1. \A s \in Settings : \A j \in Instances \ astray'[s] :
          j # i /\ j \notin astray[s]
    BY <1>1
  <2>2. \A s \in Settings : \A j \in Instances \ astray'[s] :
          inbox'[j] = inbox[j] /\ live'[j] = live[j]
    BY <1>0, <1>1, <2>1 DEF Types, WireTypes, SettingTypes
  <2>3. \A s \in Settings : \A j \in Instances \ astray'[s] :
          j \notin astray[s] /\ Pending(j, s)' = Pending(j, s)
    BY <2>1, <2>2 DEF Pending
  <2> QED
    BY <1>0, <1>1, <2>3, HeadingKept
<1> QED
  BY <1>2, <1>3, <1>4, <1>5, <1>6, <1>7 DEF FleetInv, Types

LEMMA LoadKeeps ==
    ASSUME FleetInv, NEW i \in Instances, NEW s \in Settings, Load(i, s)
    PROVE  FleetInv'
<1>0. Types /\ Numbering /\ Heading
  BY DEF FleetInv
<1>1. /\ loading' \subseteq loading /\ (Fails("call") \/ UNCHANGED faults)
      /\ UNCHANGED <<stored, inbox, connected, op, requests, lastSet, lastSent>>
  BY DEF Load
<1>2. faults' \in 0 .. MaxFaults
  BY <1>0, <1>1, FailsType DEF Types
<1>3. WireTypes'
  BY <1>0, <1>1 DEF Types, WireTypes
<1>4. Numbering' /\ OpTypes'
  BY <1>0, <1>1, QuietNumbering DEF Types
<1>5. CASE UNCHANGED <<live, astray>>
  <2>1. SettingTypes'
    BY <1>0, <1>1, <1>2, <1>5 DEF Types, SettingTypes
  <2>2. HistoryTypes'
    BY <1>0, <1>1, <1>5 DEF Types, HistoryTypes
  <2>3. Heading'
    BY <1>0, <1>1, <1>5, HeadingKept DEF Pending
  <2> QED
    BY <1>3, <1>4, <2>1, <2>2, <2>3 DEF FleetInv, Types
<1>6. CASE /\ Loaded(s) # None
           /\ live' = [live EXCEPT ![i][s] = Loaded(s)]
           /\ astray' = IF inbox[i][s] # <<>> THEN astray
                        ELSE [astray EXCEPT ![s] =
                                IF InStep(s) THEN astray[s] \ {i} ELSE astray[s] \cup {i}]
  <2>1. stored[s] # None /\ stored[s] \in Docs(s) /\ Loaded(s) = Decode(s, stored[s])
    BY <1>0, <1>6 DEF Loaded, Types, WireTypes
  <2>2. PICK v \in Accepted(s) : v = Loaded(s)
    BY <2>1, DecodeType
  <2>3. /\ live' \in [Instances -> [Settings -> Held]]
        /\ live'[i][s] = v
        /\ \A j \in Instances, x \in Settings :
             /\ live'[j][x] \in InUse(x)
             /\ j # i \/ x # s => live'[j][x] = live[j][x]
    <3>1. live' = [live EXCEPT ![i][s] = v] /\ SettingTypes
      BY <1>0, <1>6, <2>2 DEF Types
    <3> QED
      BY <3>1, LiveTypes
  <2>4. SettingTypes'
    BY <1>0, <1>1, <1>2, <2>3 DEF Types, SettingTypes
  <2>5. HistoryTypes'
    BY <1>0, <1>1, <1>6 DEF Types, HistoryTypes
  <2>6. \A j \in Instances, x \in Settings :
          j # i \/ x # s \/ inbox[i][s] # <<>> => Pending(j, x)' = Pending(j, x)
    BY <1>1, <2>3 DEF Pending
  <2>7. CASE inbox[i][s] # <<>> \/ ~InStep(s)
    <3>1. \A x \in Settings : \A j \in Instances \ astray'[x] :
            j \notin astray[x] /\ (j # i \/ x # s \/ inbox[i][s] # <<>>)
      BY <1>0, <1>6, <2>7 DEF Types, HistoryTypes
    <3>2. Heading'
      BY <1>0, <1>1, <2>6, <3>1, HeadingKept
    <3> QED
      BY <1>3, <1>4, <2>4, <2>5, <3>2 DEF FleetInv, Types
  <2>8. CASE inbox[i][s] = <<>> /\ InStep(s)
    <3>1. Pending(i, s)' = Loaded(s)
      BY <1>1, <2>2, <2>3, <2>8 DEF Pending
    <3>2. \A x \in Settings : \A j \in Instances \ astray'[x] :
            (j = i /\ x = s) \/ (j \notin astray[x] /\ Pending(j, x)' = Pending(j, x))
      BY <1>0, <1>6, <2>6, <2>8 DEF Types, HistoryTypes
    <3>3. \A x \in Settings :
             Loaded(x)' = Loaded(x) /\ (InStep(x)' <=> InStep(x)) /\ stored'[x] = stored[x]
      BY <1>1 DEF Loaded, InStep
    <3>4. \A j \in Instances \ astray'[s] : Pending(j, s)' = Loaded(s)
      BY <1>0, <2>1, <2>8, <3>1, <3>2 DEF Heading
    <3>5. Heading'
      BY <1>0, <3>2, <3>3, <3>4 DEF Heading
    <3> QED
      BY <1>3, <1>4, <2>4, <2>5, <3>5 DEF FleetInv, Types
  <2> QED
    BY <2>7, <2>8
<1> QED
  BY <1>5, <1>6 DEF Load

-----------------------------------------------------------------------------
LEMMA ReadKeeps ==
    ASSUME FleetInv, NEW a \in Admins, NEW i \in Instances, ReadPolicy(a, i) \/ ReadUpstream(a, i)
    PROVE  FleetInv'
<1>1. CASE ReadPolicy(a, i)
  <2>1. PICK req \in PolicyRequests :
          /\ ValidPolicy(Merge(live[i].policy, req))
          /\ Begin(a, i, "policy", Merge(live[i].policy, req), DOMAIN req)
    BY <1>1 DEF ReadPolicy
  <2>2. DOMAIN req \in SUBSET {"limit", "window", "url"}
    BY DEF PolicyRequests
  <2>3. Merge(live[i].policy, req) \in Accepted("policy")
    BY <2>1 DEF ValidPolicy, Merge, Accepted, Policies
  <2> QED
    BY <2>1, <2>2, <2>3, BeginKeeps DEF Settings
<1>2. CASE ReadUpstream(a, i)
  <2>1. PICK url \in UpstreamRequests : Begin(a, i, "upstream", url, {"url"})
    BY <1>2 DEF ReadUpstream
  <2>2. PICK text \in Texts \ {Blank}, padded \in BOOLEAN :
          url = [Url(text, padded) EXCEPT !.padded = FALSE]
    BY DEF UpstreamRequests, TrimSpace
  <2>3. url = [text |-> text, padded |-> FALSE]
    BY <2>2 DEF Url
  <2>4. url \in Accepted("upstream")
    BY <2>3 DEF Accepted, Urls
  <2> QED
    BY <2>1, <2>4, BeginKeeps DEF Settings
<1> QED
  BY <1>1, <1>2

LEMMA NextInv == FleetInv /\ [Next]_vars => FleetInv'
<1> SUFFICES ASSUME FleetInv, [Next]_vars PROVE FleetInv'
  OBVIOUS
<1>1. CASE Next
  BY <1>1, ReadKeeps, ApplyKeeps, SetKeyKeeps, PublishKeeps, WatchKeeps, DisconnectKeeps,
     ConnectKeeps, LoadKeeps, RestartKeeps DEF Next, AdminStep
<1>2. CASE UNCHANGED vars
  <2>0. Types /\ Numbering /\ Heading
    BY DEF FleetInv
  <2>1. UNCHANGED <<live, stored, inbox, connected, loading, op, requests, faults,
                    lastSet, lastSent, astray>>
    BY <1>2 DEF vars, history
  <2>2. SettingTypes' /\ WireTypes' /\ HistoryTypes'
    BY <2>0, <2>1 DEF Types, SettingTypes, WireTypes, HistoryTypes
  <2>3. Numbering' /\ OpTypes'
    BY <2>0, <2>1, QuietNumbering DEF Types
  <2>4. Heading'
    BY <2>0, <2>1, HeadingKept DEF Pending
  <2> QED
    BY <2>2, <2>3, <2>4 DEF FleetInv, Types
<1> QED
  BY <1>1, <1>2

(***************************************************************************)
(* Whatever WINDOW_SIZE_SECONDS and RATE_LIMIT_RPS are, and whichever way  *)
(* a setting came: a policy that is in use, other than the configured one, *)
(* under way in a handler, stored or broadcast and not read yet is one     *)
(* that validatePolicy accepts, also after the cut to milliseconds, and an *)
(* upstream is not blank and trimmed (handlePolicySet, Save, Load, Watch). *)
(***************************************************************************)
THEOREM FleetIsTyped == Spec => []TypeOK
<1>1. FleetInv => TypeOK
  <2> SUFFICES ASSUME FleetInv PROVE TypeOK
    OBVIOUS
  <2>0. SettingTypes /\ WireTypes /\ OpTypes /\ HistoryTypes
    BY DEF FleetInv, Types
  <2>1. live \in [Instances -> [policy : Policies \cup {Defaults.policy}, upstream : Urls]]
    <3>1. ASSUME NEW i \in Instances
          PROVE  live[i] \in [policy : Policies \cup {Defaults.policy}, upstream : Urls]
      <4>1. /\ live[i] \in [Settings -> Held]
            /\ live[i]["policy"] \in Policies \cup {Defaults.policy}
            /\ live[i]["upstream"] \in Urls
        BY <2>0 DEF SettingTypes, Settings, InUse
      <4> QED
        BY <4>1 DEF Settings
    <3> QED
      BY <2>0, <3>1 DEF SettingTypes
  <2>2. \A s \in Settings : Loaded(s) \in Accepted(s) \cup {None}
    BY <2>0, DecodeType DEF WireTypes, Loaded
  <2>3. ASSUME NEW i \in Instances, NEW s \in Settings, NEW n \in DOMAIN inbox[i][s]
        PROVE  Decode(s, inbox[i][s][n]) \in Accepted(s)
    <3>1. inbox[i][s] \in Seq(Docs(s))
      BY <2>0 DEF WireTypes
    <3>2. inbox[i][s][n] \in Docs(s)
      BY <3>1, ElementOfSeq, LenProperties
    <3> QED
      BY <3>2, DecodeType
  <2> QED
    BY <2>0, <2>1, <2>2, <2>3 DEF TypeOK, SettingTypes, OpTypes, HistoryTypes
<1> QED
  BY <1>1, InitInv, NextInv, PTL DEF Spec

(***************************************************************************)
(* The instances that have read the last broadcast run with the same       *)
(* setting at all times: the sender too, and those that loaded it instead  *)
(* (Save, Watch, Load).                                                    *)
(***************************************************************************)
THEOREM FleetAgrees == Spec => []Agreement
<1>1. FleetInv => Agreement
  BY DEF FleetInv, Heading, Agreement, UpToDate, Pending
<1> QED
  BY <1>1, InitInv, NextInv, PTL DEF Spec

(***************************************************************************)
(* If the stored document is also the one broadcast last, a restart loads  *)
(* exactly what those instances run with (handlePolicySet, Save, Load).    *)
(***************************************************************************)
THEOREM FleetSurvivesRestart == Spec => []SurvivesRestart
<1>1. FleetInv => SurvivesRestart
  <2> SUFFICES ASSUME FleetInv, NEW s \in Settings, InStep(s), Loaded(s) # None,
                      NEW i \in UpToDate(s)
               PROVE  live[i][s] = Loaded(s)
    BY DEF SurvivesRestart
  <2>1. stored[s] # None
    BY DEF Loaded
  <2>2. Pending(i, s) = live[i][s]
    BY DEF Pending, UpToDate
  <2> QED
    BY <2>1, <2>2 DEF FleetInv, Heading, UpToDate
<1> QED
  BY <1>1, InitInv, NextInv, PTL DEF Spec
=============================================================================
