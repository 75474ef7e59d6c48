----------------------------- MODULE ConsoleProofs -----------------------------
(***************************************************************************)
(* Proofs about Console, for any requests, any amount of the channel and   *)
(* any scenes: the views of a wallet agree, and the feed is right.         *)
(***************************************************************************)
EXTENDS Console, TLAPS

-----------------------------------------------------------------------------
(* Types *)

Signature == {NoSig, "payout"}
ProviderType == [status : {"active", "disabled"}, health : {"healthy", "unhealthy", "unknown"},
                 checked : Nat, updated : Nat, aged : BOOLEAN]
FlowType == {v \in {"none", "call", "rejected"} \X Nat : v[1] = "none" => v[2] = 0}
TaskType == [status : TerminalTask \cup {"active"}, expired : BOOLEAN,
             call : {"none", "fulfilled", "failed"}, owed : 0..Ceiling, rejected : BOOLEAN,
             last : FlowType, paid : 0..Ceiling, running : Nat]
Stage == BlockedStage \cup {"prepared", "open", "finalized"}
ChannelType == [status : TerminalChannel \cup {"reserved", "open", "failed"},
                stage : Stage, blocked : BOOLEAN, authorized : 0..Ceiling, spent : 0..Ceiling, updated : Nat,
                open : {NoSig, "opening"}, settle : Signature, distribution : Signature, refund : Signature]
SettlementType == [signature : {"payout"}, amount : 0..Ceiling]
PayerType == [at : {"idle", "claiming", "recording"}, amount : 0..Ceiling]

VersionType == {v \in Version \X Nat : v[1] = "none" => v[2] = 0}
EventType == [state : {"none", "open", "resolved"}, version : VersionType, managed : BOOLEAN,
              count : Nat, read : BOOLEAN]
UpsertType == [fp : Fingerprint, version : VersionType, state : {"open", "resolved"}, managed : BOOLEAN]
Statement == {"providers", "flows", "channels", "tasks", "missing", "resolving", "answer"}
LoadType == [at : Statement \cup {"idle"}, by : {"bell", "page"}, showNew : BOOLEAN, todo : Seq(UpsertType),
             active : SUBSET Incident, missing : SUBSET Incident, rows : [Incident -> EventType],
             undisturbed : BOOLEAN]
BellType == [initialized : BOOLEAN, seen : [Incident -> VersionType], shown : [Incident -> EventType],
             toasted : SUBSET (Incident \X VersionType), again : BOOLEAN]

RowsTyped ==
  /\ provider \in ProviderType /\ task \in TaskType /\ channel \in ChannelType
  /\ settlements \in SUBSET SettlementType /\ payer \in PayerType /\ scene \in SceneType
FeedTyped ==
  /\ events \in [Fingerprint -> EventType] /\ load \in [Loads -> LoadType]
  /\ bell \in BellType /\ overlapped \in BOOLEAN

-----------------------------------------------------------------------------
(* The rows *)

\* A channel is finalized once, by a handler that holds it meanwhile; what was recorded of it stays.
ChannelKept(c, p, s) ==
  /\ c.authorized = c.spent
  /\ c.blocked = TRUE => c.status = "failed"
  /\ c.status \in TerminalChannel => c.stage = "finalized" /\ c.settle = "payout"
  /\ c.status = "recovered" => c.refund # NoSig
  /\ c.distribution = c.settle
  /\ s # {} => c.settle = "payout"
  /\ p.at = "claiming" => c.status = "open" /\ c.stage = "finalization-started"
  /\ p.at = "recording" => c.status \in TerminalChannel
\* The newest flow is one of those there are.
TaskKept(t) == t.last[1] = "rejected" => t.rejected = TRUE
\* A check is an update.
ProviderKept(p) == p.checked <= p.updated
\* What a scene has no row of stays as it is.
SceneKept ==
  /\ scene.provider = FALSE => provider.health # "unhealthy" /\ provider.aged = FALSE /\ provider.checked # 0
  /\ scene.task = "none" => task.last[1] = "none" /\ channel.status = "reserved" /\ channel.stage = "prepared"

RowsKept == RowsTyped /\ ChannelKept(channel, payer, settlements) /\ TaskKept(task) /\ ProviderKept(provider)
            /\ SceneKept

-----------------------------------------------------------------------------
(* What a request answers *)

\* The condition under which a statement opens an incident.
Cause(fp) ==
  CASE fp = <<"provider", "unhealthy">>  -> provider.status = "active" /\ provider.health = "unhealthy"
    [] fp = <<"provider", "stale">>      -> provider.status = "active" /\ Unverified
    [] fp = <<"task", "failure">>        -> LatestFailed
    [] fp = <<"channel", "recovery">>    -> ActionFor = "inspect"
    [] fp = <<"channel", "recoverable">> -> ActionFor \in {"recover", "finalize"} /\ Remainder

\* The incidents that a statement reports, and those of all the statements a request has run.
ReportedBy(here) ==
  CASE here = "providers" -> {<<"provider", "unhealthy">>, <<"provider", "stale">>}
    [] here = "flows"     -> {<<"task", "failure">>}
    [] here = "channels"  -> {<<"channel", "recovery">>, <<"channel", "recoverable">>}
    [] OTHER              -> {}
Reported(at) ==
  CASE at = "providers" -> {}
    [] at = "flows"     -> ReportedBy("providers")
    [] at = "channels"  -> ReportedBy("providers") \cup ReportedBy("flows")
    [] OTHER            -> Incident

\* Only incidents are opened, and those are managed.
UpsertOK(u) ==
  /\ u.version[1] # "none"
  /\ u.fp \in Incident => u.state = "open" /\ u.managed = TRUE
  /\ u.fp \in History => u.state = "resolved"
EventOf(e, fp) == e.state = "open" => e.managed = TRUE /\ fp \in Incident /\ e.version[1] # "none"
EventsKept == \A fp \in Fingerprint : EventOf(events[fp], fp)

LoadKept(q) ==
  /\ q.at = "idle" => q = Idle
  /\ q.at \in {"idle", "resolving", "answer"} => q.todo = <<>>
  /\ \A u \in ToSet(q.todo) : UpsertOK(u)
  /\ \A fp \in Incident : /\ EventOf(q.rows[fp], fp)
                          /\ q.rows[fp].state = "none" => q.rows[fp].version = <<"none", 0>>

Pending(q, fp) == \E u \in ToSet(q.todo) : u.fp = fp

\* A request that nothing overlapped finds what there is.
Exact(q) ==
  q.undisturbed = TRUE =>
    /\ \A fp \in Incident : fp \in q.active <=> (Cause(fp) /\ fp \in Reported(q.at))
    /\ \A fp \in q.active : events[fp].state = "open" \/ Pending(q, fp)
    /\ \A fp \in Incident : Pending(q, fp) => fp \in q.active
    /\ q.at = "resolving" =>
         \A fp \in Incident : fp \in q.missing <=> (events[fp].state = "open" /\ fp \notin q.active)
    /\ q.at = "answer" =>
         \A fp \in Incident : IF fp \in OnPage(q.rows) THEN q.rows[fp].state = "open" <=> Cause(fp)
                                                       ELSE Cause(fp) => Crowded(fp, q.rows)

-----------------------------------------------------------------------------
(* Versions *)

\* A version is another one, or older.
Older(v, w) == v = w \/ v[1] = "none" \/ v[2] < w[2]

\* The version that the rows would give an incident now.
VersionOf(p) == IF p.checked = 0 THEN <<"edited", p.updated>> ELSE <<"checked", p.checked>>
VersionIn(fp, p, t, c) ==
  CASE fp \in ReportedBy("providers")    -> VersionOf(p)
    [] fp = <<"task", "failure">>        -> t.last
    [] fp = <<"channel", "recovery">>    -> <<c.stage, c.updated>>
    [] fp = <<"channel", "recoverable">> -> <<"updated", c.updated>>
Current(fp) == VersionIn(fp, provider, task, channel)

\* As long as no two requests overlap, versions only get newer on their way from the rows to the bell.
InOrder(q, fp) ==
  /\ \A u \in ToSet(q.todo) : u.fp = fp => Older(events[fp].version, u.version) /\ Older(u.version, Current(fp))
  /\ \A u, v \in ToSet(q.todo) : u.fp = fp /\ v.fp = fp => u.version = v.version
  /\ q.at = "answer" /\ fp \in OnPage(q.rows) =>
       Older(bell.seen[fp], q.rows[fp].version) /\ Older(q.rows[fp].version, events[fp].version)
BellInOrder(fp) ==
  /\ \A v \in VersionType : <<fp, v>> \in bell.toasted => v[1] # "none" /\ Older(v, bell.seen[fp])
  /\ Older(bell.seen[fp], events[fp].version) /\ Older(events[fp].version, Current(fp))
BellKept == overlapped = FALSE => bell.again = FALSE /\ \A fp \in Incident : BellInOrder(fp)

RequestKept(q) ==
  /\ LoadKept(q) /\ Exact(q)
  /\ overlapped = FALSE => \A fp \in Incident : InOrder(q, fp)
\* A request that nothing overlapped is the only one, and so is any until two of them overlap.
Separate ==
  \A k, l \in Loads :
    k # l /\ (overlapped = FALSE \/ load[k].undisturbed = TRUE) => load[k].at = "idle" \/ load[l].at = "idle"

Inv == RowsKept /\ FeedTyped /\ EventsKept /\ BellKept /\ Separate /\ \A l \in Loads : RequestKept(load[l])

-----------------------------------------------------------------------------
(* Data *)

\* Incidents are no history, and each is reported by one statement.
LEMMA Incidents ==
  /\ \A fp \in Fingerprint : fp \in Incident <=> fp \notin History
  /\ Incident \subseteq Fingerprint /\ History \subseteq Fingerprint
  /\ \A fp \in Incident : \/ fp \in ReportedBy("providers") \/ fp \in ReportedBy("flows")
                          \/ fp \in ReportedBy("channels")
  /\ \A here : ReportedBy(here) \subseteq Incident
  BY DEF Fingerprint, Incident, History, Signed, ReportedBy

\* The elements of a sequence.
LEMMA Elements ==
  ASSUME NEW S
  PROVE  /\ ToSet(<<>>) = {}
         /\ \A u : ToSet(<<u>>) = {u}
         /\ \A s, t \in Seq(S) : ToSet(s \o t) = ToSet(s) \cup ToSet(t) /\ s \o t \in Seq(S)
         /\ \A s \in Seq(S) : ToSet(s) \subseteq S
         /\ \A s \in Seq(S) : s # <<>> => /\ Head(s) \in ToSet(s) /\ Head(s) \in S /\ Tail(s) \in Seq(S)
                                          /\ ToSet(s) = {Head(s)} \cup ToSet(Tail(s))
  <1>1. ToSet(<<>>) = {} /\ \A u : ToSet(<<u>>) = {u}
    <2>1. ASSUME NEW u PROVE ToSet(<<u>>) = {u}
      <3>1. DOMAIN <<u>> = 1..1 /\ <<u>>[1] = u
        OBVIOUS
      <3> QED
        BY <3>1 DEF ToSet
    <2> QED
      BY <2>1 DEF ToSet
  <1>2. ASSUME NEW s \in Seq(S), NEW t \in Seq(S)
        PROVE  ToSet(s \o t) = ToSet(s) \cup ToSet(t) /\ s \o t \in Seq(S)
    <2>1. /\ s \o t \in Seq(S) /\ Len(s \o t) = Len(s) + Len(t) /\ Len(s) \in Nat /\ Len(t) \in Nat
          /\ DOMAIN s = 1..Len(s) /\ DOMAIN t = 1..Len(t) /\ DOMAIN (s \o t) = 1..Len(s) + Len(t)
          /\ \A i \in 1..Len(s) + Len(t) : (s \o t)[i] = IF i <= Len(s) THEN s[i] ELSE t[i - Len(s)]
      OBVIOUS
    <2>2. ASSUME NEW i \in DOMAIN (s \o t)
          PROVE  (s \o t)[i] \in ToSet(s) \cup ToSet(t)
      <3>1. CASE i <= Len(s)
        BY <2>1, <3>1 DEF ToSet
      <3>2. CASE ~(i <= Len(s))
        <4>1. i - Len(s) \in 1..Len(t)
          BY <2>1, <3>2
        <4> QED
          BY <2>1, <3>2, <4>1 DEF ToSet
      <3> QED
        BY <3>1, <3>2
    <2>3. ASSUME NEW i \in DOMAIN s
          PROVE  s[i] \in ToSet(s \o t)
      <3>1. i \in 1..Len(s) + Len(t) /\ (s \o t)[i] = s[i]
        BY <2>1
      <3> QED
        BY <2>1, <3>1 DEF ToSet
    <2>4. ASSUME NEW i \in DOMAIN t
          PROVE  t[i] \in ToSet(s \o t)
      <3>1. i + Len(s) \in 1..Len(s) + Len(t) /\ ~(i + Len(s) <= Len(s)) /\ (i + Len(s)) - Len(s) = i
        BY <2>1
      <3>2. (s \o t)[i + Len(s)] = t[i]
        BY <2>1, <3>1
      <3> QED
        BY <2>1, <3>1, <3>2 DEF ToSet
    <2> QED
      BY <2>1, <2>2, <2>3, <2>4 DEF ToSet
  <1>3. ASSUME NEW s \in Seq(S), s # <<>>
        PROVE  /\ Head(s) \in ToSet(s) /\ Head(s) \in S /\ Tail(s) \in Seq(S)
               /\ ToSet(s) = {Head(s)} \cup ToSet(Tail(s))
    <2>1. /\ Len(s) \in Nat /\ Len(s) > 0 /\ DOMAIN s = 1..Len(s) /\ Head(s) = s[1] /\ s[1] \in S
          /\ Tail(s) \in Seq(S) /\ Len(Tail(s)) = Len(s) - 1 /\ DOMAIN Tail(s) = 1..Len(s) - 1
          /\ \A i \in 1..Len(s) - 1 : Tail(s)[i] = s[i + 1]
      BY <1>3
    <2>2. ASSUME NEW i \in DOMAIN s
          PROVE  s[i] = Head(s) \/ s[i] \in ToSet(Tail(s))
      <3>1. CASE i = 1
        BY <2>1, <3>1
      <3>2. CASE i # 1
        <4>1. i - 1 \in 1..Len(s) - 1 /\ (i - 1) + 1 = i
          BY <2>1, <3>2
        <4>2. Tail(s)[i - 1] = s[i]
          BY <2>1, <4>1
        <4> QED
          BY <2>1, <4>1, <4>2 DEF ToSet
      <3> QED
        BY <3>1, <3>2
    <2>3. ASSUME NEW i \in DOMAIN Tail(s)
          PROVE  Tail(s)[i] \in ToSet(s)
      <3>1. i + 1 \in 1..Len(s) /\ Tail(s)[i] = s[i + 1]
        BY <2>1
      <3> QED
        BY <2>1, <3>1 DEF ToSet
    <2>4. 1 \in DOMAIN s /\ Head(s) \in ToSet(s)
      BY <2>1 DEF ToSet
    <2> QED
      BY <2>1, <2>2, <2>3, <2>4 DEF ToSet
  <1>4. ASSUME NEW s \in Seq(S) PROVE ToSet(s) \subseteq S
    BY DEF ToSet
  <1> QED
    BY <1>1, <1>2, <1>3, <1>4

\* Older is an order that ends with what is newest.
LEMMA OlderStill ==
  ASSUME NEW v \in VersionType, NEW w \in VersionType, NEW x \in VersionType, Older(v, w), Older(w, x)
  PROVE  /\ Older(v, x)
         /\ (v[1] # "none" /\ v = x) => w = x
  BY DEF Older, VersionType

\* Any version is older than itself, or the same.
LEMMA OlderSelf == \A v : Older(v, v)
  BY DEF Older

-----------------------------------------------------------------------------
(* The writes of rows *)

\* What a write of a row does: it keeps the rows, makes no version older, and disturbs the requests.
RowStep ==
  /\ RowsKept' /\ \A fp \in Incident : Older(Current(fp), Current(fp)')
  /\ load' = [l \in Loads |-> [load[l] EXCEPT !.undisturbed = FALSE]] /\ UNCHANGED <<events, bell, overlapped>>

\* A write of a row changes of the scene only its count, and disturbs the requests.
LEMMA Writes ==
  ASSUME RowsKept, Write
  PROVE  /\ scene' \in SceneType /\ scene'.provider = scene.provider /\ scene'.task = scene.task
         /\ load' = [l \in Loads |-> [load[l] EXCEPT !.undisturbed = FALSE]] /\ UNCHANGED <<events, bell, overlapped>>
  <1>1. scene \in SceneType /\ scene.writes > 0 /\ scene' = [scene EXCEPT !.writes = @ - 1]
    BY DEF RowsKept, RowsTyped, Write
  <1>2. scene.writes - 1 \in Nat
    BY <1>1 DEF SceneType
  <1> QED
    BY <1>1, <1>2 DEF SceneType, Write

\* A write of the provider.
LEMMA ProviderWritten ==
  ASSUME RowsKept, NEW row \in ProviderType, WriteProvider(row), ProviderKept(row), row.updated >= provider.updated,
         row.checked = provider.checked \/ (row.checked > provider.updated /\ row.checked > provider.checked)
  PROVE  RowStep
  <1>1. /\ scene.provider = TRUE /\ Write /\ provider' = row /\ UNCHANGED <<task, channel, settlements, payer>>
    BY DEF WriteProvider, RowsKept, RowsTyped, SceneType
  <1>2. /\ scene' \in SceneType /\ scene'.provider = TRUE /\ scene'.task = scene.task
        /\ load' = [l \in Loads |-> [load[l] EXCEPT !.undisturbed = FALSE]] /\ UNCHANGED <<events, bell, overlapped>>
    BY <1>1, Writes
  <1>3. RowsKept'
    BY <1>1, <1>2 DEF RowsKept, RowsTyped, SceneKept, ChannelKept, TaskKept, ProviderKept
  <1>4. ASSUME NEW fp \in Incident
        PROVE  Older(Current(fp), Current(fp)')
    <2>1. provider.checked \in Nat /\ provider.updated \in Nat /\ row.checked \in Nat /\ row.updated \in Nat
      BY DEF RowsKept, RowsTyped, ProviderType
    <2>2. CASE fp \in ReportedBy("providers")
      <3>1. Current(fp) = VersionOf(provider) /\ Current(fp)' = VersionOf(row)
        BY <1>1, <2>2 DEF Current, VersionIn, ReportedBy
      <3>2. Older(VersionOf(provider), VersionOf(row))
        BY <2>1 DEF Older, VersionOf
      <3> QED
        BY <3>1, <3>2
    <2>3. CASE fp \notin ReportedBy("providers")
      <3>1. Current(fp)' = Current(fp)
        <4>1. \/ fp = <<"task", "failure">> \/ fp = <<"channel", "recovery">>
              \/ fp = <<"channel", "recoverable">>
          BY <2>3, Incidents DEF ReportedBy
        <4> QED
          BY <1>1, <2>3, <4>1 DEF Current, VersionIn
      <3> QED
        BY <3>1 DEF Older
    <2> QED
      BY <2>2, <2>3
  <1> QED
    BY <1>2, <1>3, <1>4 DEF RowStep

\* A write of the task and its channel.
LEMMA TaskWritten ==
  ASSUME RowsKept, NEW t \in TaskType, NEW c \in ChannelType, NEW p \in PayerType, WriteTask(t, c, p),
         ChannelKept(c, p, settlements), TaskKept(t), t.last = task.last \/ t.last[2] > task.last[2],
         (c.stage = channel.stage /\ c.updated = channel.updated) \/ c.updated > channel.updated
  PROVE  RowStep
  <1>1. /\ scene.task # "none" /\ Write /\ task' = t /\ channel' = c /\ payer' = p
        /\ UNCHANGED <<provider, settlements>>
    BY DEF WriteTask
  <1>2. /\ scene' \in SceneType /\ scene'.provider = scene.provider /\ scene'.task = scene.task
        /\ load' = [l \in Loads |-> [load[l] EXCEPT !.undisturbed = FALSE]] /\ UNCHANGED <<events, bell, overlapped>>
    BY <1>1, Writes
  <1>3. RowsKept'
    BY <1>1, <1>2 DEF RowsKept, RowsTyped, SceneKept, ChannelKept, TaskKept, ProviderKept
  <1>4. ASSUME NEW fp \in Incident
        PROVE  Older(Current(fp), Current(fp)')
    <2>1. channel.updated \in Nat /\ c.updated \in Nat /\ task.last[2] \in Nat /\ t.last[2] \in Nat
      BY DEF RowsKept, RowsTyped, ChannelType, TaskType, FlowType
    <2>2. CASE fp \in ReportedBy("channels")
      <3>1. \/ fp = <<"channel", "recovery">>
            \/ fp = <<"channel", "recoverable">>
        BY <2>2 DEF ReportedBy
      <3>2. CASE fp = <<"channel", "recovery">>
        <4>1. Current(fp) = <<channel.stage, channel.updated>> /\ Current(fp)' = <<c.stage, c.updated>>
          BY <1>1, <3>2 DEF Current, VersionIn, ReportedBy
        <4> QED
          BY <2>1, <4>1 DEF Older
      <3>3. CASE fp = <<"channel", "recoverable">>
        <4>1. Current(fp) = <<"updated", channel.updated>> /\ Current(fp)' = <<"updated", c.updated>>
          BY <1>1, <3>3 DEF Current, VersionIn, ReportedBy
        <4> QED
          BY <2>1, <4>1 DEF Older
      <3> QED
        BY <3>1, <3>2, <3>3
    <2>3. CASE fp = <<"task", "failure">>
      <3>1. Current(fp) = task.last /\ Current(fp)' = t.last
        BY <1>1, <2>3 DEF Current, VersionIn, ReportedBy
      <3> QED
        BY <2>1, <3>1 DEF Older
    <2>4. CASE fp \in ReportedBy("providers")
      <3>1. Current(fp)' = Current(fp)
        BY <1>1, <2>4 DEF Current, VersionIn, ReportedBy
      <3> QED
        BY <3>1 DEF Older
    <2>5. fp \in ReportedBy("channels") \/ fp = <<"task", "failure">> \/ fp \in ReportedBy("providers")
      BY Incidents DEF ReportedBy
    <2> QED
      BY <2>2, <2>3, <2>4, <2>5
  <1> QED
    BY <1>2, <1>3, <1>4 DEF RowStep

\* Checks, edits and the status of the provider.
LEMMA ProviderSteps ==
  ASSUME RowsKept, CheckHealth \/ EditProvider \/ SetStatus \/ CheckAges
  PROVE  RowStep
  <1>1. /\ provider \in ProviderType /\ provider.checked \in Nat /\ provider.updated \in Nat
        /\ provider.checked <= provider.updated
    BY DEF RowsKept, RowsTyped, ProviderType, ProviderKept
  <1>2. provider.updated + 1 \in Nat /\ provider.updated + 1 > provider.updated /\ provider.updated + 1 > provider.checked
    BY <1>1
  <1>3. CASE CheckHealth
    <2>1. PICK health \in {"healthy", "unhealthy"} :
            WriteProvider([provider EXCEPT !.health = health, !.checked = provider.updated + 1,
                                           !.updated = provider.updated + 1, !.aged = FALSE])
      BY <1>3 DEF CheckHealth
    <2>2. PICK row : row = [provider EXCEPT !.health = health, !.checked = provider.updated + 1,
                                            !.updated = provider.updated + 1, !.aged = FALSE]
      OBVIOUS
    <2>3. row \in ProviderType /\ row.checked = provider.updated + 1 /\ row.updated = provider.updated + 1
      BY <1>1, <1>2, <2>2 DEF ProviderType
    <2>4. ProviderKept(row)
      BY <1>2, <2>3 DEF ProviderKept
    <2>5. row.checked > provider.updated /\ row.checked > provider.checked /\ row.updated >= provider.updated
      BY <1>1, <2>3
    <2> QED
      BY <2>1, <2>2, <2>3, <2>4, <2>5, ProviderWritten
  <1>4. ASSUME NEW row \in ProviderType, WriteProvider(row), row.checked = provider.checked,
               row.updated = provider.updated \/ row.updated = provider.updated + 1
        PROVE  RowStep
    <2>1. ProviderKept(row) /\ row.updated >= provider.updated
      BY <1>1, <1>4 DEF ProviderKept
    <2> QED
      BY <1>4, <2>1, ProviderWritten
  <1>5. CASE EditProvider
    <2>1. PICK row : row = [provider EXCEPT !.health = "unknown", !.updated = provider.updated + 1]
      OBVIOUS
    <2>2. row \in ProviderType /\ row.checked = provider.checked /\ row.updated = provider.updated + 1
      BY <1>1, <1>2, <2>1 DEF ProviderType
    <2>3. WriteProvider(row)
      BY <1>5, <2>1 DEF EditProvider
    <2> QED
      BY <1>4, <2>2, <2>3
  <1>6. CASE SetStatus
    <2>1. PICK status \in {"active", "disabled"} :
            WriteProvider([provider EXCEPT !.status = status, !.updated = provider.updated + 1])
      BY <1>6 DEF SetStatus
    <2>2. PICK row : row = [provider EXCEPT !.status = status, !.updated = provider.updated + 1]
      OBVIOUS
    <2>3. row \in ProviderType /\ row.checked = provider.checked /\ row.updated = provider.updated + 1
      BY <1>1, <1>2, <2>2 DEF ProviderType
    <2> QED
      BY <1>4, <2>1, <2>2, <2>3
  <1>7. CASE CheckAges
    <2>1. PICK row : row = [provider EXCEPT !.aged = TRUE]
      OBVIOUS
    <2>2. row \in ProviderType /\ row.checked = provider.checked /\ row.updated = provider.updated
      BY <1>1, <2>1 DEF ProviderType
    <2>3. WriteProvider(row)
      BY <1>7, <2>1 DEF CheckAges
    <2> QED
      BY <1>4, <2>2, <2>3
  <1> QED
    BY <1>3, <1>5, <1>6, <1>7

\* Touching a channel makes its version newer.
LEMMA TouchedChannel ==
  ASSUME NEW c \in ChannelType
  PROVE  /\ Touched(c) \in ChannelType /\ Touched(c).updated = c.updated + 1
         /\ \A p, s : ChannelKept(c, p, s) <=> ChannelKept(Touched(c), p, s)
  BY DEF Touched, ChannelType, ChannelKept

\* The task runs, ends and expires.
LEMMA TaskSteps ==
  ASSUME RowsKept, BeginExecution \/ SaveExecution \/ Cancel \/ Expire
  PROVE  RowStep
  <1>1. /\ task \in TaskType /\ channel \in ChannelType /\ payer \in PayerType /\ channel.updated \in Nat
        /\ ChannelKept(channel, payer, settlements) /\ TaskKept(task)
    BY DEF RowsKept, RowsTyped, ChannelType
  <1>2. CASE BeginExecution
    <2>1. PICK t : t = [task EXCEPT !.running = task.running + 1]
      OBVIOUS
    <2>2. t \in TaskType /\ TaskKept(t) /\ t.last = task.last
      BY <1>1, <2>1 DEF TaskType, TaskKept
    <2>3. WriteTask(t, channel, payer)
      BY <1>2, <2>1 DEF BeginExecution
    <2> QED
      BY <1>1, <2>2, <2>3, TaskWritten
  <1>3. CASE SaveExecution
    <2>1. PICK outcome \in {"none", "fulfilled", "failed", "rejected"}, amount \in 0..Ceiling :
            /\ task.running > 0
            /\ \E newest \in Newest(outcome) :
                 WriteTask(Saved(outcome, amount, newest),
                           Touched([channel EXCEPT !.authorized = amount, !.spent = amount]), payer)
      BY <1>3 DEF SaveExecution
    <2>2. PICK newest \in Newest(outcome) :
             WriteTask(Saved(outcome, amount, newest),
                       Touched([channel EXCEPT !.authorized = amount, !.spent = amount]), payer)
      BY <2>1
    <2>3. PICK t : t = Saved(outcome, amount, newest)
      OBVIOUS
    <2>4. PICK c : c = [channel EXCEPT !.authorized = amount, !.spent = amount]
      OBVIOUS
    <2>5. /\ newest \in FlowType /\ (newest = task.last \/ newest[2] > task.last[2])
          /\ newest[1] = "rejected" => outcome = "rejected" \/ task.rejected = TRUE
      <3>1. /\ task.last \in FlowType /\ task.last[2] \in Nat
            /\ task.last[2] + 1 \in Nat /\ task.last[2] + 1 > task.last[2]
        BY <1>1 DEF TaskType, FlowType
      <3>2. \/ newest = task.last \/ newest = <<"call", task.last[2] + 1>>
            \/ newest = <<"rejected", task.last[2] + 1>> /\ outcome = "rejected"
        BY <2>2 DEF Newest
      <3> QED
        BY <1>1, <3>1, <3>2 DEF TaskKept, FlowType
    <2>6. t \in TaskType /\ TaskKept(t) /\ (t.last = task.last \/ t.last[2] > task.last[2])
      <3>1. task.running - 1 \in Nat /\ 0 \in 0..Ceiling
        BY <1>1, <2>1, ConsoleAssumption DEF TaskType
      <3>2. /\ t.status \in TerminalTask \cup {"active"} /\ t.expired = task.expired
            /\ t.call \in {"none", "fulfilled", "failed"} /\ t.owed \in 0..Ceiling /\ t.paid \in 0..Ceiling
            /\ t.last = newest /\ t.running = task.running - 1
        BY <1>1, <2>3 DEF Saved, TaskType, TerminalTask
      <3>3. t.rejected \in BOOLEAN /\ (t.rejected <=> task.rejected \/ outcome = "rejected")
        BY <1>1, <2>3 DEF Saved, TaskType
      <3>4. TaskKept(t)
        BY <2>5, <3>2, <3>3 DEF TaskKept
      <3>5. t \in TaskType
        BY <1>1, <2>3, <2>5, <3>1, <3>2, <3>3 DEF Saved, TaskType
      <3> QED
        BY <2>5, <3>2, <3>4, <3>5
    <2>7. c \in ChannelType /\ ChannelKept(c, payer, settlements) /\ c.updated = channel.updated
      BY <1>1, <2>4 DEF ChannelType, ChannelKept
    <2>8. /\ Touched(c) \in ChannelType /\ Touched(c).updated = c.updated + 1
          /\ ChannelKept(Touched(c), payer, settlements)
      BY <2>7, TouchedChannel
    <2>9. Touched(c).updated > channel.updated
      BY <1>1, <2>7, <2>8
    <2>10. WriteTask(t, Touched(c), payer)
      BY <2>2, <2>3, <2>4
    <2> QED
      BY <1>1, <2>6, <2>8, <2>9, <2>10, TaskWritten
  <1>4. CASE Cancel
    <2>1. PICK t : t = [task EXCEPT !.status = "cancelled"]
      OBVIOUS
    <2>2. t \in TaskType /\ TaskKept(t) /\ t.last = task.last
      BY <1>1, <2>1 DEF TaskType, TaskKept, TerminalTask
    <2> QED
      BY <1>1, <1>4, <2>1, <2>2, TaskWritten DEF Cancel
  <1>5. CASE Expire
    <2>1. PICK t : t = [task EXCEPT !.expired = TRUE]
      OBVIOUS
    <2>2. t \in TaskType /\ TaskKept(t) /\ t.last = task.last
      BY <1>1, <2>1 DEF TaskType, TaskKept
    <2> QED
      BY <1>1, <1>5, <2>1, <2>2, TaskWritten DEF Expire
  <1> QED
    BY <1>2, <1>3, <1>4, <1>5

\* The channel is opened and finalized.
LEMMA ChannelSteps ==
  ASSUME RowsKept, \/ OpenChannel \/ BeginFinalization \/ RecordPayout \/ RecordSettlement
                   \/ FinalizationFails \/ PayerDies
  PROVE  RowStep
  <1>1. /\ task \in TaskType /\ channel \in ChannelType /\ payer \in PayerType /\ channel.updated \in Nat
        /\ ChannelKept(channel, payer, settlements) /\ TaskKept(task) /\ settlements \in SUBSET SettlementType
    BY DEF RowsKept, RowsTyped, ChannelType
  <1>2. ASSUME NEW c \in ChannelType, NEW p \in PayerType, ChannelKept(c, p, settlements),
               c.updated = channel.updated, WriteTask(task, Touched(c), p)
        PROVE  RowStep
    BY <1>1, <1>2, TouchedChannel, TaskWritten
  <1>3. CASE OpenChannel
    <2>1. PICK c : c = [channel EXCEPT !.status = "open", !.stage = "open", !.open = "opening"]
      OBVIOUS
    <2>2. c \in ChannelType /\ c.updated = channel.updated
      BY <1>1, <2>1 DEF ChannelType, Signature, Stage
    <2>3. ChannelKept(c, payer, settlements)
      BY <1>1, <1>3, <2>1 DEF OpenChannel, ChannelKept, ChannelType, TerminalChannel
    <2> QED
      BY <1>1, <1>2, <1>3, <2>1, <2>2, <2>3 DEF OpenChannel
  <1>4. CASE BeginFinalization
    <2>1. PICK c : c = [channel EXCEPT !.stage = "finalization-started"]
      OBVIOUS
    <2>2. PICK p : p = [at |-> "claiming", amount |-> channel.authorized]
      OBVIOUS
    <2>3. c \in ChannelType /\ c.updated = channel.updated /\ p \in PayerType
      BY <1>1, <2>1, <2>2 DEF ChannelType, Stage, BlockedStage, PayerType
    <2>4. ChannelKept(c, p, settlements)
      BY <1>1, <1>4, <2>1, <2>2 DEF BeginFinalization, ChannelKept, ChannelType, TerminalChannel
    <2> QED
      BY <1>2, <1>4, <2>1, <2>2, <2>3, <2>4 DEF BeginFinalization
  <1>5. CASE RecordPayout
    <2>1. PICK c : c = [channel EXCEPT
                          !.status = IF payer.amount = 0 THEN "recovered" ELSE "distributed",
                          !.stage = "finalized", !.settle = "payout", !.distribution = "payout",
                          !.refund = IF payer.amount < Ceiling THEN "payout" ELSE @]
      OBVIOUS
    <2>2. PICK p : p = [payer EXCEPT !.at = "recording"]
      OBVIOUS
    <2>3. c \in ChannelType /\ c.updated = channel.updated /\ p \in PayerType
      BY <1>1, <2>1, <2>2 DEF ChannelType, Stage, TerminalChannel, Signature, PayerType
    <2>4. payer.amount = 0 => payer.amount < Ceiling
      BY ConsoleAssumption
    <2>5. ChannelKept(c, p, settlements)
      BY <1>1, <1>5, <2>1, <2>2, <2>4 DEF RecordPayout, ChannelKept, ChannelType, TerminalChannel, PayerType, NoSig
    <2> QED
      BY <1>2, <1>5, <2>1, <2>2, <2>3, <2>5 DEF RecordPayout
  <1>6. CASE RecordSettlement
    <2>1. /\ payer.at = "recording" /\ Write /\ UNCHANGED <<provider, task, channel>>
          /\ settlements' = settlements \cup {[signature |-> "payout", amount |-> payer.amount]}
          /\ payer' = [payer EXCEPT !.at = "idle"]
      BY <1>6 DEF RecordSettlement
    <2>2. /\ scene' \in SceneType /\ scene'.provider = scene.provider /\ scene'.task = scene.task
          /\ load' = [l \in Loads |-> [load[l] EXCEPT !.undisturbed = FALSE]] /\ UNCHANGED <<events, bell, overlapped>>
      BY <2>1, Writes
    <2>3. settlements' \in SUBSET SettlementType /\ payer' \in PayerType /\ payer'.at = "idle"
      BY <1>1, <2>1 DEF SettlementType, PayerType
    <2>4. channel.settle = "payout"
      BY <1>1, <2>1 DEF ChannelKept
    <2>5. ChannelKept(channel', payer', settlements')
      BY <1>1, <2>1, <2>3, <2>4 DEF ChannelKept
    <2>6. RowsKept'
      BY <2>1, <2>2, <2>3, <2>5 DEF RowsKept, RowsTyped, SceneKept, TaskKept, ProviderKept
    <2>7. \A fp \in Incident : Older(Current(fp), Current(fp)')
      <3>1. ASSUME NEW fp \in Incident PROVE Current(fp)' = Current(fp)
        BY <2>1 DEF Current, VersionIn
      <3> QED
        BY <3>1, OlderSelf
    <2> QED
      BY <2>2, <2>6, <2>7 DEF RowStep
  <1>7. CASE FinalizationFails
    <2>1. PICK c : c = [channel EXCEPT !.status = "failed", !.stage = "finalization-ambiguous", !.blocked = TRUE]
      OBVIOUS
    <2>2. PICK p : p = [payer EXCEPT !.at = "idle"]
      OBVIOUS
    <2>3. c \in ChannelType /\ c.updated = channel.updated /\ p \in PayerType
      BY <1>1, <2>1, <2>2 DEF ChannelType, Stage, BlockedStage, PayerType
    <2>4. ChannelKept(c, p, settlements)
      BY <1>1, <2>1, <2>2 DEF ChannelKept, ChannelType, TerminalChannel, PayerType
    <2> QED
      BY <1>2, <1>7, <2>1, <2>2, <2>3, <2>4 DEF FinalizationFails
  <1>8. CASE PayerDies
    <2>1. PICK p : p = [payer EXCEPT !.at = "idle"]
      OBVIOUS
    <2>2. p \in PayerType /\ ChannelKept(channel, p, settlements)
      BY <1>1, <2>1 DEF PayerType, ChannelKept
    <2> QED
      BY <1>1, <1>8, <2>1, <2>2, TaskWritten DEF PayerDies
  <1> QED
    BY <1>3, <1>4, <1>5, <1>6, <1>7, <1>8

\* No write of a row breaks what the rows keep.
LEMMA RowSteps ==
  ASSUME RowsKept, WriteRows
  PROVE  RowStep
  BY ProviderSteps, TaskSteps, ChannelSteps DEF WriteRows

-----------------------------------------------------------------------------
(* Requests *)

\* The version that the rows give an incident is one.
LEMMA VersionTyped ==
  ASSUME NEW p \in ProviderType, NEW t \in TaskType, NEW c \in ChannelType, NEW fp \in Incident
  PROVE  /\ VersionIn(fp, p, t, c) \in VersionType
         /\ fp # <<"task", "failure">> \/ t.last[1] # "none" => VersionIn(fp, p, t, c)[1] # "none"
  <1>1. p.checked \in Nat /\ p.updated \in Nat /\ c.updated \in Nat /\ c.stage \in Stage /\ t.last \in FlowType
    BY DEF ProviderType, ChannelType, TaskType
  <1>2. {"checked", "edited", "updated"} \cup Stage \subseteq Version \ {"none"}
    BY DEF Version, Stage, BlockedStage
  <1>3. ASSUME NEW x \in {"checked", "edited", "updated"} \cup Stage, NEW i \in Nat
        PROVE  <<x, i>> \in VersionType /\ <<x, i>>[1] # "none"
    <2>1. x \in Version /\ x # "none" /\ <<x, i>>[1] = x
      BY <1>2
    <2> QED
      BY <2>1 DEF VersionType
  <1>4. CASE fp \in ReportedBy("providers")
    <2>1. VersionIn(fp, p, t, c) = <<"checked", p.checked>> \/ VersionIn(fp, p, t, c) = <<"edited", p.updated>>
      BY <1>4 DEF VersionIn, ReportedBy, VersionOf
    <2> QED
      BY <1>1, <1>3, <2>1
  <1>5. CASE fp = <<"task", "failure">>
    <2>1. VersionIn(fp, p, t, c) = t.last
      BY <1>5 DEF VersionIn, ReportedBy
    <2>2. t.last \in VersionType
      BY <1>1 DEF FlowType, VersionType, Version
    <2> QED
      BY <1>5, <2>1, <2>2
  <1>6. CASE fp = <<"channel", "recovery">>
    <2>1. VersionIn(fp, p, t, c) = <<c.stage, c.updated>>
      BY <1>6 DEF VersionIn, ReportedBy
    <2> QED
      BY <1>1, <1>3, <2>1
  <1>7. CASE fp = <<"channel", "recoverable">>
    <2>1. VersionIn(fp, p, t, c) = <<"updated", c.updated>>
      BY <1>7 DEF VersionIn, ReportedBy
    <2> QED
      BY <1>1, <1>3, <2>1
  <1> QED
    BY <1>4, <1>5, <1>6, <1>7, Incidents DEF ReportedBy

\* A request that is none is in order, before and after any step.
LEMMA IdleKept == RequestKept(Idle) /\ RequestKept(Idle)' /\ Idle \in LoadType
  <1>1. ToSet(<<>>) = {}
    BY Elements
  <1>2. /\ Idle.at = "idle" /\ Idle.todo = <<>> /\ Idle.undisturbed = FALSE
        /\ \A fp \in Incident : Idle.rows[fp].state = "none" /\ Idle.rows[fp].version = <<"none", 0>>
    BY DEF Idle, NoRows, NoEvent
  <1>3. RequestKept(Idle) /\ RequestKept(Idle)'
    BY <1>1, <1>2 DEF RequestKept, LoadKept, Exact, InOrder, EventOf, Pending
  <1>4. <<"none", 0>> \in VersionType
    BY DEF VersionType, Version
  <1>5. NoRows \in [Incident -> EventType]
    BY <1>4 DEF NoRows, NoEvent, EventType
  <1>6. <<>> \in Seq(UpsertType)
    OBVIOUS
  <1> QED
    BY <1>3, <1>5, <1>6 DEF Idle, LoadType, Statement

\* What holds of a request after a step holds of the stored one.
LEMMA Stored ==
  ASSUME NEW l \in Loads, NEW n, load'[l] = n, RequestKept(n)'
  PROVE  RequestKept(load[l])'
  BY DEF RequestKept, LoadKept, Exact, InOrder, Pending

\* A request moves: those beside it are none, or were overlapped already.
LEMMA OneMoves ==
  ASSUME Inv, NEW l \in Loads, load[l].at # "idle", NEW n \in LoadType,
         load' = [load EXCEPT ![l] = n], RequestKept(n)',
         n.undisturbed = TRUE => load[l].undisturbed = TRUE, overlapped' = overlapped
  PROVE  /\ load' \in [Loads -> LoadType] /\ Separate'
         /\ \A k \in Loads : RequestKept(load[k])'
  <1>1. /\ load \in [Loads -> LoadType] /\ Separate /\ overlapped \in BOOLEAN
        /\ \A k \in Loads : LoadKept(load[k])
    BY DEF Inv, FeedTyped, RequestKept
  <1>2. /\ load' \in [Loads -> LoadType] /\ load'[l] = n
        /\ \A k \in Loads \ {l} : load'[k] = load[k]
    BY <1>1
  <1>3. ASSUME NEW k \in Loads PROVE RequestKept(load[k])'
    <2>1. CASE k = l
      BY <1>2, <2>1, Stored
    <2>2. CASE k # l
      <3>1. PICK q \in LoadType : q = load[k]
        BY <1>1
      <3>2. load'[k] = q /\ LoadKept(q)
        BY <1>1, <1>2, <2>2, <3>1
      <3>3. RequestKept(q)'
        <4>1. CASE q.at = "idle"
          BY <3>2, <4>1, IdleKept DEF LoadKept
        <4>2. CASE q.at # "idle"
          <5>1. overlapped # FALSE /\ q.undisturbed # TRUE
            BY <1>1, <2>2, <3>1, <4>2 DEF Separate
          <5> QED
            BY <3>2, <5>1 DEF RequestKept, LoadKept, Exact
        <4> QED
          BY <4>1, <4>2
      <3> QED
        BY <3>2, <3>3, Stored
    <2> QED
      BY <2>1, <2>2
  <1>4. Separate'
    BY <1>1, <1>2 DEF Separate
  <1> QED
    BY <1>2, <1>3, <1>4

\* Writing a row disturbs every request, and makes newer what they are to find.
LEMMA WriteStep ==
  ASSUME Inv, WriteRows
  PROVE  Inv'
  <1>1. /\ RowsKept' /\ \A fp \in Incident : Older(Current(fp), Current(fp)')
        /\ load' = [l \in Loads |-> [load[l] EXCEPT !.undisturbed = FALSE]]
        /\ events' = events /\ bell' = bell /\ overlapped' = overlapped
    BY RowSteps DEF Inv, RowStep
  <1>2. /\ events \in [Fingerprint -> EventType] /\ load \in [Loads -> LoadType]
        /\ bell \in BellType /\ overlapped \in BOOLEAN
        /\ EventsKept /\ BellKept /\ Separate /\ \A l \in Loads : RequestKept(load[l])
    BY DEF Inv, FeedTyped
  <1>3. ASSUME NEW fp \in Incident, NEW v \in VersionType, Older(v, Current(fp))
        PROVE  Older(v, Current(fp)')
    <2>1. /\ VersionIn(fp, provider, task, channel) \in VersionType
          /\ VersionIn(fp, provider', task', channel') \in VersionType
      <3>1. provider \in ProviderType /\ task \in TaskType /\ channel \in ChannelType
        BY DEF Inv, RowsKept, RowsTyped
      <3>2. provider' \in ProviderType /\ task' \in TaskType /\ channel' \in ChannelType
        BY <1>1 DEF RowsKept, RowsTyped
      <3> QED
        BY <3>1, <3>2, VersionTyped
    <2>2. PICK w \in VersionType, x \in VersionType :
            w = VersionIn(fp, provider, task, channel) /\ x = VersionIn(fp, provider', task', channel')
      BY <2>1
    <2>3. Current(fp) = w /\ Current(fp)' = x
      BY <2>2 DEF Current, VersionIn
    <2>4. Older(v, w) /\ Older(w, x)
      BY <1>1, <1>3, <2>3
    <2>5. Older(v, x)
      BY <2>4, OlderStill
    <2> QED
      BY <2>3, <2>5
  <1>4. ASSUME NEW l \in Loads
        PROVE  RequestKept(load[l])' /\ load'[l] \in LoadType /\ load'[l].at = load[l].at
    <2>1. PICK q \in LoadType : q = load[l]
      BY <1>2
    <2>2. PICK n : n = [q EXCEPT !.undisturbed = FALSE]
      OBVIOUS
    <2>3. /\ n \in LoadType /\ n.undisturbed = FALSE /\ n.at = q.at /\ n.todo = q.todo /\ n.rows = q.rows
          /\ n.active = q.active
      BY <2>1, <2>2 DEF LoadType
    <2>4. load'[l] = n /\ RequestKept(q) /\ q.todo \in Seq(UpsertType)
      BY <1>1, <1>2, <2>1, <2>2 DEF LoadType
    <2>5. LoadKept(n)
      <3>1. q.undisturbed = FALSE => n = q
        BY <2>1, <2>2 DEF LoadType
      <3>2. Idle.undisturbed = FALSE
        BY DEF Idle
      <3> QED
        BY <2>3, <2>4, <3>1, <3>2 DEF RequestKept, LoadKept
    <2>6. ASSUME overlapped' = FALSE, NEW fp \in Incident
          PROVE  InOrder(n, fp)'
      <3>1. InOrder(q, fp)
        BY <1>1, <2>4, <2>6 DEF RequestKept
      <3>2. ASSUME NEW u \in ToSet(q.todo) PROVE u.version \in VersionType
        <4>1. u \in UpsertType
          BY <2>4, <3>2, Elements
        <4> QED
          BY <4>1 DEF UpsertType
      <3>3. \A u \in ToSet(n.todo) : u.fp = fp => Older(events[fp].version, u.version) /\ Older(u.version, Current(fp)')
        BY <1>3, <2>3, <3>1, <3>2 DEF InOrder
      <3> QED
        BY <1>1, <2>3, <3>1, <3>3 DEF InOrder
    <2>7. Exact(n)'
      BY <2>3 DEF Exact
    <2>8. RequestKept(n)'
      BY <2>5, <2>6, <2>7 DEF RequestKept, LoadKept
    <2> QED
      BY <2>3, <2>4, <2>1, <2>8, Stored
  <1>5. load' \in [Loads -> LoadType]
    BY <1>1, <1>4
  <1>6. Separate'
    <2>1. \A l \in Loads : load'[l].undisturbed = FALSE
      BY <1>1, <1>2 DEF LoadType
    <2> QED
      BY <1>1, <1>2, <1>4, <2>1 DEF Separate
  <1>7. BellKept'
    <2>1. ASSUME overlapped' = FALSE, NEW fp \in Incident
          PROVE  BellInOrder(fp)'
      <3>1. BellInOrder(fp) /\ events[fp].version \in VersionType
        BY <1>1, <1>2, <2>1, Incidents DEF BellKept, EventType
      <3>2. Older(events[fp].version, Current(fp)')
        BY <1>3, <3>1 DEF BellInOrder
      <3> QED
        BY <1>1, <3>1, <3>2 DEF BellInOrder
    <2> QED
      BY <1>1, <1>2, <2>1 DEF BellKept
  <1>8. FeedTyped' /\ EventsKept'
    BY <1>1, <1>2, <1>5 DEF FeedTyped, EventsKept
  <1> QED
    BY <1>1, <1>4, <1>6, <1>7, <1>8 DEF Inv

\* A step that writes no row changes nothing of what there is to find.
LEMMA RowsStay ==
  ASSUME RowsKept, UNCHANGED rows, scene' \in SceneType, scene'.provider = scene.provider, scene'.task = scene.task
  PROVE  /\ RowsKept'
         /\ \A fp : Cause(fp)' = Cause(fp) /\ Current(fp)' = Current(fp)
  <1>1. /\ provider' = provider /\ task' = task /\ channel' = channel /\ settlements' = settlements
        /\ payer' = payer
    BY DEF rows
  <1>2. RowsKept'
    BY <1>1 DEF RowsKept, RowsTyped, SceneKept, ChannelKept, TaskKept, ProviderKept
  <1>3. ASSUME NEW fp PROVE Cause(fp)' = Cause(fp) /\ Current(fp)' = Current(fp)
    BY <1>1 DEF Cause, ActionFor, Ending, Remainder, Unverified, LatestFailed, Current, VersionIn
  <1> QED
    BY <1>2, <1>3

\* A request moves on, and neither the rows, the events nor the bell change.
LEMMA OnlyRequest ==
  ASSUME Inv, NEW l \in Loads, load[l].at # "idle", NEW n \in LoadType, OnlyLoad,
         load' = [load EXCEPT ![l] = n], RequestKept(n)', n.undisturbed = TRUE => load[l].undisturbed = TRUE
  PROVE  Inv'
  <1>1. /\ events' = events /\ bell' = bell /\ overlapped' = overlapped /\ UNCHANGED rows /\ scene' = scene
    BY DEF OnlyLoad
  <1>2. RowsKept' /\ \A fp : Current(fp)' = Current(fp)
    BY <1>1, RowsStay DEF Inv, RowsKept, RowsTyped
  <1>3. load' \in [Loads -> LoadType] /\ Separate' /\ \A k \in Loads : RequestKept(load[k])'
    BY <1>1, OneMoves
  <1>4. FeedTyped' /\ EventsKept'
    BY <1>1, <1>3 DEF Inv, FeedTyped, EventsKept
  <1>5. BellKept'
    BY <1>1, <1>2 DEF Inv, BellKept, BellInOrder
  <1> QED
    BY <1>2, <1>3, <1>4, <1>5 DEF Inv

\* A statement reports the incidents whose cause the rows show, with their versions.
Reports(upserts, here, next) ==
  /\ upserts \in Seq(UpsertType)
  /\ \A u \in ToSet(upserts) :
       UpsertOK(u) /\ (u.fp \in Incident => Cause(u.fp) /\ u.fp \in ReportedBy(here) /\ u.version = Current(u.fp))
  /\ \A fp \in ReportedBy(here) : Cause(fp) => \E u \in ToSet(upserts) : u.fp = fp
  /\ \A fp \in Incident : Cause(fp) => (fp \in Reported(next) <=> fp \in Reported(here) \/ fp \in ReportedBy(here))

\* A statement of the synchronization.
LEMMA Synchronizes ==
  ASSUME Inv, NEW l \in Loads, NEW here \in {"providers", "flows", "channels", "tasks"},
         NEW next \in {"flows", "channels", "tasks", "missing"}, NEW upserts, Reports(upserts, here, next),
         Synchronize(l, here, upserts, next)
  PROVE  Inv'
  <1>1. PICK q \in LoadType : q = load[l] /\ RequestKept(q)
    BY DEF Inv, FeedTyped
  <1>2. q.at = here /\ q.todo = <<>> /\ OnlyLoad
    BY <1>1 DEF Synchronize
  <1>3. PICK opened : opened = {u.fp : u \in {u \in ToSet(upserts) : u.state = "open"}}
    OBVIOUS
  <1>4. PICK n : n = [q EXCEPT !.todo = upserts, !.at = next, !.active = @ \cup opened]
    OBVIOUS
  <1>5. load' = [load EXCEPT ![l] = n]
    BY <1>1, <1>3, <1>4 DEF Synchronize, Inv, FeedTyped
  <1>6. /\ upserts \in Seq(UpsertType)
        /\ \A u \in ToSet(upserts) : u \in UpsertType /\ UpsertOK(u)
    BY Elements DEF Reports
  <1>7. /\ \A fp \in opened : fp \in Incident /\ Cause(fp) /\ fp \in ReportedBy(here)
        /\ \A fp \in Incident : (\E u \in ToSet(upserts) : u.fp = fp) <=> fp \in opened
        /\ \A fp \in ReportedBy(here) : Cause(fp) => fp \in opened
    <2>1. ASSUME NEW u \in ToSet(upserts), u.state = "open"
          PROVE  u.fp \in Incident /\ Cause(u.fp) /\ u.fp \in ReportedBy(here)
      <3>1. u.fp \in Fingerprint /\ UpsertOK(u)
        BY <1>6 DEF UpsertType
      <3>2. u.fp \in Incident
        BY <2>1, <3>1, Incidents DEF UpsertOK
      <3> QED
        BY <3>2 DEF Reports
    <2>2. ASSUME NEW u \in ToSet(upserts), u.fp \in Incident
          PROVE  u.fp \in opened
      BY <1>3, <1>6, <2>2 DEF UpsertOK
    <2>3. \A fp \in opened : fp \in Incident /\ Cause(fp) /\ fp \in ReportedBy(here)
      BY <1>3, <2>1
    <2>4. \A fp \in Incident : (\E u \in ToSet(upserts) : u.fp = fp) <=> fp \in opened
      BY <1>3, <2>2
    <2> QED
      BY <2>3, <2>4, Incidents DEF Reports
  <1>8. /\ n \in LoadType /\ n.at = next /\ n.todo = upserts /\ n.active = q.active \cup opened /\ n.rows = q.rows
        /\ n.undisturbed = q.undisturbed
    BY <1>4, <1>6, <1>7 DEF LoadType, Statement
  <1>9. /\ events' = events /\ overlapped' = overlapped
        /\ \A fp : Cause(fp)' = Cause(fp) /\ Current(fp)' = Current(fp)
    BY <1>2, RowsStay DEF OnlyLoad, Inv, RowsKept, RowsTyped
  <1>10. LoadKept(n)
    BY <1>1, <1>6, <1>8 DEF RequestKept, LoadKept
  <1>11. Exact(n)'
    <2>1. ToSet(<<>>) = {}
      BY Elements
    <2>2. ASSUME n.undisturbed = TRUE
          PROVE  /\ \A fp \in Incident : fp \in n.active <=> (Cause(fp) /\ fp \in Reported(next))
                 /\ \A fp \in n.active : events[fp].state = "open" \/ Pending(n, fp)
                 /\ \A fp \in Incident : Pending(n, fp) => fp \in n.active
      <3>1. Exact(q) /\ q.undisturbed = TRUE
        BY <1>1, <1>8, <2>2 DEF RequestKept
      <3>2. ASSUME NEW fp \in Incident
            PROVE  fp \in n.active <=> (Cause(fp) /\ fp \in Reported(next))
        <4>1. fp \in q.active <=> (Cause(fp) /\ fp \in Reported(here))
          BY <1>2, <3>1 DEF Exact
        <4>2. Cause(fp) => (fp \in Reported(next) <=> fp \in Reported(here) \/ fp \in ReportedBy(here))
          BY DEF Reports
        <4> QED
          BY <1>7, <1>8, <4>1, <4>2
      <3>3. ASSUME NEW fp \in n.active
            PROVE  events[fp].state = "open" \/ Pending(n, fp)
        <4>1. CASE fp \in q.active
          BY <1>2, <2>1, <3>1, <4>1 DEF Exact, Pending
        <4>2. CASE fp \in opened
          BY <1>7, <1>8, <4>2 DEF Pending
        <4> QED
          BY <1>8, <4>1, <4>2
      <3>4. \A fp \in Incident : Pending(n, fp) => fp \in n.active
        BY <1>7, <1>8 DEF Pending
      <3> QED
        BY <3>2, <3>3, <3>4
    <2> QED
      BY <1>8, <1>9, <2>2 DEF Exact, Pending
  <1>12. ASSUME overlapped' = FALSE, NEW fp \in Incident
         PROVE  InOrder(n, fp)'
    <2>1. Older(events[fp].version, Current(fp))
      BY <1>9, <1>12 DEF Inv, BellKept, BellInOrder
    <2>2. \A u \in ToSet(upserts) : u.fp = fp => u.version = Current(fp)
      BY DEF Reports
    <2> QED
      BY <1>8, <1>9, <2>1, <2>2, OlderSelf DEF InOrder
  <1>13. RequestKept(n)'
    BY <1>10, <1>11, <1>12 DEF RequestKept, LoadKept
  <1> QED
    BY <1>1, <1>2, <1>5, <1>8, <1>13, OnlyRequest

-----------------------------------------------------------------------------
(* Statements *)

\* The elements of the upserts put together.
LEMMA Joined ==
  ASSUME NEW s \in Seq(UpsertType), NEW t \in Seq(UpsertType)
  PROVE  s \o t \in Seq(UpsertType) /\ \A u : u \in ToSet(s \o t) <=> u \in ToSet(s) \/ u \in ToSet(t)
  <1>1. s \o t \in Seq(UpsertType) /\ ToSet(s \o t) = ToSet(s) \cup ToSet(t)
    BY Elements
  <1> QED
    BY <1>1

\* An upsert that a statement makes on a condition.
LEMMA Conditional ==
  ASSUME NEW u \in UpsertType, NEW condition \in BOOLEAN
  PROVE  /\ OnlyIf(condition, u) \in Seq(UpsertType)
         /\ \A v : v \in ToSet(OnlyIf(condition, u)) <=> condition /\ v = u
  <1>1. ToSet(<<>>) = {} /\ ToSet(<<u>>) = {u}
    BY Elements
  <1>2. <<>> \in Seq(UpsertType) /\ <<u>> \in Seq(UpsertType)
    OBVIOUS
  <1>3. CASE condition
    BY <1>1, <1>2, <1>3 DEF OnlyIf
  <1>4. CASE ~condition
    BY <1>1, <1>2, <1>4 DEF OnlyIf
  <1> QED
    BY <1>3, <1>4

\* An upsert of history is no incident.
LEMMA PastOK ==
  ASSUME NEW fp \in History, NEW v \in VersionType, v[1] # "none"
  PROVE  /\ Past(fp, v) \in UpsertType /\ UpsertOK(Past(fp, v)) /\ Past(fp, v).fp \notin Incident
  <1>1. fp \in Fingerprint /\ fp \notin Incident
    BY Incidents
  <1> QED
    BY <1>1 DEF Past, UpsertType, UpsertOK

\* An incident is reported with the version of the rows.
LEMMA OpenedOK ==
  ASSUME NEW fp \in Incident, NEW v \in VersionType, v[1] # "none"
  PROVE  /\ Opened(fp, v) \in UpsertType /\ UpsertOK(Opened(fp, v))
         /\ Opened(fp, v).fp = fp /\ Opened(fp, v).version = v
  <1>1. fp \in Fingerprint /\ fp \notin History
    BY Incidents
  <1> QED
    BY <1>1 DEF Opened, UpsertType, UpsertOK

\* The versions of history.
LEMMA PastVersions ==
  /\ \A x \in {"created", "opening", "payout"} : <<x, 0>> \in VersionType /\ <<x, 0>>[1] # "none"
  BY DEF VersionType, Version

\* What the statement over the providers reports.
LEMMA ProvidersReport ==
  ASSUME RowsKept
  PROVE  Reports(ProviderUpserts, "providers", IF scene.task = "none" THEN "missing" ELSE "flows")
  <1> DEFINE c1 == provider.status = "active" /\ provider.health = "unhealthy"
             c2 == provider.status = "active" /\ Unverified
             v  == Checked
             u0 == Past(<<"provider", "configured">>, <<"created", 0>>)
             u1 == Opened(<<"provider", "unhealthy">>, v)
             u2 == Opened(<<"provider", "stale">>, v)
  <1>1. /\ u0 \in UpsertType /\ UpsertOK(u0) /\ u0.fp \notin Incident
    <2>1. <<"provider", "configured">> \in History
      BY DEF History
    <2>2. <<"created", 0>> \in VersionType /\ <<"created", 0>>[1] # "none"
      BY PastVersions
    <2> QED
      BY <2>1, <2>2, PastOK
  <1>2. /\ v \in VersionType /\ v[1] # "none"
        /\ v = Current(<<"provider", "unhealthy">>) /\ v = Current(<<"provider", "stale">>)
    <2>1. provider \in ProviderType /\ task \in TaskType /\ channel \in ChannelType
      BY DEF RowsKept, RowsTyped
    <2>2. v = Current(<<"provider", "unhealthy">>) /\ v = Current(<<"provider", "stale">>)
      BY DEF Current, VersionIn, VersionOf, Checked, ReportedBy
    <2>3. <<"provider", "stale">> \in Incident /\ <<"provider", "stale">> # <<"task", "failure">>
      BY DEF Incident
    <2> QED
      BY <2>1, <2>2, <2>3, VersionTyped DEF Current
  <1>3. <<"provider", "unhealthy">> \in Incident /\ <<"provider", "stale">> \in Incident
    BY DEF Incident
  <1>4. /\ u1 \in UpsertType /\ UpsertOK(u1) /\ u1.fp = <<"provider", "unhealthy">> /\ u1.version = v
        /\ u2 \in UpsertType /\ UpsertOK(u2) /\ u2.fp = <<"provider", "stale">> /\ u2.version = v
    BY <1>2, <1>3, OpenedOK
  <1>5. /\ c1 \in BOOLEAN /\ c2 \in BOOLEAN
        /\ Cause(<<"provider", "unhealthy">>) = c1 /\ Cause(<<"provider", "stale">>) = c2
    BY DEF Cause, Unverified, RowsKept, RowsTyped, ProviderType
  <1>6. ProviderUpserts = <<u0>> \o OnlyIf(c1, u1) \o OnlyIf(c2, u2)
    BY DEF ProviderUpserts
  <1> HIDE DEF c1, c2, v, u0, u1, u2
  <1>7. <<u0>> \in Seq(UpsertType) /\ ToSet(<<u0>>) = {u0}
    BY <1>1, Elements
  <1>8. /\ OnlyIf(c1, u1) \in Seq(UpsertType) /\ \A x : x \in ToSet(OnlyIf(c1, u1)) <=> c1 /\ x = u1
        /\ OnlyIf(c2, u2) \in Seq(UpsertType) /\ \A x : x \in ToSet(OnlyIf(c2, u2)) <=> c2 /\ x = u2
    BY <1>4, <1>5, Conditional
  <1>9. /\ <<u0>> \o OnlyIf(c1, u1) \in Seq(UpsertType)
        /\ \A x : x \in ToSet(<<u0>> \o OnlyIf(c1, u1)) <=> x = u0 \/ (c1 /\ x = u1)
    BY <1>7, <1>8, Joined
  <1>10. /\ ProviderUpserts \in Seq(UpsertType)
         /\ \A x : x \in ToSet(ProviderUpserts) <=> x = u0 \/ (c1 /\ x = u1) \/ (c2 /\ x = u2)
    BY <1>6, <1>8, <1>9, Joined
  <1>11. ReportedBy("providers") = {<<"provider", "unhealthy">>, <<"provider", "stale">>}
    BY DEF ReportedBy
  <1>12. ASSUME NEW fp \in Incident, Cause(fp)
         PROVE  fp \in Reported(IF scene.task = "none" THEN "missing" ELSE "flows")
                  <=> fp \in Reported("providers") \/ fp \in ReportedBy("providers")
    <2>1. Reported("flows") = ReportedBy("providers") /\ Reported("missing") = Incident /\ Reported("providers") = {}
      BY DEF Reported
    <2>2. CASE scene.task = "none"
      <3>1. /\ LatestFailed = FALSE /\ channel.status = "reserved" /\ channel.stage = "prepared"
            /\ channel.blocked = FALSE
        BY <2>2 DEF RowsKept, RowsTyped, SceneKept, ChannelKept, ChannelType, LatestFailed
      <3>2. ActionFor = "none"
        BY <3>1 DEF ActionFor, TerminalChannel, BlockedStage
      <3>3. fp \in ReportedBy("providers")
        BY <1>11, <1>12, <3>1, <3>2 DEF Incident, Cause
      <3> QED
        BY <2>1, <2>2, <3>3
    <2>3. CASE scene.task # "none"
      BY <2>1, <2>3
    <2> QED
      BY <2>2, <2>3
  <1>13. ASSUME NEW u \in ToSet(ProviderUpserts)
         PROVE  UpsertOK(u) /\ (u.fp \in Incident => Cause(u.fp) /\ u.fp \in ReportedBy("providers") /\ u.version = Current(u.fp))
    <2>1. u = u0 \/ (c1 /\ u = u1) \/ (c2 /\ u = u2)
      BY <1>10
    <2> QED
      BY <1>1, <1>2, <1>4, <1>5, <1>11, <2>1
  <1>14. \A fp \in ReportedBy("providers") : Cause(fp) => \E u \in ToSet(ProviderUpserts) : u.fp = fp
    BY <1>4, <1>5, <1>10, <1>11
  <1> QED
    BY <1>10, <1>12, <1>13, <1>14 DEF Reports

\* What the statement over the flows reports.
LEMMA FlowsReport ==
  ASSUME RowsKept
  PROVE  Reports(OnlyIf(LatestFailed, Opened(<<"task", "failure">>, task.last)), "flows", "channels")
  <1> DEFINE c == LatestFailed
             u == Opened(<<"task", "failure">>, task.last)
  <1>1. <<"task", "failure">> \in Incident /\ ReportedBy("flows") = {<<"task", "failure">>}
    BY DEF Incident, ReportedBy
  <1>2. Current(<<"task", "failure">>) = task.last
    BY DEF Current, VersionIn, ReportedBy
  <1>3. c \in BOOLEAN /\ Cause(<<"task", "failure">>) = c
    BY DEF Cause, LatestFailed
  <1>4. Reported("channels") = Reported("flows") \cup ReportedBy("flows")
    BY DEF Reported
  <1>5. CASE c
    <2>1. provider \in ProviderType /\ task \in TaskType /\ channel \in ChannelType
      BY DEF RowsKept, RowsTyped
    <2>2. task.last \in VersionType /\ task.last[1] # "none"
      BY <1>1, <1>2, <1>5, <2>1, VersionTyped DEF Current, LatestFailed
    <2>3. u \in UpsertType /\ UpsertOK(u) /\ u.fp = <<"task", "failure">> /\ u.version = task.last
      BY <1>1, <2>2, OpenedOK
    <2> HIDE DEF c, u
    <2>4. OnlyIf(c, u) \in Seq(UpsertType) /\ \A x : x \in ToSet(OnlyIf(c, u)) <=> c /\ x = u
      BY <1>3, <2>3, Conditional
    <2>5. Reports(OnlyIf(c, u), "flows", "channels")
      BY <1>1, <1>2, <1>3, <1>4, <1>5, <2>3, <2>4 DEF Reports
    <2> QED
      BY <2>5 DEF c, u
  <1>6. CASE ~c
    <2>1. OnlyIf(c, u) = <<>> /\ <<>> \in Seq(UpsertType) /\ ToSet(<<>>) = {}
      BY <1>6, Elements DEF OnlyIf
    <2> HIDE DEF c, u
    <2>2. Reports(OnlyIf(c, u), "flows", "channels")
      BY <1>1, <1>3, <1>4, <1>6, <2>1 DEF Reports
    <2> QED
      BY <2>2 DEF c, u
  <1> QED
    BY <1>3, <1>5, <1>6

\* What the statement over the tasks reports: history.
LEMMA TasksReport ==
  Reports(<<Past(<<"task", "created">>, <<"created", 0>>)>>, "tasks", "missing")
  <1>1. PICK u : u = Past(<<"task", "created">>, <<"created", 0>>)
    OBVIOUS
  <1>2. u \in UpsertType /\ UpsertOK(u) /\ u.fp \notin Incident
    <2>1. <<"task", "created">> \in History
      BY DEF History
    <2>2. <<"created", 0>> \in VersionType /\ <<"created", 0>>[1] # "none"
      BY PastVersions
    <2> QED
      BY <1>1, <2>1, <2>2, PastOK
  <1>3. <<u>> \in Seq(UpsertType) /\ ToSet(<<u>>) = {u}
    BY <1>2, Elements
  <1>4. ReportedBy("tasks") = {} /\ Reported("tasks") = Incident /\ Reported("missing") = Incident
    BY DEF ReportedBy, Reported
  <1> QED
    BY <1>1, <1>2, <1>3, <1>4 DEF Reports

\* What the statement over the channels reports: its incidents, and history.
LEMMA ChannelsReport ==
  ASSUME RowsKept
  PROVE  Reports(ChannelUpserts, "channels", "tasks")
  <1> DEFINE c1 == ActionFor = "inspect"
             c2 == ActionFor \in {"recover", "finalize"} /\ Remainder
             u1 == Opened(<<"channel", "recovery">>, <<channel.stage, channel.updated>>)
             u2 == Opened(<<"channel", "recoverable">>, <<"updated", channel.updated>>)
             p1 == OnlyIf(channel.open # NoSig, Past(Signed("channel", channel.open), <<channel.open, 0>>))
             p2 == OnlyIf(channel.settle # NoSig, Past(Signed("settlement", channel.settle), <<channel.settle, 0>>))
             p3 == OnlyIf(channel.distribution # NoSig,
                          Past(Signed("settlement", channel.distribution), <<channel.distribution, 0>>))
             p4 == OnlyIf(channel.refund # NoSig, Past(Signed("recovery", channel.refund), <<channel.refund, 0>>))
             HistoryOnly(s) == /\ s \in Seq(UpsertType)
                               /\ \A u \in ToSet(s) : UpsertOK(u) /\ u.fp \notin Incident
  <1>1. provider \in ProviderType /\ task \in TaskType /\ channel \in ChannelType
    BY DEF RowsKept, RowsTyped
  <1>2. /\ <<"channel", "recovery">> \in Incident /\ <<"channel", "recoverable">> \in Incident
        /\ ReportedBy("channels") = {<<"channel", "recovery">>, <<"channel", "recoverable">>}
    BY DEF Incident, ReportedBy
  <1>3. /\ Current(<<"channel", "recovery">>) = <<channel.stage, channel.updated>>
        /\ Current(<<"channel", "recoverable">>) = <<"updated", channel.updated>>
    BY DEF Current, VersionIn, ReportedBy
  <1>4. /\ Current(<<"channel", "recovery">>) \in VersionType /\ Current(<<"channel", "recovery">>)[1] # "none"
        /\ Current(<<"channel", "recoverable">>) \in VersionType /\ Current(<<"channel", "recoverable">>)[1] # "none"
    BY <1>1, <1>2, VersionTyped DEF Current
  <1>5. /\ u1 \in UpsertType /\ UpsertOK(u1) /\ u1.fp = <<"channel", "recovery">>
        /\ u1.version = Current(<<"channel", "recovery">>)
    BY <1>2, <1>3, <1>4, OpenedOK
  <1>6. /\ u2 \in UpsertType /\ UpsertOK(u2) /\ u2.fp = <<"channel", "recoverable">>
        /\ u2.version = Current(<<"channel", "recoverable">>)
    BY <1>2, <1>3, <1>4, OpenedOK
  <1>7. /\ c1 \in BOOLEAN /\ c2 \in BOOLEAN
        /\ Cause(<<"channel", "recovery">>) = c1 /\ Cause(<<"channel", "recoverable">>) = c2
    BY DEF Cause, Remainder
  <1>8. ASSUME NEW kind, NEW sig \in {"opening", "payout", NoSig},
               sig # NoSig => Signed(kind, sig) \in History
        PROVE  HistoryOnly(OnlyIf(sig # NoSig, Past(Signed(kind, sig), <<sig, 0>>)))
    <2>1. CASE sig = NoSig
      <3>1. PICK s : s = OnlyIf(sig # NoSig, Past(Signed(kind, sig), <<sig, 0>>))
        OBVIOUS
      <3>2. s = <<>> /\ ToSet(s) = {}
        BY <2>1, <3>1, Elements DEF OnlyIf
      <3>3. s \in Seq(UpsertType)
        BY <3>2
      <3> QED
        BY <3>1, <3>2, <3>3
    <2>2. CASE sig # NoSig
      <3>1. PICK u : u = Past(Signed(kind, sig), <<sig, 0>>)
        OBVIOUS
      <3>2. <<sig, 0>> \in VersionType /\ <<sig, 0>>[1] # "none"
        BY <1>8, <2>2, PastVersions
      <3>3. u \in UpsertType /\ UpsertOK(u) /\ u.fp \notin Incident
        BY <1>8, <2>2, <3>1, <3>2, PastOK
      <3>4. OnlyIf(sig # NoSig, u) \in Seq(UpsertType) /\ \A x : x \in ToSet(OnlyIf(sig # NoSig, u)) => x = u
        BY <3>3, Conditional
      <3> QED
        BY <3>1, <3>3, <3>4
    <2> QED
      BY <2>1, <2>2
  <1>9. HistoryOnly(p1) /\ HistoryOnly(p2) /\ HistoryOnly(p3) /\ HistoryOnly(p4)
    <2>1. /\ Signed("channel", "opening") \in History /\ Signed("settlement", "payout") \in History
          /\ Signed("recovery", "payout") \in History
      BY DEF History
    <2>2. /\ channel.open \in {NoSig, "opening"} /\ channel.settle \in {NoSig, "payout"}
          /\ channel.distribution \in {NoSig, "payout"} /\ channel.refund \in {NoSig, "payout"}
      BY <1>1 DEF ChannelType, Signature
    <2> HIDE DEF HistoryOnly
    <2>3. HistoryOnly(p1)
      BY <1>8, <2>1, <2>2
    <2>4. HistoryOnly(p2)
      BY <1>8, <2>1, <2>2
    <2>5. HistoryOnly(p3)
      BY <1>8, <2>1, <2>2
    <2>6. HistoryOnly(p4)
      BY <1>8, <2>1, <2>2
    <2> QED
      BY <2>3, <2>4, <2>5, <2>6
  <1>10. ChannelUpserts = OnlyIf(c1, u1) \o OnlyIf(c2, u2) \o p1 \o p2 \o p3 \o p4
    BY DEF ChannelUpserts
  <1> HIDE DEF c1, c2, u1, u2, p1, p2, p3, p4
  <1>11. /\ OnlyIf(c1, u1) \in Seq(UpsertType) /\ \A x : x \in ToSet(OnlyIf(c1, u1)) <=> c1 /\ x = u1
         /\ OnlyIf(c2, u2) \in Seq(UpsertType) /\ \A x : x \in ToSet(OnlyIf(c2, u2)) <=> c2 /\ x = u2
    BY <1>5, <1>6, <1>7, Conditional
  <1>12. PICK s0 : s0 = OnlyIf(c1, u1) \o OnlyIf(c2, u2)
    OBVIOUS
  <1>13. s0 \in Seq(UpsertType) /\ \A x : x \in ToSet(s0) <=> (c1 /\ x = u1) \/ (c2 /\ x = u2)
    BY <1>11, <1>12, Joined
  <1>14. PICK s1 : s1 = s0 \o p1
    OBVIOUS
  <1>15. s1 \in Seq(UpsertType) /\ \A x : x \in ToSet(s1) <=> x \in ToSet(s0) \/ x \in ToSet(p1)
    BY <1>9, <1>13, <1>14, Joined
  <1>16. PICK s2 : s2 = s1 \o p2
    OBVIOUS
  <1>17. s2 \in Seq(UpsertType) /\ \A x : x \in ToSet(s2) <=> x \in ToSet(s1) \/ x \in ToSet(p2)
    BY <1>9, <1>15, <1>16, Joined
  <1>18. PICK s3 : s3 = s2 \o p3
    OBVIOUS
  <1>19. s3 \in Seq(UpsertType) /\ \A x : x \in ToSet(s3) <=> x \in ToSet(s2) \/ x \in ToSet(p3)
    BY <1>9, <1>17, <1>18, Joined
  <1>20. /\ s3 \o p4 \in Seq(UpsertType)
         /\ \A x : x \in ToSet(s3 \o p4) <=> x \in ToSet(s3) \/ x \in ToSet(p4)
    BY <1>9, <1>19, Joined
  <1>21. ChannelUpserts = s3 \o p4
    BY <1>10, <1>12, <1>14, <1>16, <1>18
  <1>22. ASSUME NEW u \in ToSet(ChannelUpserts)
         PROVE  UpsertOK(u) /\ (u.fp \in Incident => Cause(u.fp) /\ u.fp \in ReportedBy("channels") /\ u.version = Current(u.fp))
    <2>1. \/ (c1 /\ u = u1) \/ (c2 /\ u = u2)
          \/ u \in ToSet(p1) \/ u \in ToSet(p2) \/ u \in ToSet(p3) \/ u \in ToSet(p4)
      BY <1>13, <1>15, <1>17, <1>19, <1>20, <1>21
    <2> QED
      BY <1>2, <1>5, <1>6, <1>7, <1>9, <2>1
  <1>23. \A fp \in ReportedBy("channels") : Cause(fp) => \E u \in ToSet(ChannelUpserts) : u.fp = fp
    <2>1. (c1 => u1 \in ToSet(ChannelUpserts)) /\ (c2 => u2 \in ToSet(ChannelUpserts))
      BY <1>13, <1>15, <1>17, <1>19, <1>20, <1>21
    <2> QED
      BY <1>2, <1>5, <1>6, <1>7, <2>1
  <1>24. Reported("tasks") = Incident /\ Incident = Reported("channels") \cup ReportedBy("channels")
    BY DEF Reported, ReportedBy, Incident
  <1> QED
    BY <1>20, <1>21, <1>22, <1>23, <1>24 DEF Reports

\* The statements of the synchronization, one by one.
LEMMA Statements ==
  ASSUME Inv, NEW l \in Loads, ReadProviders(l) \/ ReadFlows(l) \/ ReadChannels(l) \/ ReadTasks(l)
  PROVE  Inv'
  <1>1. RowsKept
    BY DEF Inv
  <1>2. CASE ReadProviders(l)
    <2>1. PICK next \in {"missing", "flows"} : next = IF scene.task = "none" THEN "missing" ELSE "flows"
      OBVIOUS
    <2> QED
      BY <1>1, <1>2, <2>1, ProvidersReport, Synchronizes DEF ReadProviders
  <1>3. CASE ReadFlows(l)
    BY <1>1, <1>3, FlowsReport, Synchronizes DEF ReadFlows
  <1>4. CASE ReadChannels(l)
    BY <1>1, <1>4, ChannelsReport, Synchronizes DEF ReadChannels
  <1>5. CASE ReadTasks(l)
    BY <1>5, TasksReport, Synchronizes DEF ReadTasks
  <1> QED
    BY <1>2, <1>3, <1>4, <1>5

-----------------------------------------------------------------------------
(* The table *)

\* An upsert keeps the event one, gives it the new version, and opens incidents only.
LEMMA UpsertedOK ==
  ASSUME NEW e \in EventType, NEW u \in UpsertType, UpsertOK(u)
  PROVE  /\ Upserted(e, u) \in EventType /\ EventOf(Upserted(e, u), u.fp)
         /\ Upserted(e, u).version = u.version /\ Upserted(e, u).state = u.state
  <1>1. u.state \in {"open", "resolved"} /\ u.version \in VersionType /\ u.managed \in BOOLEAN /\ u.fp \in Fingerprint
    BY DEF UpsertType
  <1>2. PICK count \in Nat : count = IF e.version # u.version THEN e.count + 1 ELSE e.count
    <2>1. e.count \in Nat /\ e.count + 1 \in Nat
      BY DEF EventType
    <2> QED
      BY <2>1
  <1>3. PICK read \in BOOLEAN : read = (e.read /\ ~(e.version # u.version /\ u.state = "open"))
    OBVIOUS
  <1>4. Upserted(e, u) = [state |-> u.state, version |-> u.version, managed |-> u.managed,
                          count |-> count, read |-> read]
    BY <1>2, <1>3 DEF Upserted
  <1>5. Upserted(e, u) \in EventType
    BY <1>1, <1>4 DEF EventType
  <1>6. u.state = "open" => u.managed = TRUE /\ u.fp \in Incident /\ u.version[1] # "none"
    BY <1>1, Incidents DEF UpsertOK
  <1> QED
    BY <1>4, <1>5, <1>6 DEF EventOf

\* A request writes an event: the versions get no newer than the rows', and the bell's no newer than those.
LEMMA OneEvent ==
  ASSUME Inv, NEW l \in Loads, load[l].at # "idle", NEW n \in LoadType, NEW fp \in Fingerprint, NEW e \in EventType,
         EventOf(e, fp), events' = [events EXCEPT ![fp] = e], UNCHANGED <<rows, bell, overlapped, scene>>,
         load' = [load EXCEPT ![l] = n], RequestKept(n)', n.undisturbed = TRUE => load[l].undisturbed = TRUE,
         overlapped = FALSE /\ fp \in Incident => Older(events[fp].version, e.version) /\ Older(e.version, Current(fp))
  PROVE  Inv'
  <1>1. /\ bell' = bell /\ overlapped' = overlapped /\ scene' = scene
        /\ events \in [Fingerprint -> EventType] /\ bell \in BellType
    BY DEF Inv, FeedTyped
  <1>2. RowsKept' /\ \A f : Current(f)' = Current(f)
    BY <1>1, RowsStay DEF Inv, RowsKept, RowsTyped
  <1>3. load' \in [Loads -> LoadType] /\ Separate' /\ \A k \in Loads : RequestKept(load[k])'
    BY <1>1, OneMoves
  <1>4. /\ events' \in [Fingerprint -> EventType] /\ events'[fp] = e
        /\ \A f \in Fingerprint \ {fp} : events'[f] = events[f]
    BY <1>1
  <1>5. FeedTyped' /\ EventsKept'
    BY <1>1, <1>3, <1>4 DEF Inv, FeedTyped, EventsKept, EventOf
  <1>6. ASSUME overlapped = FALSE, NEW f \in Incident
        PROVE  BellInOrder(f)'
    <2>1. BellInOrder(f) /\ f \in Fingerprint
      BY <1>6, Incidents DEF Inv, BellKept
    <2>2. CASE f # fp
      BY <1>1, <1>2, <1>4, <2>1, <2>2 DEF BellInOrder
    <2>3. CASE f = fp
      <3>1. PICK v \in VersionType, w \in VersionType, x \in VersionType :
              v = bell.seen[fp] /\ w = events[fp].version /\ x = e.version
        BY <1>1, <2>3 DEF BellType, EventType
      <3>2. Older(v, w) /\ Older(w, x) /\ Older(x, Current(fp))
        BY <1>6, <2>1, <2>3, <3>1 DEF BellInOrder
      <3>3. Older(v, x)
        BY <3>2, OlderStill
      <3> QED
        BY <1>1, <1>2, <1>4, <2>1, <2>3, <3>1, <3>2, <3>3 DEF BellInOrder
    <2> QED
      BY <2>2, <2>3
  <1>7. BellKept'
    BY <1>1, <1>6 DEF Inv, BellKept
  <1> QED
    BY <1>2, <1>3, <1>5, <1>7 DEF Inv

\* An upsert.
LEMMA UpsertStep ==
  ASSUME Inv, NEW l \in Loads, Upsert(l)
  PROVE  Inv'
  <1>1. PICK q \in LoadType : q = load[l] /\ RequestKept(q)
    BY DEF Inv, FeedTyped
  <1>2. q.todo # <<>> /\ q.todo \in Seq(UpsertType) /\ UNCHANGED <<rows, bell, overlapped, scene>>
    BY <1>1 DEF Upsert, LoadType
  <1>3. PICK u \in UpsertType, rest \in Seq(UpsertType) :
          u = Head(q.todo) /\ rest = Tail(q.todo) /\ ToSet(q.todo) = {u} \cup ToSet(rest)
    <2>1. /\ Head(q.todo) \in UpsertType /\ Tail(q.todo) \in Seq(UpsertType)
          /\ ToSet(q.todo) = {Head(q.todo)} \cup ToSet(Tail(q.todo))
      BY <1>2, Elements
    <2> QED
      BY <2>1
  <1>4. UpsertOK(u) /\ (\A v \in ToSet(rest) : UpsertOK(v)) /\ u.fp \in Fingerprint
    BY <1>1, <1>3 DEF RequestKept, LoadKept, UpsertType
  <1>5. PICK e : e = Upserted(events[u.fp], u)
    OBVIOUS
  <1>6. PICK n : n = [q EXCEPT !.todo = rest]
    OBVIOUS
  <1>7. /\ n \in LoadType /\ n.todo = rest /\ n.at = q.at /\ n.active = q.active /\ n.rows = q.rows
        /\ n.missing = q.missing /\ n.undisturbed = q.undisturbed
    BY <1>3, <1>6 DEF LoadType
  <1>8. /\ e \in EventType /\ EventOf(e, u.fp) /\ e.version = u.version /\ e.state = u.state
        /\ events \in [Fingerprint -> EventType]
    BY <1>4, <1>5, UpsertedOK DEF Inv, FeedTyped
  <1>9. events' = [events EXCEPT ![u.fp] = e] /\ load' = [load EXCEPT ![l] = n]
    BY <1>1, <1>3, <1>5, <1>6 DEF Upsert, Inv, FeedTyped
  <1>10. events'[u.fp] = e /\ \A f \in Fingerprint \ {u.fp} : events'[f] = events[f]
    BY <1>4, <1>8, <1>9
  <1>11. q.at \notin {"idle", "resolving", "answer"}
    BY <1>1, <1>2 DEF RequestKept, LoadKept
  <1>12. overlapped' = overlapped /\ bell' = bell /\ \A fp : Cause(fp)' = Cause(fp) /\ Current(fp)' = Current(fp)
    BY <1>2, RowsStay DEF Inv, RowsKept, RowsTyped
  <1>13. LoadKept(n)
    BY <1>1, <1>4, <1>7, <1>11 DEF RequestKept, LoadKept
  <1>14. Exact(n)'
    <2>1. ASSUME n.undisturbed = TRUE, NEW fp \in n.active
          PROVE  events'[fp].state = "open" \/ \E v \in ToSet(rest) : v.fp = fp
      <3>1. fp \in Incident /\ fp \in Fingerprint /\ fp \in q.active
        BY <1>7, Incidents DEF LoadType
      <3>2. events[fp].state = "open" \/ Pending(q, fp)
        BY <1>1, <1>7, <2>1, <3>1 DEF RequestKept, Exact
      <3>3. CASE fp = u.fp
        BY <1>4, <1>8, <1>10, <3>1, <3>3 DEF UpsertOK
      <3>4. CASE fp # u.fp
        BY <1>3, <1>10, <3>1, <3>2, <3>4 DEF Pending
      <3> QED
        BY <3>3, <3>4
    <2>2. ASSUME n.undisturbed = TRUE, NEW fp \in Incident
          PROVE  /\ fp \in n.active <=> (Cause(fp) /\ fp \in Reported(n.at))
                 /\ (\E v \in ToSet(rest) : v.fp = fp) => fp \in n.active
      BY <1>1, <1>3, <1>7, <2>2 DEF RequestKept, Exact, Pending
    <2> QED
      BY <1>7, <1>11, <1>12, <2>1, <2>2 DEF Exact, Pending
  <1>15. ASSUME overlapped' = FALSE, NEW fp \in Incident
         PROVE  InOrder(n, fp)'
    <2>1. InOrder(q, fp) /\ fp \in Fingerprint
      BY <1>1, <1>12, <1>15, Incidents DEF RequestKept
    <2>2. ASSUME NEW v \in ToSet(rest), v.fp = fp
          PROVE  Older(events'[fp].version, v.version) /\ Older(v.version, Current(fp))
      <3>1. CASE fp = u.fp
        <4>1. v.version = u.version /\ Older(u.version, Current(fp))
          BY <1>3, <2>1, <2>2, <3>1 DEF InOrder
        <4> QED
          BY <1>8, <1>10, <3>1, <4>1, OlderSelf
      <3>2. CASE fp # u.fp
        BY <1>3, <1>10, <2>1, <2>2, <3>2 DEF InOrder
      <3> QED
        BY <3>1, <3>2
    <2>3. \A v, w \in ToSet(rest) : v.fp = fp /\ w.fp = fp => v.version = w.version
      BY <1>3, <2>1 DEF InOrder
    <2> QED
      BY <1>7, <1>11, <1>12, <2>2, <2>3 DEF InOrder
  <1>16. RequestKept(n)'
    BY <1>13, <1>14, <1>15 DEF RequestKept, LoadKept
  <1>17. ASSUME overlapped = FALSE, u.fp \in Incident
         PROVE  Older(events[u.fp].version, e.version) /\ Older(e.version, Current(u.fp))
    <2>1. InOrder(q, u.fp) /\ u \in ToSet(q.todo)
      BY <1>1, <1>3, <1>17 DEF RequestKept
    <2> QED
      BY <1>8, <2>1 DEF InOrder
  <1>18. load[l].at # "idle"
    BY <1>1, <1>11
  <1> QED
    BY <1>1, <1>2, <1>4, <1>7, <1>8, <1>9, <1>16, <1>17, <1>18, OneEvent

\* The incidents to resolve are looked up.
LEMMA FindStep ==
  ASSUME Inv, NEW l \in Loads, FindMissing(l)
  PROVE  Inv'
  <1>1. PICK q \in LoadType : q = load[l] /\ RequestKept(q)
    BY DEF Inv, FeedTyped
  <1>2. q.at = "missing" /\ q.todo = <<>> /\ OnlyLoad
    BY <1>1 DEF FindMissing
  <1>3. PICK gone : gone = {fp \in Fingerprint : events[fp].state = "open" /\ events[fp].managed} \ q.active
    OBVIOUS
  <1>4. \A fp \in Fingerprint : fp \in gone <=> events[fp].state = "open" /\ fp \notin q.active
    BY <1>3 DEF Inv, EventsKept, EventOf
  <1>5. gone \subseteq Incident
    BY <1>3, <1>4 DEF Inv, EventsKept, EventOf
  <1>6. PICK n : n = [q EXCEPT !.at = "resolving", !.missing = gone]
    OBVIOUS
  <1>7. load' = [load EXCEPT ![l] = n]
    BY <1>1, <1>3, <1>6 DEF FindMissing, Goto, Inv, FeedTyped
  <1>8. /\ n \in LoadType /\ n.at = "resolving" /\ n.todo = <<>> /\ n.active = q.active /\ n.missing = gone
        /\ n.rows = q.rows /\ n.undisturbed = q.undisturbed
    BY <1>2, <1>5, <1>6 DEF LoadType, Statement
  <1>9. /\ events' = events /\ overlapped' = overlapped
        /\ \A fp : Cause(fp)' = Cause(fp) /\ Current(fp)' = Current(fp)
    BY <1>2, RowsStay DEF OnlyLoad, Inv, RowsKept, RowsTyped
  <1>10. ToSet(<<>>) = {}
    BY Elements
  <1>11. LoadKept(n)
    BY <1>1, <1>8, <1>10 DEF RequestKept, LoadKept
  <1>12. Exact(n)'
    <2>1. Reported("missing") = Incident /\ Reported("resolving") = Incident
      BY DEF Reported
    <2>2. ASSUME n.undisturbed = TRUE
          PROVE  /\ \A fp \in Incident : fp \in n.active <=> (Cause(fp) /\ fp \in Reported("resolving"))
                 /\ \A fp \in n.active : events[fp].state = "open"
                 /\ \A fp \in Incident : fp \in gone <=> events[fp].state = "open" /\ fp \notin n.active
      BY <1>1, <1>2, <1>4, <1>8, <1>10, <2>1, <2>2, Incidents DEF RequestKept, Exact, Pending
    <2> QED
      BY <1>8, <1>9, <1>10, <2>2 DEF Exact, Pending
  <1>13. \A fp \in Incident : InOrder(n, fp)'
    BY <1>8, <1>10 DEF InOrder
  <1>14. RequestKept(n)'
    BY <1>11, <1>12, <1>13 DEF RequestKept, LoadKept
  <1> QED
    BY <1>1, <1>2, <1>7, <1>8, <1>14, OnlyRequest

\* An incident is resolved: of those a request found active, none.
LEMMA ResolveStep ==
  ASSUME Inv, NEW l \in Loads, NEW fp \in Fingerprint, Resolve(l, fp)
  PROVE  Inv'
  <1>1. PICK q \in LoadType : q = load[l] /\ RequestKept(q)
    BY DEF Inv, FeedTyped
  <1>2. /\ q.at = "resolving" /\ fp \in q.missing /\ UNCHANGED <<rows, bell, overlapped, scene>>
        /\ events \in [Fingerprint -> EventType]
    BY <1>1 DEF Resolve, Inv, FeedTyped
  <1>3. PICK e : e = [events[fp] EXCEPT !.state = "resolved"]
    OBVIOUS
  <1>4. e \in EventType /\ e.state = "resolved" /\ e.version = events[fp].version /\ EventOf(e, fp)
    BY <1>2, <1>3 DEF EventType, EventOf
  <1>5. PICK n : n = [q EXCEPT !.missing = @ \ {fp}]
    OBVIOUS
  <1>6. /\ n \in LoadType /\ n.at = "resolving" /\ n.todo = q.todo /\ n.active = q.active
        /\ n.missing = q.missing \ {fp} /\ n.rows = q.rows /\ n.undisturbed = q.undisturbed
    BY <1>2, <1>5 DEF LoadType
  <1>7. events' = [events EXCEPT ![fp] = e] /\ load' = [load EXCEPT ![l] = n]
    BY <1>1, <1>2, <1>3, <1>5 DEF Resolve, Inv, FeedTyped
  <1>8. events'[fp] = e /\ \A f \in Fingerprint \ {fp} : events'[f] = events[f]
    BY <1>2, <1>7
  <1>9. overlapped' = overlapped /\ bell' = bell /\ \A f : Cause(f)' = Cause(f) /\ Current(f)' = Current(f)
    BY <1>2, RowsStay DEF Inv, RowsKept, RowsTyped
  <1>10. q.todo = <<>> /\ ToSet(<<>>) = {}
    BY <1>1, <1>2, Elements DEF RequestKept, LoadKept
  <1>11. LoadKept(n)
    BY <1>1, <1>6, <1>10 DEF RequestKept, LoadKept
  <1>12. Exact(n)'
    <2>1. ASSUME n.undisturbed = TRUE
          PROVE  /\ \A f \in Incident : f \in n.active <=> (Cause(f) /\ f \in Reported("resolving"))
                 /\ \A f \in n.active : events'[f].state = "open"
                 /\ \A f \in Incident : f \in n.missing <=> events'[f].state = "open" /\ f \notin n.active
      <3>1. Exact(q) /\ q.undisturbed = TRUE
        BY <1>1, <1>6, <2>1 DEF RequestKept
      <3>2. /\ \A f \in Incident : f \in q.active <=> (Cause(f) /\ f \in Reported("resolving"))
            /\ \A f \in q.active : events[f].state = "open"
            /\ \A f \in Incident : f \in q.missing <=> events[f].state = "open" /\ f \notin q.active
        BY <1>2, <1>10, <3>1 DEF Exact, Pending
      <3>3. q.missing \subseteq Incident /\ q.active \subseteq Incident /\ Incident \subseteq Fingerprint
        BY Incidents DEF LoadType
      <3>4. fp \notin q.active
        BY <1>2, <3>2, <3>3
      <3>5. ASSUME NEW f \in Incident
            PROVE  f \in n.missing <=> events'[f].state = "open" /\ f \notin n.active
        <4>1. CASE f = fp
          BY <1>4, <1>6, <1>8, <4>1
        <4>2. CASE f # fp
          BY <1>6, <1>8, <3>2, <3>3, <4>2
        <4> QED
          BY <4>1, <4>2
      <3>6. \A f \in n.active : events'[f].state = "open"
        BY <1>6, <1>8, <3>2, <3>3, <3>4
      <3> QED
        BY <1>6, <3>2, <3>5, <3>6
    <2> QED
      BY <1>6, <1>9, <1>10, <2>1 DEF Exact, Pending
  <1>13. \A f \in Incident : InOrder(n, f)'
    BY <1>6, <1>10 DEF InOrder
  <1>14. RequestKept(n)'
    BY <1>11, <1>12, <1>13 DEF RequestKept, LoadKept
  <1>15. overlapped = FALSE /\ fp \in Incident => Older(events[fp].version, e.version) /\ Older(e.version, Current(fp))
    BY <1>4, OlderSelf DEF Inv, BellKept, BellInOrder
  <1>16. load[l].at # "idle"
    BY <1>1, <1>2
  <1> QED
    BY <1>1, <1>2, <1>4, <1>6, <1>7, <1>14, <1>15, <1>16, OneEvent

\* The rows of the answer are read.
LEMMA ListStep ==
  ASSUME Inv, NEW l \in Loads, List(l)
  PROVE  Inv'
  <1>1. PICK q \in LoadType : q = load[l] /\ RequestKept(q)
    BY DEF Inv, FeedTyped
  <1>2. q.at = "resolving" /\ q.missing = {} /\ OnlyLoad
    BY <1>1 DEF List
  <1>3. PICK page \in Pages :
           load' = [load EXCEPT ![l] = [Goto(l, "answer") EXCEPT
                     !.rows = [fp \in Incident |-> IF fp \in page THEN events[fp] ELSE NoEvent]]]
    BY DEF List
  <1>4. PICK shown : shown = [fp \in Incident |-> IF fp \in page THEN events[fp] ELSE NoEvent]
    OBVIOUS
  <1>5. /\ shown \in [Incident -> EventType] /\ NoEvent.state = "none"
        /\ \A fp \in Incident : shown[fp] = IF fp \in page THEN events[fp] ELSE NoEvent
    <2>1. <<"none", 0>> \in VersionType
      BY DEF VersionType, Version
    <2>2. NoEvent \in EventType /\ NoEvent.state = "none"
      BY <2>1 DEF NoEvent, EventType
    <2>3. \A fp \in Incident : events[fp] \in EventType
      BY Incidents DEF Inv, FeedTyped
    <2> QED
      BY <1>4, <2>2, <2>3
  <1>6. PICK n : n = [q EXCEPT !.at = "answer", !.rows = shown]
    OBVIOUS
  <1>7. load' = [load EXCEPT ![l] = n]
    BY <1>1, <1>4, <1>6, <1>3 DEF Goto, Inv, FeedTyped
  <1>8. /\ n \in LoadType /\ n.at = "answer" /\ n.todo = q.todo /\ n.active = q.active /\ n.missing = {}
        /\ n.rows = shown /\ n.undisturbed = q.undisturbed
    BY <1>2, <1>5, <1>6 DEF LoadType, Statement
  <1>9. /\ events' = events /\ overlapped' = overlapped /\ bell' = bell
        /\ \A fp : Cause(fp)' = Cause(fp) /\ Current(fp)' = Current(fp)
    BY <1>2, RowsStay DEF OnlyLoad, Inv, RowsKept, RowsTyped
  <1>10. q.todo = <<>> /\ ToSet(<<>>) = {}
    BY <1>1, <1>2, Elements DEF RequestKept, LoadKept
  <1>11. \A fp \in Incident : EventOf(shown[fp], fp)
    <2>1. \A fp \in Incident : EventOf(events[fp], fp) /\ EventOf(NoEvent, fp)
      BY <1>5, Incidents DEF Inv, EventsKept, EventOf
    <2> QED
      BY <1>5, <2>1
  <1>12. LoadKept(n)
    <2>1. \A fp \in Incident : shown[fp].state = "none" => shown[fp] = NoEvent
      BY <1>5 DEF Pages, OnPage
    <2> QED
      BY <1>8, <1>10, <1>11, <2>1 DEF LoadKept, NoEvent
  <1>13. /\ OnPage(shown) = page /\ page \subseteq OnPage(events)
         /\ \A fp \in OnPage(events) \ page : events[fp].state = "open" => Crowded(fp, shown)
    <2>1. /\ page \subseteq OnPage(events) /\ OnPage(events) \subseteq Incident
          /\ Cardinality(page) = PageSize \/ page = OnPage(events)
          /\ \A fp \in page, other \in OnPage(events) \ page : Rank(fp, events[fp]) <= Rank(other, events[other])
      BY DEF Pages, OnPage
    <2>2. OnPage(shown) = page
      BY <1>5, <2>1 DEF OnPage
    <2>3. ASSUME NEW fp \in OnPage(events) \ page, events[fp].state = "open"
          PROVE  Crowded(fp, shown)
      <3>1. Rank(fp, events[fp]) = 2 * Severity(fp)
        BY <2>3 DEF Rank, Severity
      <3>2. \A other \in page : Rank(other, shown[other]) <= 2 * Severity(fp)
        BY <1>5, <2>1, <2>3, <3>1
      <3> QED
        BY <2>1, <2>2, <2>3, <3>2 DEF Crowded
    <2> QED
      BY <2>1, <2>2, <2>3
  <1>14. Exact(n)'
    <2>1. Reported("answer") = Incident /\ Reported("resolving") = Incident
      BY DEF Reported
    <2>2. ASSUME n.undisturbed = TRUE
          PROVE  /\ \A fp \in Incident : fp \in n.active <=> (Cause(fp) /\ fp \in Reported("answer"))
                 /\ \A fp \in n.active : events[fp].state = "open"
                 /\ \A fp \in Incident : IF fp \in OnPage(shown) THEN shown[fp].state = "open" <=> Cause(fp)
                                                               ELSE Cause(fp) => Crowded(fp, shown)
      <3>1. Exact(q) /\ q.undisturbed = TRUE
        BY <1>1, <1>8, <2>2 DEF RequestKept
      <3>2. /\ \A fp \in Incident : fp \in q.active <=> Cause(fp)
            /\ \A fp \in q.active : events[fp].state = "open"
            /\ \A fp \in Incident : events[fp].state = "open" => fp \in q.active
        BY <1>2, <1>10, <2>1, <3>1 DEF Exact, Pending
      <3>3. ASSUME NEW fp \in Incident
            PROVE  IF fp \in OnPage(shown) THEN shown[fp].state = "open" <=> Cause(fp)
                                           ELSE Cause(fp) => Crowded(fp, shown)
        <4>1. CASE fp \in OnPage(shown)
          BY <1>5, <1>13, <3>2, <4>1
        <4>2. ASSUME fp \notin OnPage(shown), Cause(fp)
              PROVE  Crowded(fp, shown)
          <5>1. events[fp].state = "open" /\ fp \in OnPage(events) /\ fp \notin page
            BY <1>13, <3>2, <4>2 DEF OnPage
          <5> QED
            BY <1>13, <5>1
        <4> QED
          BY <4>1, <4>2
      <3> QED
        BY <1>5, <1>8, <2>1, <3>2, <3>3
    <2> QED
      BY <1>8, <1>9, <1>10, <2>2 DEF Exact, Pending
  <1>15. ASSUME overlapped' = FALSE, NEW fp \in Incident
         PROVE  InOrder(n, fp)'
    <2>1. Older(bell.seen[fp], events[fp].version)
      BY <1>9, <1>15 DEF Inv, BellKept, BellInOrder
    <2> QED
      BY <1>5, <1>8, <1>9, <1>10, <1>13, <2>1, OlderSelf DEF InOrder
  <1>16. RequestKept(n)'
    BY <1>12, <1>14, <1>15 DEF RequestKept, LoadKept
  <1> QED
    BY <1>1, <1>2, <1>7, <1>8, <1>16, OnlyRequest

-----------------------------------------------------------------------------
(* The browser *)

\* Without a bell's answer, the bell stays in order.
LEMMA BellStays ==
  ASSUME BellKept, bell' = bell, overlapped' = FALSE => overlapped = FALSE,
         \A fp \in Incident : events'[fp].version = events[fp].version /\ Current(fp)' = Current(fp)
  PROVE  BellKept'
  BY DEF BellKept, BellInOrder

\* A load fails.
LEMMA FailStep ==
  ASSUME Inv, NEW l \in Loads, LoadFails(l)
  PROVE  Inv'
  <1>1. /\ load[l].at # "idle" /\ load' = [load EXCEPT ![l] = Idle] /\ UNCHANGED <<rows, events, bell, overlapped>>
        /\ scene \in SceneType /\ scene.faults > 0 /\ scene' = [scene EXCEPT !.faults = @ - 1]
    BY DEF LoadFails, Inv, RowsKept, RowsTyped
  <1>2. scene' \in SceneType /\ scene'.provider = scene.provider /\ scene'.task = scene.task
    <2>1. scene.faults - 1 \in Nat
      BY <1>1 DEF SceneType
    <2> QED
      BY <1>1, <2>1 DEF SceneType
  <1>3. RowsKept' /\ \A fp : Current(fp)' = Current(fp)
    BY <1>1, <1>2, RowsStay DEF Inv
  <1>4. Idle.undisturbed = FALSE
    BY DEF Idle
  <1>5. load' \in [Loads -> LoadType] /\ Separate' /\ \A k \in Loads : RequestKept(load[k])'
    BY <1>1, <1>4, IdleKept, OneMoves
  <1>6. FeedTyped' /\ EventsKept' /\ BellKept'
    BY <1>1, <1>3, <1>5, BellStays DEF Inv, FeedTyped, EventsKept
  <1> QED
    BY <1>3, <1>5, <1>6 DEF Inv

\* An answer arrives: what the bell toasts, it has not toasted before.
LEMMA AnswerStep ==
  ASSUME Inv, NEW l \in Loads, Answer(l)
  PROVE  Inv'
  <1>1. PICK q \in LoadType : q = load[l] /\ RequestKept(q)
    BY DEF Inv, FeedTyped
  <1>2. /\ q.at = "answer" /\ load' = [load EXCEPT ![l] = Idle] /\ UNCHANGED <<rows, events, overlapped, scene>>
        /\ bell \in BellType
    BY <1>1 DEF Answer, Inv, FeedTyped
  <1>3. RowsKept' /\ \A fp : Current(fp)' = Current(fp)
    BY <1>2, RowsStay DEF Inv, RowsKept, RowsTyped
  <1>4. Idle.undisturbed = FALSE /\ load[l].at # "idle"
    BY <1>1, <1>2 DEF Idle
  <1>5. load' \in [Loads -> LoadType] /\ Separate' /\ \A k \in Loads : RequestKept(load[k])'
    BY <1>2, <1>4, IdleKept, OneMoves
  <1>6. CASE q.by = "page"
    <2>1. bell' = bell
      BY <1>1, <1>6 DEF Answer
    <2>2. FeedTyped' /\ EventsKept' /\ BellKept'
      BY <1>2, <1>3, <1>5, <2>1, BellStays DEF Inv, FeedTyped, EventsKept
    <2> QED
      BY <1>3, <1>5, <2>2 DEF Inv
  <1>7. CASE q.by # "page"
    <2>1. PICK shown \in [Incident -> EventType] : shown = q.rows
      BY DEF LoadType
    <2>2. PICK news : news = News(shown)
      OBVIOUS
    <2>3. \A fp \in news : fp \in Incident /\ bell.seen[fp] # shown[fp].version /\ shown[fp].state = "open"
      BY <2>2 DEF News
    <2>4. PICK toasts : toasts = IF bell.initialized /\ q.showNew THEN {<<fp, shown[fp].version>> : fp \in news} ELSE {}
      OBVIOUS
    <2>5. \A x \in toasts : \E fp \in news : x = <<fp, shown[fp].version>>
      BY <2>4
    <2>6. PICK seen : seen = [fp \in Incident |-> shown[fp].version]
      OBVIOUS
    <2>7. PICK kept : kept = {t \in bell.toasted : t[1] \in OnPage(shown)}
      OBVIOUS
    <2>8. bell' = [initialized |-> TRUE, seen |-> seen, shown |-> shown, toasted |-> kept \cup toasts,
                   again |-> bell.again \/ toasts \cap bell.toasted # {}]
      BY <1>1, <1>7, <2>1, <2>2, <2>4, <2>6, <2>7 DEF Answer, Seen
    <2>9. seen \in [Incident -> VersionType] /\ \A fp \in Incident : seen[fp] = shown[fp].version
      BY <2>1, <2>6 DEF EventType
    <2>10. toasts \subseteq Incident \X VersionType
      BY <2>3, <2>5, <2>9
    <2>11. PICK again \in BOOLEAN : again = (bell.again \/ toasts \cap bell.toasted # {})
      BY DEF BellType
    <2>12. /\ bell' \in BellType /\ bell'.seen = seen /\ bell'.toasted = kept \cup toasts
           /\ bell'.again = again
      BY <1>2, <2>8, <2>9, <2>10, <2>11, <2>7 DEF BellType
    <2>13. ASSUME overlapped = FALSE
           PROVE  bell'.again = FALSE /\ \A fp \in Incident : BellInOrder(fp)'
      <3>1. /\ bell.again = FALSE /\ \A fp \in Incident : BellInOrder(fp)
            /\ \A fp \in Incident : InOrder(q, fp) /\ EventOf(shown[fp], fp)
        BY <1>1, <2>1, <2>13 DEF Inv, BellKept, RequestKept, LoadKept
      <3>2. ASSUME NEW fp \in Incident, fp \in OnPage(shown)
            PROVE  Older(bell.seen[fp], seen[fp]) /\ Older(seen[fp], events[fp].version)
        BY <1>2, <2>1, <2>9, <3>1, <3>2 DEF InOrder
      <3>3. ASSUME NEW fp \in Incident, NEW v \in VersionType, <<fp, v>> \in toasts
            PROVE  v = seen[fp] /\ v # bell.seen[fp] /\ v[1] # "none" /\ fp \in OnPage(shown)
        <4>1. PICK f \in news : <<fp, v>> = <<f, shown[f].version>>
          BY <2>5, <3>3
        <4>2. f = fp /\ v = shown[fp].version /\ fp \in news
          BY <4>1
        <4> QED
          BY <2>3, <2>9, <3>1, <4>2 DEF EventOf, OnPage
      <3>4. toasts \cap bell.toasted = {}
        <4>1. ASSUME NEW x \in toasts, x \in bell.toasted PROVE FALSE
          <5>1. PICK fp \in news : x = <<fp, shown[fp].version>>
            BY <2>5
          <5>2. PICK v \in VersionType, w \in VersionType : v = shown[fp].version /\ w = bell.seen[fp]
            BY <1>2, <2>1, <2>3 DEF EventType, BellType
          <5>3. fp \in Incident /\ v = seen[fp] /\ v # w /\ v[1] # "none" /\ fp \in OnPage(shown)
            BY <2>3, <4>1, <5>1, <5>2, <3>3
          <5>4. Older(v, w) /\ Older(w, v)
            BY <3>1, <3>2, <4>1, <5>1, <5>2, <5>3 DEF BellInOrder
          <5> QED
            BY <5>3, <5>4, OlderStill
        <4> QED
          BY <4>1
      <3>5. ASSUME NEW fp \in Incident
            PROVE  BellInOrder(fp)'
        <4>1. PICK w \in VersionType, x \in VersionType : w = bell.seen[fp] /\ x = seen[fp]
          BY <1>2, <2>9 DEF BellType
        <4>2. ASSUME NEW v \in VersionType, <<fp, v>> \in kept \cup toasts
              PROVE  v[1] # "none" /\ Older(v, x)
          <5>1. CASE <<fp, v>> \in toasts
            BY <3>3, <4>1, <5>1, OlderSelf
          <5>2. CASE <<fp, v>> \in kept
            <6>1. <<fp, v>> \in bell.toasted /\ fp \in OnPage(shown)
              BY <2>7, <5>2
            <6>2. v[1] # "none" /\ Older(v, w) /\ Older(w, x)
              BY <3>1, <3>2, <4>1, <6>1 DEF BellInOrder
            <6> QED
              BY <6>2, OlderStill
          <5> QED
            BY <4>2, <5>1, <5>2
        <4>3. Older(x, events[fp].version) /\ Older(events[fp].version, Current(fp))
          <5>1. CASE fp \in OnPage(shown)
            BY <3>1, <3>2, <4>1, <5>1 DEF BellInOrder
          <5>2. CASE fp \notin OnPage(shown)
            <6>1. shown[fp].state = "none"
              BY <5>2 DEF OnPage
            <6>2. x = <<"none", 0>>
              BY <1>1, <1>2, <2>1, <2>9, <4>1, <6>1 DEF RequestKept, LoadKept
            <6> QED
              BY <3>1, <6>2 DEF BellInOrder, Older
          <5> QED
            BY <5>1, <5>2
        <4> QED
          BY <1>2, <1>3, <2>12, <4>1, <4>2, <4>3 DEF BellInOrder
      <3> QED
        BY <2>11, <2>12, <3>1, <3>4, <3>5
    <2>14. FeedTyped' /\ EventsKept' /\ BellKept'
      BY <1>2, <1>5, <2>12, <2>13 DEF Inv, FeedTyped, EventsKept, BellKept
    <2> QED
      BY <1>3, <1>5, <2>14 DEF Inv
  <1> QED
    BY <1>6, <1>7

\* A load starts: alone, or overlapping the others.
LEMMA StartStep ==
  ASSUME Inv, NEW l \in Loads, NEW does, NEW by \in {"bell", "page"}, NEW showNew \in BOOLEAN,
         Start(l, does, by, showNew)
  PROVE  Inv'
  <1>1. PICK alone \in BOOLEAN : alone = \A k \in Loads : load[k].at = "idle"
    OBVIOUS
  <1>2. PICK at \in {"providers", "flows"} : at = IF scene.provider THEN "providers" ELSE "flows"
    OBVIOUS
  <1>3. PICK n : n = [Idle EXCEPT !.at = at, !.by = by, !.showNew = showNew, !.undisturbed = alone]
    OBVIOUS
  <1>4. /\ load[l].at = "idle" /\ UNCHANGED <<rows, events, bell, scene>> /\ overlapped' = (overlapped \/ ~alone)
        /\ load' = [k \in Loads |-> IF k = l THEN n ELSE [load[k] EXCEPT !.undisturbed = FALSE]]
    BY <1>1, <1>2, <1>3 DEF Start
  <1>5. /\ n \in LoadType /\ n.at = at /\ n.todo = <<>> /\ n.active = {} /\ n.undisturbed = alone
        /\ n.rows = Idle.rows
    BY <1>2, <1>3, IdleKept DEF Idle, LoadType, Statement
  <1>6. /\ load \in [Loads -> LoadType] /\ overlapped \in BOOLEAN /\ \A k \in Loads : RequestKept(load[k])
        /\ events' = events /\ bell' = bell /\ scene' = scene
    BY <1>4 DEF Inv, FeedTyped
  <1>7. RowsKept' /\ \A fp : Cause(fp)' = Cause(fp) /\ Current(fp)' = Current(fp)
    BY <1>4, RowsStay DEF Inv, RowsKept, RowsTyped
  <1>8. ToSet(<<>>) = {}
    BY Elements
  <1>9. LoadKept(n)
    <2>1. \A fp \in Incident : Idle.rows[fp].state = "none" /\ Idle.rows[fp].version = <<"none", 0>>
      BY DEF Idle, NoRows, NoEvent
    <2> QED
      BY <1>5, <1>8, <2>1 DEF LoadKept, EventOf
  <1>10. Exact(n)'
    <2>1. ASSUME NEW fp \in Incident PROVE ~(Cause(fp) /\ fp \in Reported(at))
      <3>1. CASE at = "providers"
        BY <3>1 DEF Reported
      <3>2. CASE at = "flows"
        <4>1. provider.health # "unhealthy" /\ provider.aged = FALSE /\ provider.checked # 0
          BY <1>2, <3>2 DEF Inv, RowsKept, RowsTyped, SceneType, SceneKept
        <4>2. Reported(at) = {<<"provider", "unhealthy">>, <<"provider", "stale">>}
          BY <3>2 DEF Reported, ReportedBy
        <4>3. Cause(<<"provider", "unhealthy">>) = FALSE /\ Cause(<<"provider", "stale">>) = FALSE
          BY <4>1 DEF Cause, Unverified
        <4> QED
          BY <4>2, <4>3
      <3> QED
        BY <3>1, <3>2
    <2> QED
      BY <1>5, <1>7, <1>8, <2>1 DEF Exact, Pending
  <1>11. \A fp \in Incident : InOrder(n, fp)'
    BY <1>5, <1>8 DEF InOrder
  <1>12. RequestKept(n)'
    BY <1>9, <1>10, <1>11 DEF RequestKept, LoadKept
  <1>13. ASSUME NEW k \in Loads, k # l
         PROVE  /\ RequestKept(load[k])' /\ load'[k] \in LoadType /\ load'[k].at = load[k].at
                /\ load'[k].undisturbed = FALSE
    <2>1. PICK q \in LoadType : q = load[k] /\ RequestKept(q)
      BY <1>6
    <2>2. PICK m : m = [q EXCEPT !.undisturbed = FALSE]
      OBVIOUS
    <2>3. /\ m \in LoadType /\ m.undisturbed = FALSE /\ m.at = q.at /\ m.todo = q.todo /\ m.rows = q.rows
          /\ load'[k] = m
      BY <1>4, <1>13, <2>1, <2>2 DEF LoadType
    <2>4. RequestKept(m)'
      <3>1. CASE q.at = "idle"
        <4>1. q = Idle /\ Idle.undisturbed = FALSE
          BY <2>1, <3>1 DEF RequestKept, LoadKept, Idle
        <4>2. m = Idle
          BY <2>1, <2>2, <4>1 DEF LoadType
        <4> QED
          BY <4>2, IdleKept
      <3>2. CASE q.at # "idle"
        <4>1. overlapped' # FALSE
          BY <1>1, <1>4, <2>1, <3>2
        <4>2. LoadKept(m)
          BY <2>1, <2>3, <3>2 DEF RequestKept, LoadKept
        <4> QED
          BY <2>3, <4>1, <4>2 DEF RequestKept, LoadKept, Exact
      <3> QED
        BY <3>1, <3>2
    <2> QED
      BY <2>1, <2>3, <2>4, Stored
  <1>14. load'[l] = n /\ RequestKept(load[l])'
    <2>1. load'[l] = n
      BY <1>4
    <2> QED
      BY <1>12, <2>1, Stored
  <1>15. load' \in [Loads -> LoadType]
    BY <1>4, <1>5, <1>13, <1>14
  <1>16. Separate'
    <2>1. ASSUME NEW k \in Loads, NEW j \in Loads, k # j, overlapped' = FALSE \/ load'[k].undisturbed = TRUE
          PROVE  load'[k].at = "idle" \/ load'[j].at = "idle"
      <3>1. alone
        BY <1>4, <1>5, <1>6, <1>13, <1>14, <2>1
      <3> QED
        BY <1>1, <1>13, <2>1, <3>1
    <2> QED
      BY <2>1 DEF Separate
  <1>17. FeedTyped' /\ EventsKept'
    BY <1>4, <1>6, <1>15 DEF Inv, FeedTyped, EventsKept
  <1>18. BellKept'
    BY <1>4, <1>6, <1>7, BellStays DEF Inv
  <1> QED
    BY <1>7, <1>13, <1>14, <1>16, <1>17, <1>18 DEF Inv

\* What is read of an event and what is not makes no difference.
LEMMA ReadOnly ==
  ASSUME Inv, UNCHANGED <<rows, load, bell, overlapped, scene>>, events' \in [Fingerprint -> EventType],
         \A fp \in Fingerprint : /\ events'[fp].state = events[fp].state
                                 /\ events'[fp].version = events[fp].version
                                 /\ events'[fp].managed = events[fp].managed
  PROVE  Inv'
  <1>1. /\ load' = load /\ bell' = bell /\ overlapped' = overlapped /\ scene' = scene
        /\ load \in [Loads -> LoadType]
    BY DEF Inv, FeedTyped
  <1>2. RowsKept' /\ \A fp : Cause(fp)' = Cause(fp) /\ Current(fp)' = Current(fp)
    BY <1>1, RowsStay DEF Inv, RowsKept, RowsTyped
  <1>3. FeedTyped' /\ EventsKept'
    BY <1>1 DEF Inv, FeedTyped, EventsKept, EventOf
  <1>4. BellKept'
    BY <1>1, <1>2, BellStays, Incidents DEF Inv
  <1>5. ASSUME NEW l \in Loads PROVE RequestKept(load[l])'
    <2>1. PICK q \in LoadType : q = load[l] /\ RequestKept(q)
      BY <1>1 DEF Inv
    <2>2. q.active \subseteq Incident /\ Incident \subseteq Fingerprint
      BY Incidents DEF LoadType
    <2>3. Exact(q)'
      BY <1>2, <2>1, <2>2 DEF RequestKept, Exact, Pending
    <2>4. ASSUME overlapped' = FALSE, NEW fp \in Incident PROVE InOrder(q, fp)'
      BY <1>1, <1>2, <2>1, <2>2, <2>4 DEF RequestKept, InOrder
    <2>5. RequestKept(q)'
      BY <2>1, <2>3, <2>4 DEF RequestKept, LoadKept
    <2> QED
      BY <1>1, <2>1, <2>5, Stored
  <1>6. Separate'
    BY <1>1 DEF Inv, Separate
  <1> QED
    BY <1>2, <1>3, <1>4, <1>5, <1>6 DEF Inv

\* Events are marked, read or unread.
LEMMA MarkStep ==
  ASSUME Inv, NEW fps, NEW read \in BOOLEAN, Mark(fps, read)
  PROVE  Inv'
  <1>1. /\ UNCHANGED <<rows, load, bell, overlapped, scene>> /\ events \in [Fingerprint -> EventType]
        /\ events' = [fp \in Fingerprint |-> IF fp \in fps /\ events[fp].state # "none"
                                             THEN [events[fp] EXCEPT !.read = read] ELSE events[fp]]
    BY DEF Mark, Inv, FeedTyped
  <1>2. ASSUME NEW fp \in Fingerprint
        PROVE  /\ events'[fp] \in EventType /\ events'[fp].state = events[fp].state
               /\ events'[fp].version = events[fp].version /\ events'[fp].managed = events[fp].managed
    <2>1. PICK e \in EventType : e = events[fp]
      BY <1>1
    <2>2. [e EXCEPT !.read = read] \in EventType
      BY DEF EventType
    <2>3. events'[fp] = e \/ events'[fp] = [e EXCEPT !.read = read]
      BY <1>1, <2>1
    <2> QED
      BY <2>1, <2>2, <2>3 DEF EventType
  <1>3. events' \in [Fingerprint -> EventType]
    BY <1>1, <1>2
  <1> QED
    BY <1>1, <1>2, <1>3, ReadOnly

-----------------------------------------------------------------------------
(* The views *)

\* The set that a total sums up has no record.
LEMMA TotalNone ==
  ASSUME NEW kind, {r \in Transactions : r.kind = kind} = {}
  PROVE  Total(kind) = 0
  <1> DEFINE S == {r \in Transactions : r.kind = kind}
  <1>1. S = {}
    OBVIOUS
  <1> HIDE DEF S
  <1>2. MapThenFoldSet(LAMBDA a, b : a + b, 0, LAMBDA r : r.amount, LAMBDA T : CHOOSE r \in T : TRUE, S) = 0
    BY <1>1 DEF MapThenFoldSet
  <1> QED
    BY <1>2 DEF Total, S

\* The set that a total sums up has one record.
LEMMA TotalOne ==
  ASSUME NEW kind, NEW y, {r \in Transactions : r.kind = kind} = {y}, y.amount \in Nat
  PROVE  Total(kind) = y.amount
  <1> DEFINE S == {r \in Transactions : r.kind = kind}
             F == [s \in SUBSET S |-> IF s = {} THEN 0 ELSE y.amount]
             Eq(f) == f = [s \in SUBSET S |->
                             IF s = {} THEN 0
                             ELSE LET x == CHOOSE r \in s : TRUE IN x.amount + f[s \ {x}]]
             G == CHOOSE iter : Eq(iter)
  <1>1. S = {y}
    OBVIOUS
  <1> HIDE DEF S
  <1>2. Eq(F)
    <2>1. ASSUME NEW s \in SUBSET S
          PROVE  F[s] = IF s = {} THEN 0 ELSE LET x == CHOOSE r \in s : TRUE IN x.amount + F[s \ {x}]
      <3>1. CASE s = {}
        BY <3>1
      <3>2. CASE s # {}
        <4>1. s = {y}
          BY <1>1, <3>2
        <4>2. (CHOOSE r \in s : TRUE) = y
          BY <4>1
        <4>3. s \ {y} = {} /\ F[{}] = 0
          BY <4>1
        <4> QED
          BY <3>2, <4>2, <4>3
      <3> QED
        BY <3>1, <3>2
    <2>2. F = [s \in SUBSET S |-> F[s]]
      OBVIOUS
    <2> HIDE DEF F
    <2> QED
      BY <2>1, <2>2
  <1>3. Eq(G)
    <2> HIDE DEF Eq, F
    <2> QED
      BY <1>2
  <1>4. G[S] = y.amount
    <2> HIDE DEF G
    <2>1. G[{}] = 0
      BY <1>3
    <2>2. S \in SUBSET S /\ S # {}
      BY <1>1
    <2>3. G[S] = LET x == CHOOSE r \in S : TRUE IN x.amount + G[S \ {x}]
      BY <1>3, <2>2
    <2>4. (CHOOSE r \in S : TRUE) = y /\ S \ {y} = {}
      BY <1>1
    <2>5. G[S] = y.amount + 0
      BY <2>1, <2>3, <2>4
    <2> QED
      BY <2>5
  <1>5. MapThenFoldSet(LAMBDA a, b : a + b, 0, LAMBDA r : r.amount, LAMBDA T : CHOOSE r \in T : TRUE, S) = y.amount
    BY <1>4 DEF MapThenFoldSet
  <1> QED
    BY <1>5 DEF Total, S

\* What the rows say of a channel, in the words of its rules.
LEMMA ChannelFacts ==
  ASSUME RowsKept
  PROVE  /\ (channel.status \in TerminalChannel => ~Stuck /\ channel.refund \in {NoSig, "payout"})
         /\ (channel.authorized = 0 => Remainder)
         /\ ListedAsFailed = Stuck /\ Stuck \in BOOLEAN /\ Ending \in BOOLEAN /\ Remainder \in BOOLEAN
         /\ channel.status \in TerminalChannel \cup {"reserved", "open", "failed"}
         /\ task.expired \in BOOLEAN
  <1>1. /\ channel \in ChannelType /\ task \in TaskType /\ ChannelKept(channel, payer, settlements)
    BY DEF RowsKept, RowsTyped
  <1>2. Ceiling > 0
    BY ConsoleAssumption
  <1>3. channel.status \in TerminalChannel =>
          channel.stage = "finalized" /\ channel.status # "failed" /\ channel.blocked = FALSE
    BY <1>1 DEF ChannelKept, ChannelType, TerminalChannel
  <1>4. channel.status \in TerminalChannel => ~Stuck
    BY <1>3 DEF Stuck, BlockedStage
  <1>5. ListedAsFailed = Stuck /\ Stuck \in BOOLEAN
    BY <1>1 DEF ListedAsFailed, Stuck, ChannelType
  <1>6. Ending \in BOOLEAN /\ Remainder \in BOOLEAN
    BY <1>1 DEF Ending, Remainder, TaskType
  <1> QED
    BY <1>1, <1>2, <1>4, <1>5, <1>6 DEF Remainder, ChannelType, TaskType, Signature

\* The three rules agree.
LEMMA RulesAgree ==
  ASSUME RowsKept
  PROVE  ActionsAgree
  <1>1. PICK stuck \in BOOLEAN : stuck = Stuck
    BY ChannelFacts
  <1>2. PICK ending \in BOOLEAN : ending = Ending
    BY ChannelFacts
  <1>3. PICK left \in BOOLEAN : left = Remainder
    BY ChannelFacts
  <1>4. PICK terminal \in BOOLEAN : terminal <=> channel.status \in TerminalChannel
    BY DEF TerminalChannel
  <1>5. PICK open \in BOOLEAN : open = (channel.status = "open")
    OBVIOUS
  <1>6. /\ ~(terminal /\ stuck) /\ ~(terminal /\ open) /\ (channel.authorized = 0 => left)
        /\ channel.status \in {"open", "failed"} => ~terminal
    BY <1>1, <1>3, <1>4, <1>5, ChannelFacts DEF TerminalChannel
  <1>7. ActionFor = CASE terminal -> "none"
                      [] ~terminal /\ stuck -> "inspect"
                      [] open /\ ~stuck /\ ending -> IF channel.authorized = 0 THEN "recover" ELSE "finalize"
                      [] OTHER -> "none"
    <2>1. (channel.status = "failed" \/ channel.blocked \/ channel.stage \in BlockedStage) <=> stuck
      BY <1>1 DEF Stuck
    <2>2. (channel.status = "open" /\ ~channel.blocked /\ channel.stage \notin BlockedStage /\ Ending)
             <=> (open /\ ~stuck /\ ending)
      BY <1>1, <1>2, <1>5 DEF Stuck
    <2> QED
      BY <1>4, <2>1, <2>2 DEF ActionFor
  <1>8. ListAction = CASE stuck -> "inspect"
                       [] ~stuck /\ open /\ ending -> IF channel.authorized = 0 THEN "recover" ELSE "finalize"
                       [] OTHER -> "none"
    BY <1>1, <1>2, <1>5, ChannelFacts DEF ListAction
  <1>9. PICK ended \in BOOLEAN : ended <=> task.status \in TerminalTask
    BY DEF TerminalTask
  <1>10. PICK expired \in BOOLEAN : expired = task.expired
    BY ChannelFacts
  <1>11. ending <=> ended \/ expired
    BY <1>2, <1>9, <1>10 DEF Ending
  <1>12. RequiresAction <=> stuck \/ (~terminal /\ expired) \/ (open /\ left /\ ended)
    BY <1>1, <1>3, <1>4, <1>5, <1>9, <1>10 DEF RequiresAction
  <1>13. DashboardAction = CASE ~RequiresAction -> "none"
                             [] RequiresAction /\ stuck -> "inspect"
                             [] RequiresAction /\ ~stuck /\ channel.authorized = 0 -> "recover"
                             [] OTHER -> "finalize"
    BY <1>1 DEF DashboardAction
  <1>14. ListAction = ActionFor
    BY <1>6, <1>7, <1>8
  <1>15. (ActionFor = "inspect" \/ (ActionFor # "none" /\ Remainder)) => DashboardAction = ActionFor
    BY <1>3, <1>6, <1>7, <1>11, <1>12, <1>13
  <1>16. channel.status \in {"open", "failed"} /\ RequiresAction => DashboardAction = ActionFor
    <2>1. channel.status = "failed" => stuck
      BY <1>1 DEF Stuck
    <2> QED
      BY <1>5, <1>6, <1>7, <1>11, <1>12, <1>13, <2>1
  <1> QED
    BY <1>14, <1>15, <1>16 DEF ActionsAgree

\* The records of a kind.
LEMMA RecordsByKind ==
  ASSUME RowsKept
  PROVE  /\ {r \in Transactions : r.kind = "authorization"} =
              IF task.paid > 0 THEN {Record("authorization", "receipt", task.paid, NoSig)} ELSE {}
         /\ {r \in Transactions : r.kind = "settlement"} =
              IF channel.settle # NoSig
              THEN {Record("settlement", "channel", channel.authorized, channel.settle)} ELSE {}
         /\ {r \in Transactions : r.kind = "recovery"} =
              IF channel.refund # NoSig
              THEN {Record("recovery", "channel", Ceiling - channel.spent, channel.refund)} ELSE {}
         /\ (\E r \in Transactions : r.kind \in {"failure", "rejection"} /\ r.id = task.last[1]) <=> LatestFailed
  <1>1. SettlementRecords = {}
    <2>1. settlements \in SUBSET SettlementType /\ (settlements # {} => channel.settle = "payout")
      BY DEF RowsKept, RowsTyped, ChannelKept
    <2>2. \A s \in settlements : s.signature = channel.settle
      BY <2>1 DEF SettlementType
    <2> QED
      BY <2>2 DEF SettlementRecords
  <1>2. Transactions = CallRecords \cup ChannelRecords
    BY <1>1 DEF Transactions
  <1>3. \A kind, id, amount, sig : Record(kind, id, amount, sig).kind = kind /\ Record(kind, id, amount, sig).signature = sig
    BY DEF Record
  <1>4. \A r : r \in CallRecords <=>
          \/ task.paid > 0 /\ r = Record("authorization", "receipt", task.paid, NoSig)
          \/ task.call = "failed" /\ r = Record("failure", "call", task.owed, NoSig)
          \/ task.rejected /\ r = Record("rejection", "rejected", 0, NoSig)
    BY DEF CallRecords
  <1>5. \A r : r \in ChannelRecords <=>
          \/ channel.open # NoSig /\ r = Record("channel_open", "channel", Ceiling, channel.open)
          \/ channel.settle # NoSig /\ r = Record("settlement", "channel", channel.authorized, channel.settle)
          \/ channel.distribution # NoSig /\ r = Record("distribution", "channel", channel.spent, channel.distribution)
          \/ channel.refund # NoSig /\ r = Record("recovery", "channel", Ceiling - channel.spent, channel.refund)
    BY <1>3 DEF ChannelRecords
  <1>6. {r \in Transactions : r.kind = "authorization"} =
          IF task.paid > 0 THEN {Record("authorization", "receipt", task.paid, NoSig)} ELSE {}
    BY <1>2, <1>3, <1>4, <1>5
  <1>7. {r \in Transactions : r.kind = "settlement"} =
          IF channel.settle # NoSig
          THEN {Record("settlement", "channel", channel.authorized, channel.settle)} ELSE {}
    BY <1>2, <1>3, <1>4, <1>5
  <1>8. {r \in Transactions : r.kind = "recovery"} =
          IF channel.refund # NoSig
          THEN {Record("recovery", "channel", Ceiling - channel.spent, channel.refund)} ELSE {}
    BY <1>2, <1>3, <1>4, <1>5
  <1>9. (\E r \in Transactions : r.kind \in {"failure", "rejection"} /\ r.id = task.last[1]) <=> LatestFailed
    <2>1. task.rejected \in BOOLEAN /\ (task.last[1] = "rejected" => task.rejected = TRUE)
      BY DEF RowsKept, RowsTyped, TaskType, TaskKept
    <2>2. /\ Record("failure", "call", task.owed, NoSig).id = "call"
          /\ Record("rejection", "rejected", 0, NoSig).id = "rejected"
      BY DEF Record
    <2>3. ASSUME NEW r \in Transactions, r.kind \in {"failure", "rejection"}
          PROVE  \/ task.call = "failed" /\ r.id = "call"
                 \/ task.rejected = TRUE /\ r.id = "rejected"
      <3>1. r \in CallRecords \/ r \in ChannelRecords
        BY <1>2
      <3>2. r \notin ChannelRecords
        BY <1>3, <1>5, <2>3
      <3>3. \/ task.call = "failed" /\ r = Record("failure", "call", task.owed, NoSig)
            \/ task.rejected /\ r = Record("rejection", "rejected", 0, NoSig)
        BY <1>3, <1>4, <2>3, <3>1, <3>2
      <3> QED
        BY <2>1, <2>2, <3>3
    <2>4. task.call = "failed" => \E r \in Transactions : r.kind = "failure" /\ r.id = "call"
      BY <1>2, <1>3, <1>4, <2>2
    <2>5. task.rejected = TRUE => \E r \in Transactions : r.kind = "rejection" /\ r.id = "rejected"
      BY <1>2, <1>3, <1>4, <2>2
    <2> QED
      BY <2>1, <2>3, <2>4, <2>5 DEF LatestFailed
  <1> QED
    BY <1>6, <1>7, <1>8, <1>9

\* The dashboard's totals are the explorer's.
LEMMA SumsAgree ==
  ASSUME RowsKept
  PROVE  TotalsAgree
  <1>1. /\ task \in TaskType /\ channel \in ChannelType /\ ChannelKept(channel, payer, settlements) /\ TaskKept(task)
    BY DEF RowsKept, RowsTyped
  <1>2. /\ task.paid \in Nat /\ channel.authorized \in Nat /\ Ceiling - channel.spent \in Nat
        /\ channel.authorized = channel.spent /\ channel.distribution = channel.settle
        /\ (channel.status \in TerminalChannel => channel.settle # NoSig)
        /\ (channel.status = "recovered" => channel.refund # NoSig)
    <2>1. task.paid \in 0..Ceiling /\ channel.authorized \in 0..Ceiling /\ channel.spent \in 0..Ceiling
      BY <1>1 DEF TaskType, ChannelType
    <2>2. Ceiling \in Nat
      BY ConsoleAssumption
    <2>3. task.paid \in Nat /\ channel.authorized \in Nat /\ Ceiling - channel.spent \in Nat
      BY <2>1, <2>2
    <2> QED
      BY <1>1, <2>3 DEF ChannelKept, TaskKept, NoSig
  <1>3. \A kind, id, amount, sig : Record(kind, id, amount, sig).amount = amount
    BY DEF Record
  <1>4. Total("authorization") = task.paid
    <2>1. CASE task.paid > 0
      <3>1. PICK y : y = Record("authorization", "receipt", task.paid, NoSig)
        OBVIOUS
      <3>2. {r \in Transactions : r.kind = "authorization"} = {y} /\ y.amount = task.paid
        BY <1>3, <2>1, <3>1, RecordsByKind
      <3> QED
        BY <1>2, <3>2, TotalOne
    <2>2. CASE ~(task.paid > 0)
      <3>1. {r \in Transactions : r.kind = "authorization"} = {}
        BY <2>2, RecordsByKind
      <3> QED
        BY <1>2, <2>2, <3>1, TotalNone
    <2> QED
      BY <2>1, <2>2
  <1>5. Total("settlement") = IF channel.settle # NoSig THEN channel.spent ELSE 0
    <2>1. CASE channel.settle # NoSig
      <3>1. PICK y : y = Record("settlement", "channel", channel.authorized, channel.settle)
        OBVIOUS
      <3>2. {r \in Transactions : r.kind = "settlement"} = {y} /\ y.amount = channel.authorized
        BY <1>3, <2>1, <3>1, RecordsByKind
      <3> QED
        BY <1>2, <2>1, <3>2, TotalOne
    <2>2. CASE channel.settle = NoSig
      <3>1. {r \in Transactions : r.kind = "settlement"} = {}
        BY <2>2, RecordsByKind
      <3> QED
        BY <2>2, <3>1, TotalNone
    <2> QED
      BY <2>1, <2>2
  <1>6. Total("recovery") = IF channel.refund # NoSig THEN Ceiling - channel.spent ELSE 0
    <2>1. CASE channel.refund # NoSig
      <3>1. PICK y : y = Record("recovery", "channel", Ceiling - channel.spent, channel.refund)
        OBVIOUS
      <3>2. {r \in Transactions : r.kind = "recovery"} = {y} /\ y.amount = Ceiling - channel.spent
        BY <1>3, <2>1, <3>1, RecordsByKind
      <3> QED
        BY <1>2, <2>1, <3>2, TotalOne
    <2>2. CASE channel.refund = NoSig
      <3>1. {r \in Transactions : r.kind = "recovery"} = {}
        BY <2>2, RecordsByKind
      <3> QED
        BY <2>2, <3>1, TotalNone
    <2> QED
      BY <2>1, <2>2
  <1>7. /\ Dashboard.authorized = task.paid
        /\ Dashboard.settled = IF channel.settle # NoSig THEN channel.spent ELSE 0
        /\ Dashboard.recovered = IF channel.refund # NoSig THEN Ceiling - channel.spent ELSE 0
    BY <1>2 DEF Dashboard
  <1> QED
    BY <1>4, <1>5, <1>6, <1>7 DEF TotalsAgree

\* The dashboard and the explorer show an incident's cause when the feed's statement finds it.
LEMMA ToldIsCause ==
  ASSUME RowsKept, NEW fp \in Incident
  PROVE  Told(fp) <=> Cause(fp)
  <1>1. CASE fp \in {<<"provider", "unhealthy">>, <<"provider", "stale">>}
    BY <1>1 DEF Told, Cause, Unverified, RowsKept, RowsTyped, ProviderType
  <1>2. CASE fp = <<"task", "failure">>
    BY <1>2, RecordsByKind DEF Told, Cause
  <1>3. CASE fp = <<"channel", "recovery">>
    <2>1. Told(fp) <=> DashboardAction = "inspect"
      BY <1>3 DEF Told
    <2>2. Cause(fp) <=> ActionFor = "inspect"
      BY <1>3 DEF Cause
    <2>3. DashboardAction = "inspect" <=> Stuck
      BY DEF DashboardAction, RequiresAction
    <2>4. ActionFor = "inspect" <=> Stuck
      BY ChannelFacts DEF ActionFor, Stuck
    <2> QED
      BY <2>1, <2>2, <2>3, <2>4
  <1>4. CASE fp = <<"channel", "recoverable">>
    <2>1. Told(fp) <=> Recoverable /\ ~Stuck
      BY <1>4 DEF Told
    <2>2. Cause(fp) <=> ActionFor \in {"recover", "finalize"} /\ Remainder
      BY <1>4 DEF Cause
    <2>3. ActionFor \in {"recover", "finalize"} <=> channel.status = "open" /\ ~Stuck /\ Ending
      BY ChannelFacts DEF ActionFor, Stuck, TerminalChannel
    <2> QED
      BY <2>1, <2>2, <2>3 DEF Recoverable
  <1> QED
    BY <1>1, <1>2, <1>3, <1>4 DEF Incident

-----------------------------------------------------------------------------
(* The specification *)

\* Nothing is known, requested or shown at first.
LEMMA Starts ==
  ASSUME Init
  PROVE  Inv
  <1>1. /\ scene \in SceneType
        /\ \/ provider = [status |-> "active", health |-> "healthy", checked |-> 1, updated |-> 1, aged |-> FALSE]
           \/ /\ scene.provider
              /\ provider = [status |-> "active", health |-> "unknown", checked |-> 0, updated |-> 1, aged |-> FALSE]
        /\ settlements = {} /\ payer = [at |-> "idle", amount |-> 0]
        /\ events = [fp \in Fingerprint |-> NoEvent] /\ load = [l \in Loads |-> Idle] /\ overlapped = FALSE
        /\ bell = [initialized |-> FALSE, seen |-> NoSeen, shown |-> NoRows, toasted |-> {}, again |-> FALSE]
    BY ConsoleAssumption DEF Init
  <1>2. /\ task \in TaskType /\ channel \in ChannelType /\ TaskKept(task) /\ ChannelKept(channel, payer, settlements)
        /\ (scene.task = "none" => task.last[1] = "none" /\ channel.status = "reserved" /\ channel.stage = "prepared")
    <2>1. 0 \in 0..Ceiling /\ 1 \in 0..Ceiling
      BY ConsoleAssumption
    <2>2. CASE scene.task = "run"
      <3>1. /\ task = [status |-> "completed", expired |-> FALSE, call |-> "fulfilled", owed |-> 1,
                        rejected |-> FALSE, last |-> <<"call", 1>>, paid |-> 1, running |-> 0]
            /\ channel = [status |-> "open", stage |-> "open", blocked |-> FALSE, authorized |-> 1, spent |-> 1,
                          updated |-> 0, open |-> "opening", settle |-> NoSig, distribution |-> NoSig, refund |-> NoSig]
        BY <2>2 DEF Init, NewTask, NewChannel
      <3>2. task \in TaskType /\ TaskKept(task)
        BY <2>1, <3>1 DEF TaskType, FlowType, TerminalTask, TaskKept
      <3>3. channel \in ChannelType
        BY <2>1, <3>1 DEF ChannelType, Stage, Signature
      <3>4. ChannelKept(channel, payer, settlements)
        BY <1>1, <3>1 DEF ChannelKept, TerminalChannel
      <3> QED
        BY <2>2, <3>2, <3>3, <3>4
    <2>3. CASE scene.task # "run"
      <3>1. /\ task = [status |-> "active", expired |-> FALSE, call |-> "none", owed |-> 0,
                        rejected |-> FALSE, last |-> <<"none", 0>>, paid |-> 0, running |-> 0]
            /\ channel = [status |-> "reserved", stage |-> "prepared", blocked |-> FALSE, authorized |-> 0, spent |-> 0,
                          updated |-> 0, open |-> NoSig, settle |-> NoSig, distribution |-> NoSig, refund |-> NoSig]
        BY <2>3 DEF Init, NewTask, NewChannel
      <3>2. task \in TaskType /\ TaskKept(task)
        BY <2>1, <3>1 DEF TaskType, FlowType, TaskKept
      <3>3. channel \in ChannelType
        BY <2>1, <3>1 DEF ChannelType, Stage, Signature
      <3>4. ChannelKept(channel, payer, settlements)
        BY <1>1, <3>1 DEF ChannelKept, TerminalChannel
      <3> QED
        BY <3>1, <3>2, <3>3, <3>4
    <2> QED
      BY <2>2, <2>3
  <1>3. RowsKept
    <2>1. provider \in ProviderType /\ payer \in PayerType /\ settlements \in SUBSET SettlementType
      <3>1. 0 \in 0..Ceiling
        BY ConsoleAssumption
      <3>2. provider \in ProviderType
        <4>1. \/ provider = [status |-> "active", health |-> "healthy", checked |-> 1, updated |-> 1, aged |-> FALSE]
              \/ provider = [status |-> "active", health |-> "unknown", checked |-> 0, updated |-> 1, aged |-> FALSE]
          BY <1>1
        <4>2. CASE provider.checked = 0
          <5>1. provider = [status |-> "active", health |-> "unknown", checked |-> 0, updated |-> 1, aged |-> FALSE]
            BY <4>1, <4>2
          <5> QED
            BY <5>1 DEF ProviderType
        <4>3. CASE provider.checked # 0
          <5>1. provider = [status |-> "active", health |-> "healthy", checked |-> 1, updated |-> 1, aged |-> FALSE]
            BY <4>1, <4>3
          <5> QED
            BY <5>1 DEF ProviderType
        <4> QED
          BY <4>2, <4>3
      <3>3. payer \in PayerType /\ settlements \in SUBSET SettlementType
        BY <1>1, <3>1 DEF PayerType
      <3> QED
        BY <3>2, <3>3
    <2>2. ProviderKept(provider)
      BY <1>1 DEF ProviderKept
    <2>3. scene.provider = FALSE => provider.health # "unhealthy" /\ provider.aged = FALSE /\ provider.checked # 0
      BY <1>1
    <2> QED
      BY <1>1, <1>2, <2>1, <2>2, <2>3 DEF RowsKept, RowsTyped, SceneKept
  <1>4. <<"none", 0>> \in VersionType /\ \A w : Older(<<"none", 0>>, w)
    BY DEF VersionType, Version, Older
  <1>5. NoEvent \in EventType /\ NoEvent.state = "none" /\ NoEvent.version = <<"none", 0>>
    BY <1>4 DEF NoEvent, EventType
  <1>6. NoSeen \in [Incident -> VersionType] /\ NoRows \in [Incident -> EventType]
    BY <1>4, <1>5 DEF NoSeen, NoRows
  <1>7. FeedTyped
    BY <1>1, <1>5, <1>6, IdleKept DEF FeedTyped, BellType
  <1>8. EventsKept
    BY <1>1, <1>5 DEF EventsKept, EventOf
  <1>9. BellKept
    <2>1. ASSUME NEW fp \in Incident PROVE BellInOrder(fp)
      <3>1. fp \in Fingerprint /\ NoSeen[fp] = <<"none", 0>>
        BY Incidents DEF NoSeen
      <3>2. bell.seen[fp] = <<"none", 0>> /\ bell.toasted = {} /\ events[fp].version = <<"none", 0>>
        BY <1>1, <1>5, <3>1
      <3> QED
        BY <1>4, <3>2 DEF BellInOrder
    <2> QED
      BY <1>1, <2>1 DEF BellKept
  <1>10. \A l \in Loads : RequestKept(load[l]) /\ load[l].at = "idle"
    BY <1>1, IdleKept DEF Idle
  <1>11. Separate
    BY <1>10 DEF Separate
  <1> QED
    BY <1>3, <1>7, <1>8, <1>9, <1>10, <1>11 DEF Inv

\* Every step keeps it all.
LEMMA Steps ==
  ASSUME Inv, [Next]_vars
  PROVE  Inv'
  <1>1. CASE WriteRows
    BY <1>1, WriteStep
  <1>2. CASE Browse
    <2>1. CASE Poll
      BY <2>1, StartStep DEF Poll
    <2>2. CASE Refresh
      BY <2>2, StartStep DEF Refresh
    <2>3. CASE OpenPage
      BY <2>3, StartStep DEF OpenPage
    <2>4. CASE MarkRead
      BY <2>4, MarkStep DEF MarkRead
    <2>5. CASE MarkAllRead
      BY <2>5, MarkStep DEF MarkAllRead
    <2> QED
      BY <1>2, <2>1, <2>2, <2>3, <2>4, <2>5 DEF Browse
  <1>3. ASSUME NEW l \in Loads, Serve(l) PROVE Inv'
    <2>1. CASE ReadProviders(l) \/ ReadFlows(l) \/ ReadChannels(l) \/ ReadTasks(l)
      BY <2>1, Statements
    <2>2. CASE Upsert(l)
      BY <2>2, UpsertStep
    <2>3. CASE FindMissing(l)
      BY <2>3, FindStep
    <2>4. CASE \E fp \in Fingerprint : Resolve(l, fp)
      BY <2>4, ResolveStep
    <2>5. CASE List(l)
      BY <2>5, ListStep
    <2>6. CASE Answer(l)
      BY <2>6, AnswerStep
    <2> QED
      BY <1>3, <2>1, <2>2, <2>3, <2>4, <2>5, <2>6 DEF Serve
  <1>4. ASSUME NEW l \in Loads, LoadFails(l) PROVE Inv'
    BY <1>4, FailStep
  <1>5. CASE UNCHANGED vars
    <2>1. UNCHANGED <<rows, events, load, bell, overlapped, scene>>
      BY <1>5 DEF vars
    <2> QED
      BY <2>1, ReadOnly DEF Inv, FeedTyped
  <1> QED
    BY <1>1, <1>2, <1>3, <1>4, <1>5 DEF Next

\* The inductive invariant: the rows keep their shape, a request that nothing
\* overlapped finds what there is, and versions only get newer on their way to the bell.
THEOREM Invariant == Spec => []Inv
  <1>1. Init => Inv
    BY Starts
  <1>2. Inv /\ [Next]_vars => Inv'
    BY Steps
  <1> QED
    BY <1>1, <1>2, PTL DEF Spec

\* The rows, the stored events and the requests in flight have their types.
THEOREM TypeCorrect == Spec => []TypeOK
  <1>1. Inv => TypeOK
    <2> SUFFICES ASSUME Inv PROVE TypeOK
      OBVIOUS
    <2>1. /\ provider \in ProviderType /\ task \in TaskType /\ channel \in ChannelType /\ payer \in PayerType
          /\ events \in [Fingerprint -> EventType] /\ load \in [Loads -> LoadType]
      BY DEF Inv, RowsKept, RowsTyped, FeedTyped
    <2>2. \A e \in EventType : EventOK(e)
      BY DEF EventType, EventOK, VersionType
    <2>3. \A l \in Loads : load[l].active \subseteq Incident /\ load[l].missing \subseteq Incident
      BY <2>1 DEF LoadType
    <2>4. provider.checked \in 0..provider.updated
      BY <2>1 DEF Inv, RowsKept, ProviderKept, ProviderType
    <2> QED
      BY <2>1, <2>2, <2>3, <2>4 DEF TypeOK, ProviderType, TaskType, FlowType, ChannelType, Stage, PayerType
  <1> QED
    BY <1>1, Invariant, PTL

\* The feed, the dashboard, the channel list and the explorer agree on what may
\* be done about a channel and on the amounts, at every point of a finalization.
THEOREM OneAccount == Spec => []ViewsAgree
  <1>1. Inv => ViewsAgree
    BY RulesAgree, SumsAgree DEF Inv, ViewsAgree
  <1> QED
    BY <1>1, Invariant, PTL

\* A request that nothing overlapped answers with the truth, and no version of an
\* incident that stays on the bell's page is toasted twice as long as no two loads overlap.
THEOREM ToldOnce == Spec => []FeedIsRight
  <1>1. Inv => FeedIsRight
    <2> SUFFICES ASSUME Inv PROVE FeedIsRight
      OBVIOUS
    <2>1. ASSUME NEW l \in Loads, load[l].at = "answer", load[l].undisturbed, NEW fp \in Incident
          PROVE  IF fp \in OnPage(load[l].rows) THEN load[l].rows[fp].state = "open" <=> Told(fp)
                                                ELSE Told(fp) => Crowded(fp, load[l].rows)
      <3>1. PICK q \in LoadType : q = load[l] /\ RequestKept(q)
        BY DEF Inv, FeedTyped
      <3>2. q.undisturbed = TRUE
        BY <2>1, <3>1 DEF LoadType
      <3>3. IF fp \in OnPage(q.rows) THEN q.rows[fp].state = "open" <=> Cause(fp)
                                     ELSE Cause(fp) => Crowded(fp, q.rows)
        BY <2>1, <3>1, <3>2 DEF RequestKept, Exact
      <3> QED
        BY <3>1, <3>3, ToldIsCause DEF Inv
    <2>2. NoToastTwice
      BY DEF Inv, FeedTyped, BellKept, BellType, NoToastTwice
    <2> QED
      BY <2>1, <2>2 DEF FeedIsRight, UndisturbedFeedIsExact, Right
  <1> QED
    BY <1>1, Invariant, PTL
=============================================================================
