------------------------------ MODULE Console ------------------------------
(* What a wallet is shown of its providers, channels and calls.  Four views *)
(* derive it from the same rows, each with rules of its own: the activity   *)
(* feed (packages/persistence/src/activity.ts, over activity_events), which *)
(* every GET /api/activity first synchronizes, statement by statement; the  *)
(* dashboard (operations.ts); the channel list (channels.ts); and the       *)
(* transaction explorer (transactions.ts).  In the browser the notification *)
(* bell polls the feed and toasts what is new, and the activity page loads  *)
(* it, marks it read and offers its actions.                                *)
(*                                                                          *)
(* One configured provider, one live task with one channel.  The rows are   *)
(* written by the other components; here each of their writes is one action *)
(* (LiveChannel and ProviderRegistry model the handlers around them).       *)
EXTENDS Naturals, FiniteSets, SequencesExt

CONSTANTS Loads,    \* requests for /api/activity
          Ceiling,  \* the channel's reserved amount
          PageSize, \* the rows of a page of the feed: 8 in the bell, 25 on the activity page
          Scenes    \* bound: who does what, and how often

Browsing == {"poll", "refresh", "page", "mark", "mark all"}

(* A scene: the requests that may be in flight together; whether the wallet *)
(* configured a provider; its task ("none", "new", or "run" and partly      *)
(* spent); what the browser does; how many writes of rows and failures of   *)
(* loads there are.                                                         *)
SceneType == [loads : SUBSET Loads, provider : BOOLEAN, task : {"none", "new", "run"},
              does : SUBSET Browsing, writes : Nat, faults : Nat]
ASSUME ConsoleAssumption == Ceiling \in Nat \ {0, 1} /\ PageSize \in Nat \ {0} /\ Scenes \subseteq SceneType

VARIABLES
  provider,    \* the providers row, and whether its last check is a day old
  task,        \* the tasks row, its flows and receipt, and its executions
  channel,     \* the channels row
  settlements, \* the settlements rows of the channel
  payer,       \* the handler that finalizes the channel
  events,      \* activity_events, by fingerprint
  load,        \* the requests in flight
  bell,        \* the notification bell
  overlapped,  \* two loads have been in flight together
  scene

rows == <<provider, task, channel, settlements, payer>>
vars == <<rows, events, load, bell, overlapped, scene>>

NoSig == "no signature"
TerminalTask == {"completed", "cancelled"}
TerminalChannel == {"distributed", "recovered"}
BlockedStage == {"finalization-started", "finalization-ambiguous"}

\* Fingerprints: those of managed incidents, and those of history.
Incident == {<<"provider", "unhealthy">>, <<"provider", "stale">>, <<"task", "failure">>,
             <<"channel", "recovery">>, <<"channel", "recoverable">>}
Signed(kind, sig) == <<kind, sig>>
History == {<<"provider", "configured">>, <<"task", "created">>, Signed("channel", "opening"),
            Signed("settlement", "payout"), Signed("recovery", "payout")}
Fingerprint == Incident \cup History

NoEvent == [state |-> "none", version |-> <<"none", 0>>, managed |-> FALSE, count |-> 0, read |-> FALSE]
NoUpsert == [fp |-> <<"none", "none">>, version |-> <<"none", 0>>, state |-> "none", managed |-> FALSE]
NoSeen == [fp \in Incident |-> <<"none", 0>>]
NoRows == [fp \in Incident |-> NoEvent]

\* at: the statement the request is to run next; todo: the upserts before it.
Idle == [at |-> "idle", by |-> "bell", showNew |-> FALSE, todo |-> <<>>, active |-> {},
         missing |-> {}, rows |-> NoRows, undisturbed |-> FALSE]

\* call, owed: the status and amount of the stored flow of an authorized call;
\* rejected: there is a flow of a rejected one (ids are made of the task, the
\* provider and the request, so that there is one of each); last: the newest
\* flow, with how often another one became the newest; paid: the receipt.
NewTask == [status |-> "active", expired |-> FALSE, call |-> "none", owed |-> 0, rejected |-> FALSE,
            last |-> <<"none", 0>>, paid |-> 0, running |-> 0]
NewChannel == [status |-> "reserved", stage |-> "prepared", blocked |-> FALSE, authorized |-> 0,
               spent |-> 0, updated |-> 0, open |-> NoSig, settle |-> NoSig,
               distribution |-> NoSig, refund |-> NoSig]

Init ==
  /\ scene \in Scenes
  /\ \/ provider = [status |-> "active", health |-> "healthy", checked |-> 1, updated |-> 1, aged |-> FALSE]
     \/ /\ scene.provider
        /\ provider = [status |-> "active", health |-> "unknown", checked |-> 0, updated |-> 1, aged |-> FALSE]
  /\ IF scene.task = "run"
     THEN /\ task = [NewTask EXCEPT !.status = "completed", !.call = "fulfilled", !.owed = 1, !.paid = 1,
                                   !.last = <<"call", 1>>]
          /\ channel = [NewChannel EXCEPT !.status = "open", !.stage = "open", !.open = "opening",
                                          !.authorized = 1, !.spent = 1]
     ELSE task = NewTask /\ channel = NewChannel
  /\ settlements = {}
  /\ payer = [at |-> "idle", amount |-> 0]
  /\ events = [fp \in Fingerprint |-> NoEvent]
  /\ load = [l \in Loads |-> Idle]
  /\ bell = [initialized |-> FALSE, seen |-> NoSeen, shown |-> NoRows, toasted |-> {}, again |-> FALSE]
  /\ overlapped = FALSE

-----------------------------------------------------------------------------
\* What the rows say of the channel.

Ending == task.status \in TerminalTask \/ task.expired
Remainder == Ceiling > channel.authorized

\* channelActionFor: the feed's rule, and the one the action route enforces.
ActionFor ==
  CASE channel.status \in TerminalChannel -> "none"
    [] channel.status \notin TerminalChannel
       /\ (channel.status = "failed" \/ channel.blocked \/ channel.stage \in BlockedStage) -> "inspect"
    [] channel.status = "open" /\ ~channel.blocked /\ channel.stage \notin BlockedStage /\ Ending ->
         IF channel.authorized = 0 THEN "recover" ELSE "finalize"
    [] OTHER -> "none"

\* The channel list.
ListedAsFailed == channel.status = "failed" \/ channel.blocked \/ channel.stage \in BlockedStage

ListAction ==
  CASE ListedAsFailed -> "inspect"
    [] ~ListedAsFailed /\ channel.status = "open" /\ Ending ->
         IF channel.authorized = 0 THEN "recover" ELSE "finalize"
    [] OTHER -> "none"

\* The dashboard's SQL.
Stuck == channel.status = "failed" \/ channel.stage \in BlockedStage \/ channel.blocked

Recoverable == channel.status = "open" /\ Remainder /\ Ending

RequiresAction ==
  \/ Stuck
  \/ channel.status \notin TerminalChannel /\ task.expired
  \/ channel.status = "open" /\ Remainder /\ task.status \in TerminalTask

DashboardAction ==
  CASE ~RequiresAction -> "none"
    [] RequiresAction /\ Stuck -> "inspect"
    [] RequiresAction /\ ~Stuck /\ channel.authorized = 0 -> "recover"
    [] OTHER -> "finalize"

Dashboard ==
  LET settled == channel.settle # NoSig \/ channel.distribution # NoSig \/ channel.status \in TerminalChannel
      recovered == channel.refund # NoSig \/ channel.status = "recovered"
  IN [authorized |-> task.paid,
      settled    |-> IF settled THEN channel.spent ELSE 0,
      recovered  |-> IF recovered THEN Ceiling - channel.spent ELSE 0]

\* The transaction explorer: the union of its six queries.
Record(kind, id, amount, sig) == [kind |-> kind, id |-> id, amount |-> amount, signature |-> sig]

\* The receipts, and the flows that failed or were rejected (a receipt may
\* belong to a failed one).
CallRecords ==
  (IF task.paid > 0 THEN {Record("authorization", "receipt", task.paid, NoSig)} ELSE {})
  \cup (IF task.call = "failed" THEN {Record("failure", "call", task.owed, NoSig)} ELSE {})
  \cup (IF task.rejected THEN {Record("rejection", "rejected", 0, NoSig)} ELSE {})

ChannelRecords ==
  {r \in {Record("channel_open", "channel", Ceiling, channel.open),
          Record("settlement", "channel", channel.authorized, channel.settle),
          Record("distribution", "channel", channel.spent, channel.distribution),
          Record("recovery", "channel", Ceiling - channel.spent, channel.refund)} : r.signature # NoSig}

\* Mutant of SettlementRecords: without the NOT EXISTS.
EverySettlement == {Record("settlement", "record", s.amount, s.signature) : s \in settlements}
SettlementRecords ==
  {Record("settlement", "record", s.amount, s.signature) :
     s \in {s \in settlements : s.signature # channel.settle}}

Transactions == CallRecords \cup ChannelRecords \cup SettlementRecords
Total(kind) == MapThenFoldSet(LAMBDA a, b : a + b, 0, LAMBDA r : r.amount, LAMBDA S : CHOOSE r \in S : TRUE,
                              {r \in Transactions : r.kind = kind})

-----------------------------------------------------------------------------
\* The writes of the other components.

\* A request that runs while a row changes may pair old reads with new ones.
Write ==
  /\ scene.writes > 0 /\ scene' = [scene EXCEPT !.writes = @ - 1]
  /\ load' = [l \in Loads |-> [load[l] EXCEPT !.undisturbed = FALSE]]
  /\ UNCHANGED <<events, bell, overlapped>>

WriteProvider(row) ==
  /\ scene.provider /\ Write
  /\ provider' = row
  /\ UNCHANGED <<task, channel, settlements, payer>>

\* recordHealth, by the providers page, the settings page or an incident's
\* "Retest provider".
CheckHealth == \E health \in {"healthy", "unhealthy"} :
  LET now == provider.updated + 1 IN
  WriteProvider([provider EXCEPT !.health = health, !.checked = now, !.updated = now, !.aged = FALSE])

\* An edit leaves the time of the last check.
EditProvider == WriteProvider([provider EXCEPT !.health = "unknown", !.updated = @ + 1])

SetStatus == \E status \in {"active", "disabled"} \ {provider.status} :
  WriteProvider([provider EXCEPT !.status = status, !.updated = @ + 1])

\* A day passes after the last check.
CheckAges == provider.checked # 0 /\ ~provider.aged /\ WriteProvider([provider EXCEPT !.aged = TRUE])

WriteTask(t, c, p) ==
  /\ scene.task # "none" /\ Write
  /\ task' = t /\ channel' = c /\ payer' = p
  /\ UNCHANGED <<provider, settlements>>

Touched(c) == [c EXCEPT !.updated = @ + 1]

\* live/.../deposit.
OpenChannel ==
  /\ channel.status = "reserved"
  /\ WriteTask(task, Touched([channel EXCEPT !.status = "open", !.stage = "open", !.open = "opening"]), payer)

Overlapping == 2 \* bound: executions of the task at a time

\* executeTask: it checks, and later saves whatever has happened meanwhile,
\* another execution included (the lock of the first may expire).
BeginExecution ==
  /\ task.status = "active" /\ task.last[1] = "none" /\ channel.status = "open"
  /\ task.running < Overlapping
  /\ WriteTask([task EXCEPT !.running = @ + 1], channel, payer)

\* The newest flow, by the time it was made, after saveExecution inserted one
\* (ON CONFLICT DO NOTHING: of an id that is stored, nothing changes).
Newest(outcome) ==
  LET flow == IF outcome = "rejected" THEN "rejected" ELSE "call"
      stored == IF outcome = "rejected" THEN task.rejected ELSE task.call # "none"
  IN IF outcome = "none" \/ stored THEN {task.last}
     ELSE {<<flow, task.last[2] + 1>>} \cup (IF task.last[1] = "none" THEN {} ELSE {task.last})

\* The task after an execution that ended so, with that newest flow.
Saved(outcome, amount, newest) ==
  LET first == outcome \in {"fulfilled", "failed"} /\ task.call = "none" IN
  [task EXCEPT !.running = @ - 1, !.last = newest,
               !.status = IF outcome \in {"none", "failed"} THEN "active" ELSE "completed",
               !.call = IF first THEN outcome ELSE @,
               !.owed = IF first THEN amount ELSE @,
               !.rejected = @ \/ outcome = "rejected",
               !.paid = IF outcome = "fulfilled" /\ @ = 0 THEN amount ELSE @]

\* saveExecution.  A call that fails after its authorization leaves the
\* amount authorized and the task active, one that policy rejects neither,
\* and one that throws before its quote ("none") no flow at all.
SaveExecution ==
  \E outcome \in {"none", "fulfilled", "failed", "rejected"}, amount \in 0..Ceiling :
    /\ task.running > 0
    /\ outcome \in {"fulfilled", "failed"} <=> amount > 0
    /\ \E newest \in Newest(outcome) :
         WriteTask(Saved(outcome, amount, newest),
                   Touched([channel EXCEPT !.authorized = amount, !.spent = amount]), payer)

\* Also while the task runs, when the lock of the execution has expired.
Cancel ==
  /\ task.status = "active"
  /\ WriteTask([task EXCEPT !.status = "cancelled"], channel, payer)

Expire ==
  /\ ~task.expired
  /\ WriteTask([task EXCEPT !.expired = TRUE], channel, payer)

\* The lease of the channel action or of live/finalize.
BeginFinalization ==
  /\ payer.at = "idle" /\ channel.status = "open" /\ channel.stage \notin BlockedStage
  /\ Ending \/ task.last[1] # "none"
  /\ WriteTask(task, Touched([channel EXCEPT !.stage = "finalization-started"]),
               [at |-> "claiming", amount |-> channel.authorized])

\* The claim landed: recordChannelState.
RecordPayout ==
  /\ payer.at = "claiming"
  /\ WriteTask(task,
       Touched([channel EXCEPT
         !.status = IF payer.amount = 0 THEN "recovered" ELSE "distributed",
         !.stage = "finalized", !.settle = "payout", !.distribution = "payout",
         !.refund = IF payer.amount < Ceiling THEN "payout" ELSE @]),
       [payer EXCEPT !.at = "recording"])

RecordSettlement ==
  /\ payer.at = "recording" /\ Write
  /\ settlements' = settlements \cup {[signature |-> "payout", amount |-> payer.amount]}
  /\ payer' = [payer EXCEPT !.at = "idle"]
  /\ UNCHANGED <<provider, task, channel>>

\* The claim, or a statement after it, throws.
FinalizationFails ==
  /\ payer.at # "idle"
  /\ WriteTask(task,
       Touched([channel EXCEPT !.status = "failed", !.stage = "finalization-ambiguous", !.blocked = TRUE]),
       [payer EXCEPT !.at = "idle"])

\* The worker dies, and its lease stays.
PayerDies ==
  /\ payer.at # "idle"
  /\ WriteTask(task, channel, [payer EXCEPT !.at = "idle"])

-----------------------------------------------------------------------------
\* synchronizeOperationalActivity.

Goto(l, at) == [load[l] EXCEPT !.at = at]
OnlyLoad == UNCHANGED <<rows, events, bell, overlapped, scene>>

\* load() of the bell (by its timer, on opening, on a refresh event) or of
\* the page (on opening, after a button).
Start(l, does, by, showNew) ==
  LET alone == \A k \in Loads : load[k].at = "idle" IN
  /\ does \in scene.does /\ l \in scene.loads /\ load[l].at = "idle"
  /\ load' = [k \in Loads |->
       IF k = l THEN [Idle EXCEPT !.at = IF scene.provider THEN "providers" ELSE "flows", !.by = by, !.showNew = showNew, !.undisturbed = alone]
       ELSE [load[k] EXCEPT !.undisturbed = FALSE]]
  /\ overlapped' = (overlapped \/ ~alone)
  /\ UNCHANGED <<rows, events, bell, scene>>

Poll == \E l \in Loads : Start(l, "poll", "bell", TRUE)
Refresh == \E l \in Loads : Start(l, "refresh", "bell", FALSE)
OpenPage == \E l \in Loads : Start(l, "page", "page", FALSE)

\* Mutant of Opened: an incident without its managedIncident flag.
OpenedUnmanaged(fp, version) == [fp |-> fp, version |-> version, state |-> "open", managed |-> FALSE]
Opened(fp, version) == [fp |-> fp, version |-> version, state |-> "open", managed |-> TRUE]
Past(fp, version) == [fp |-> fp, version |-> version, state |-> "resolved", managed |-> FALSE]
OnlyIf(condition, upsert) == IF condition THEN <<upsert>> ELSE <<>>

\* A statement's rows have been read: their upserts come next.
Synchronize(l, here, upserts, next) ==
  /\ load[l].at = here /\ load[l].todo = <<>>
  /\ load' = [load EXCEPT
       ![l].todo = upserts, ![l].at = next,
       ![l].active = @ \cup {u.fp : u \in {u \in ToSet(upserts) : u.state = "open"}}]
  /\ OnlyLoad

\* A provider that was never checked has only the time of its last update.
Checked == IF provider.checked = 0 THEN <<"edited", provider.updated>> ELSE <<"checked", provider.checked>>
Unverified == provider.checked = 0 \/ provider.aged

ProviderUpserts ==
  <<Past(<<"provider", "configured">>, <<"created", 0>>)>>
  \o OnlyIf(provider.status = "active" /\ provider.health = "unhealthy",
            Opened(<<"provider", "unhealthy">>, Checked))
  \o OnlyIf(provider.status = "active" /\ Unverified, Opened(<<"provider", "stale">>, Checked))

\* Statements that find no row in this scene are left out.
ReadProviders(l) == Synchronize(l, "providers", ProviderUpserts, IF scene.task = "none" THEN "missing" ELSE "flows")

\* DISTINCT ON (task_id, provider_id), newest first: only the newest flow.
LatestFailed == (task.last[1] = "call" /\ task.call = "failed") \/ task.last[1] = "rejected"

ReadFlows(l) ==
  Synchronize(l, "flows", OnlyIf(LatestFailed, Opened(<<"task", "failure">>, task.last)), "channels")

\* A channel under reconciliation is not also offered as recoverable.
ChannelUpserts ==
  OnlyIf(ActionFor = "inspect", Opened(<<"channel", "recovery">>, <<channel.stage, channel.updated>>))
  \o OnlyIf(ActionFor \in {"recover", "finalize"} /\ Remainder,
            Opened(<<"channel", "recoverable">>, <<"updated", channel.updated>>))
  \o OnlyIf(channel.open # NoSig, Past(Signed("channel", channel.open), <<channel.open, 0>>))
  \o OnlyIf(channel.settle # NoSig, Past(Signed("settlement", channel.settle), <<channel.settle, 0>>))
  \o OnlyIf(channel.distribution # NoSig,
            Past(Signed("settlement", channel.distribution), <<channel.distribution, 0>>))
  \o OnlyIf(channel.refund # NoSig, Past(Signed("recovery", channel.refund), <<channel.refund, 0>>))

ReadChannels(l) == Synchronize(l, "channels", ChannelUpserts, "tasks")

ReadTasks(l) == Synchronize(l, "tasks", <<Past(<<"task", "created">>, <<"created", 0>>)>>, "missing")

\* INSERT ... ON CONFLICT (owner_wallet, fingerprint) DO UPDATE.
\* Mutant of Upserted: the stored state wins.
UpsertedOnce(e, u) ==
  IF e.state = "none"
  THEN [state |-> u.state, version |-> u.version, managed |-> u.managed, count |-> 1, read |-> FALSE]
  ELSE [e EXCEPT !.version = u.version, !.count = IF e.version # u.version THEN @ + 1 ELSE @]

Upserted(e, u) ==
  LET new == e.version # u.version IN
  [state   |-> u.state,
   version |-> u.version,
   managed |-> u.managed,
   count   |-> IF new THEN e.count + 1 ELSE e.count,
   read    |-> e.read /\ ~(new /\ u.state = "open")]

Upsert(l) ==
  /\ load[l].todo # <<>>
  /\ LET u == Head(load[l].todo) IN events' = [events EXCEPT ![u.fp] = Upserted(@, u)]
  /\ load' = [load EXCEPT ![l].todo = Tail(@)]
  /\ UNCHANGED <<rows, bell, overlapped, scene>>

\* resolveMissingManagedIncidents: a SELECT, then an UPDATE for each row that
\* this request did not find active.
FindMissing(l) ==
  /\ load[l].at = "missing" /\ load[l].todo = <<>>
  /\ load' = [load EXCEPT ![l] = [Goto(l, "resolving") EXCEPT
       !.missing = {fp \in Fingerprint : events[fp].state = "open" /\ events[fp].managed} \ load[l].active]]
  /\ OnlyLoad

Resolve(l, fp) ==
  /\ load[l].at = "resolving" /\ fp \in load[l].missing
  /\ events' = [events EXCEPT ![fp].state = "resolved"]
  /\ load' = [load EXCEPT ![l].missing = @ \ {fp}]
  /\ UNCHANGED <<rows, bell, overlapped, scene>>

\* list: the critical rows, then the warnings (whatever is history comes after
\* them), of each the open ones first; the rest of the order (last_seen_at) is
\* left open.  The first page holds the first PageSize of them.
Severity(fp) == IF fp = <<"channel", "recovery">> THEN 0 ELSE 1
Rank(fp, row) == 2 * Severity(fp) + (IF row.state = "open" THEN 0 ELSE 1)

OnPage(shown) == {fp \in Incident : shown[fp].state # "none"}

Pages ==
  {page \in SUBSET OnPage(events) :
     /\ Cardinality(page) = PageSize \/ (page = OnPage(events) /\ Cardinality(page) < PageSize)
     /\ \A fp \in page, other \in OnPage(events) \ page : Rank(fp, events[fp]) <= Rank(other, events[other])}

List(l) ==
  /\ load[l].at = "resolving" /\ load[l].missing = {}
  /\ \E page \in Pages :
       load' = [load EXCEPT ![l] = [Goto(l, "answer") EXCEPT
                  !.rows = [fp \in Incident |-> IF fp \in page THEN events[fp] ELSE NoEvent]]]
  /\ OnlyLoad

LoadFails(l) ==
  /\ load[l].at # "idle" /\ scene.faults > 0
  /\ scene' = [scene EXCEPT !.faults = @ - 1]
  /\ load' = [load EXCEPT ![l] = Idle]
  /\ UNCHANGED <<rows, events, bell, overlapped>>

-----------------------------------------------------------------------------
\* The browser.

\* What the bell keeps of an answer: of what is not on the page, nothing.
\* Mutant of Seen: only what is open is kept.
SeenOpen(shown) == [fp \in Incident |-> IF shown[fp].state = "open" THEN shown[fp].version ELSE <<"none", 0>>]
Seen(shown) == [fp \in Incident |-> shown[fp].version]

News(shown) == {fp \in Incident : /\ bell.seen[fp] # shown[fp].version
                                  /\ ~shown[fp].read /\ shown[fp].state = "open"}

\* The answer of a load, with its toasts (every incident is "warning" or
\* "critical", and no notification is switched off).  toasted, which the code
\* does not have, is what was announced of the incidents still on the page.
Answer(l) ==
  LET shown == load[l].rows
      toasts == IF bell.initialized /\ load[l].showNew
                THEN {<<fp, shown[fp].version>> : fp \in News(shown)} ELSE {}
  IN
  /\ load[l].at = "answer"
  /\ bell' = IF load[l].by = "page" THEN bell
             ELSE [initialized |-> TRUE, seen |-> Seen(shown), shown |-> shown,
                   toasted |-> {t \in bell.toasted : t[1] \in OnPage(shown)} \cup toasts,
                   again |-> bell.again \/ toasts \cap bell.toasted # {}]
  /\ load' = [load EXCEPT ![l] = Idle]
  /\ UNCHANGED <<rows, events, overlapped, scene>>

\* PATCH /api/activity/[eventId], and POST /api/activity/read-all.
Mark(fps, read) ==
  /\ \E fp \in fps : events[fp].state # "none" /\ events[fp].read # read
  /\ events' = [fp \in Fingerprint |->
       IF fp \in fps /\ events[fp].state # "none" THEN [events[fp] EXCEPT !.read = read] ELSE events[fp]]
  /\ UNCHANGED <<rows, load, bell, overlapped, scene>>

MarkRead == "mark" \in scene.does /\ \E fp \in Incident, read \in BOOLEAN : Mark({fp}, read)
MarkAllRead == "mark all" \in scene.does /\ Mark(Fingerprint, TRUE)

-----------------------------------------------------------------------------
WriteRows ==
  \/ CheckHealth \/ EditProvider \/ SetStatus \/ CheckAges
  \/ OpenChannel \/ BeginExecution \/ SaveExecution \/ Cancel \/ Expire
  \/ BeginFinalization \/ RecordPayout \/ RecordSettlement \/ FinalizationFails \/ PayerDies

Serve(l) ==
  \/ ReadProviders(l) \/ ReadFlows(l) \/ ReadChannels(l) \/ ReadTasks(l)
  \/ Upsert(l) \/ FindMissing(l) \/ (\E fp \in Fingerprint : Resolve(l, fp)) \/ List(l) \/ Answer(l)

Browse == Poll \/ Refresh \/ OpenPage \/ MarkRead \/ MarkAllRead

Next == WriteRows \/ Browse \/ \E l \in Loads : Serve(l) \/ LoadFails(l)

(* The bell's timer fires every autoRefreshSeconds for as long as the page  *)
(* is open, whatever other requests are in flight (strongly fair: the bound *)
(* Loads must not let another load keep it out), and every statement of a   *)
(* request ends.                                                            *)
Spec == Init /\ [][Next]_vars /\ SF_vars(Poll)
        /\ \A l \in Loads : WF_vars(Serve(l))

-----------------------------------------------------------------------------
Version == {"none", "created", "checked", "edited", "call", "rejected", "updated", "prepared", "open", "opening", "payout",
            "finalized"} \cup BlockedStage
EventOK(e) ==
  /\ e.state \in {"none", "open", "resolved"} /\ e.version[1] \in Version /\ e.version[2] \in Nat
  /\ e.managed \in BOOLEAN /\ e.count \in Nat /\ e.read \in BOOLEAN

(* Types: of the rows, of the stored events and of the requests in flight.  *)
TypeOK ==
  /\ provider.status \in {"active", "disabled"} /\ provider.health \in {"healthy", "unhealthy", "unknown"}
  /\ provider.checked \in 0..provider.updated
  /\ task.status \in TerminalTask \cup {"active"} /\ task.paid \in 0..Ceiling
  /\ task.call \in {"none", "fulfilled", "failed"} /\ task.last[1] \in {"none", "call", "rejected"}
  /\ channel.status \in TerminalChannel \cup {"reserved", "open", "failed"}
  /\ channel.stage \in BlockedStage \cup {"prepared", "open", "finalized"}
  /\ channel.authorized \in 0..Ceiling /\ channel.spent \in 0..Ceiling
  /\ payer.at \in {"idle", "claiming", "recording"} /\ payer.amount \in 0..Ceiling
  /\ \A fp \in Fingerprint : EventOK(events[fp])
  /\ \A l \in Loads : load[l].active \subseteq Incident /\ load[l].missing \subseteq Incident

(* The three rules agree on what may be done about a channel.  The channel  *)
(* list offers exactly the action that channelActionFor allows (and the     *)
(* action route accepts); whatever the feed raises as an incident is on the *)
(* dashboard with the same action; and of an open or failed channel the     *)
(* dashboard offers nothing that the route would refuse.                    *)
ActionsAgree ==
  /\ ListAction = ActionFor
  /\ (ActionFor = "inspect" \/ (ActionFor # "none" /\ Remainder)) => DashboardAction = ActionFor
  /\ channel.status \in {"open", "failed"} /\ RequiresAction => DashboardAction = ActionFor

(* The dashboard's totals are the transaction explorer's, at every point of *)
(* a finalization: before and after the settlement row, and when the        *)
(* handler failed in between; each payout is listed once.                   *)
TotalsAgree ==
  /\ Dashboard.authorized = Total("authorization")
  /\ Dashboard.settled = Total("settlement")
  /\ Dashboard.recovered = Total("recovery")

(* The views of one wallet agree, on what may be done and on the amounts.   *)
ViewsAgree == ActionsAgree /\ TotalsAgree

(* What the dashboard says of an incident's cause.                          *)
Told(fp) ==
  CASE fp = <<"provider", "unhealthy">>   -> provider.status = "active" /\ provider.health = "unhealthy"
    [] fp = <<"provider", "stale">>       -> provider.status = "active" /\ Unverified
    [] fp = <<"task", "failure">>         -> \E r \in Transactions : r.kind \in {"failure", "rejection"}
                                                                   /\ r.id = task.last[1]
    [] fp = <<"channel", "recovery">>     -> DashboardAction = "inspect"
    [] fp = <<"channel", "recoverable">>  -> Recoverable /\ ~Stuck

\* A page full of incidents that come before an open one of this severity.
Crowded(fp, shown) ==
  /\ Cardinality(OnPage(shown)) = PageSize
  /\ \A other \in OnPage(shown) : Rank(other, shown[other]) <= 2 * Severity(fp)

\* What is on the page is open exactly when its cause is there; a cause that
\* is not told of had to give way to a full page of more urgent rows.
Right(shown) ==
  \A fp \in Incident :
    IF fp \in OnPage(shown) THEN shown[fp].state = "open" <=> Told(fp)
                            ELSE Told(fp) => Crowded(fp, shown)

(* A request that nothing overlapped (no write of a row, no other request)  *)
(* answers with the truth: an incident is open exactly when the dashboard   *)
(* and the explorer show its cause, or it has no place on the page,         *)
(* whatever earlier requests that failed halfway, or read old rows, left in *)
(* the table.                                                               *)
UndisturbedFeedIsExact ==
  \A l \in Loads : load[l].at = "answer" /\ load[l].undisturbed => Right(load[l].rows)

(* As long as no two loads overlap, the bell toasts no version of an        *)
(* incident twice while the incident stays on its page: not after it is     *)
(* resolved and opened again, nor after a load failed.  (One that a full    *)
(* page pushes out is forgotten, and announced again when it returns.)      *)
NoToastTwice == ~overlapped => ~bell.again

(* The wallet is told what is so, and told it once. *)
FeedIsRight == UndisturbedFeedIsExact /\ NoToastTwice

(* Again and again the bell shows as open what the dashboard shows the      *)
(* cause of, as far as its page goes: requests that overlap may resolve an  *)
(* incident whose cause is still there or open one whose cause is gone, and *)
(* a later poll repairs it.                                                 *)
BellCatchesUp == []<>Right(bell.shown)
=============================================================================
