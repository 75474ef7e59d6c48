--------------------------- MODULE DeveloperPlatform ---------------------------
(***************************************************************************)
(* API keys and webhooks: apps/web/src/server/developer.ts over the tables *)
(* developer_api_keys, webhook_subscriptions, webhook_events and           *)
(* webhook_deliveries (packages/persistence/src/developer.ts).  Clients    *)
(* call the API with a token (packages/sdk), tabs of the Developers page   *)
(* with the session of their wallet.  A statement is one step; between two *)
(* of them other requests run, deliveries fail and processes die.  What a  *)
(* task or channel handler does before it publishes is in TaskCreation and *)
(* LiveChannel: here it may refuse, or publish.                            *)
(***************************************************************************)
EXTENDS Integers, Sequences, FiniteSets

CONSTANTS
  Owner,      \* wallets
  Key,        \* rows of developer_api_keys
  Sub,        \* rows of webhook_subscriptions
  Client,     \* programs that hold tokens
  Tab,        \* open Developers pages
  TabOwner,   \* the wallet each of them is signed in with
  Scenes,     \* the rows there are at first, and the requests each client and tab makes
  MaxToken, MaxSecret, MaxEvent, MaxTries   \* bounds: tokens, secrets, events, deliveries of one event to one endpoint

TaskOps == {"read", "create", "execute", "action"}
HookOps == {"createHook", "updateHook", "rotateHook", "retry"}
KeyOps == {"createKey", "revoke", "rotate"}
Scope == {"tasks", "webhooks"}

Type == {"task.created", "task.executed", "task.completed", "payment.authorized",
         "payment.rejected", "channel.finalized", "settlement.completed", "settlement.failed"}

(* A delivery id: the event, the endpoint, and which call of deliver() for them. *)
Delivery == (1..MaxEvent) \X Sub \X (1..MaxTries)

NoKey == [status |-> "none", owner |-> "none", token |-> 0, scopes |-> {}, expiry |-> "never"]

\* A scene is a state the handlers may have left before: keys of their owners,
\* finitely many of them, and deliveries that failed, to endpoints of the
\* wallet whose event they carry.
SceneOK(scene) ==
  /\ \A c \in Client : scene.ops[c] \subseteq TaskOps \cup HookOps
  /\ \A t \in Tab : scene.ops[t] \subseteq HookOps \cup KeyOps
  /\ scene.keys \in [Key -> [status : {"none", "active", "revoked"}, owner : Owner \cup {"none"},
                             token : Nat, scopes : SUBSET Scope,
                             expiry : {"never", "ahead", "past"}]]
  /\ IsFiniteSet({k \in Key : scene.keys[k] # NoKey})
  /\ \A k \in Key : scene.keys[k] # NoKey => scene.keys[k].owner # "none"
  /\ scene.subs \in [Sub -> [owner : Owner \cup {"none"}, enabled : BOOLEAN,
                             types : SUBSET Type, secret : Nat]]
  /\ scene.events \in Seq([owner : Owner, type : Type])
  /\ scene.failed \subseteq Delivery
  /\ \A d \in scene.failed : /\ d[1] \in 1..Len(scene.events)
                             /\ scene.subs[d[2]].owner = scene.events[d[1]].owner

ASSUME DeveloperAssumption ==
  /\ TabOwner \in [Tab -> Owner] /\ "none" \notin Owner
  /\ {MaxToken, MaxSecret, MaxEvent, MaxTries} \subseteq Nat \ {0}
  /\ \A scene \in Scenes : SceneOK(scene)

VARIABLES
  keys,       \* developer_api_keys
  issued,     \* tokens issued so far; a token is known by its number
  subs,       \* webhook_subscriptions
  installed,  \* the secret each endpoint verifies with
  events,     \* webhook_events
  rows,       \* webhook_deliveries
  jobs,       \* running calls of deliver()
  posted,     \* deliveries that were sent to their endpoint
  accepted,   \* deliveries an endpoint took as genuine
  worker,     \* the request each client or tab waits for
  view,       \* what each tab last loaded
  ops         \* the requests of this behaviour

vars == <<keys, issued, subs, installed, events, rows, jobs, posted, accepted,
          worker, view, ops>>
hookVars == <<subs, installed, events, rows, jobs, posted, accepted>>
keyVars == <<keys, issued>>

Worker == Client \cup Tab

(* The events each handler publishes, in order. *)
CreateEvents == {<<"task.created">>}
ExecuteEvents ==
  LET some(type) == {<<>>, <<type>>} IN
  {<<"task.executed">> \o a \o r \o c :
     a \in some("payment.authorized"), r \in some("payment.rejected"), c \in some("task.completed")}
ActionEvents == {<<"channel.finalized", "settlement.completed">>, <<"settlement.failed">>}
Published(op) ==
  CASE op = "create" -> CreateEvents [] op = "execute" -> ExecuteEvents [] op = "action" -> ActionEvents

NewKey(o, token) ==
  {[status |-> "active", owner |-> o, token |-> token, scopes |-> scopes, expiry |-> e] :
     scopes \in SUBSET Scope \ {{}}, e \in {"never", "ahead"}}
NoSub == [owner |-> "none", enabled |-> FALSE, types |-> {}, secret |-> 0]
NewSub(o) == [owner |-> o, enabled |-> TRUE, types |-> Type, secret |-> 1]
NoRow == [status |-> "none", attempt |-> 0]
NoJob == [at |-> "none", attempt |-> 0, secret |-> 0, by |-> "none"]
Idle == [op |-> "none", at |-> "idle", token |-> 0, late |-> FALSE, owner |-> "none",
         target |-> "none", read |-> NoSub, event |-> 0, queue |-> <<>>]

Goto(w, at) == worker' = [worker EXCEPT ![w].at = at]
Finish(w) == worker' = [worker EXCEPT ![w] = Idle]
\* The Developers page reloads after a request that succeeded.
Succeed(w) == IF w \in Tab THEN Goto(w, "load") ELSE Finish(w)

\* What the Developers page shows: the keys and the deliveries it has buttons for.
Loaded(t) ==
  [keys |-> {k \in Key : keys[k].owner = TabOwner[t] /\ keys[k].status = "active"},
   failed |-> {d \in Delivery : rows[d].status = "failed" /\ subs[d[2]].owner = TabOwner[t]}]

Init ==
  /\ \E scene \in Scenes :
       /\ keys = scene.keys /\ subs = scene.subs /\ ops = scene.ops
       /\ events = scene.events
       /\ posted = scene.failed
       /\ rows = [d \in Delivery |->
            IF d \in scene.failed THEN [status |-> "failed", attempt |-> d[3]] ELSE NoRow]
  /\ issued = Cardinality({k \in Key : keys[k] # NoKey})
  /\ installed = [s \in Sub |-> subs[s].secret]
  /\ jobs = [d \in Delivery |-> NoJob]
  /\ accepted = {}
  /\ worker = [w \in Worker |-> Idle]
  /\ view = [t \in Tab |-> Loaded(t)]

-----------------------------------------------------------------------------
(* Tokens *)

\* authenticateApiKey: the row with the hash of this token, active, not expired.
Holds(k, token) == keys[k].token = token /\ keys[k].status = "active" /\ keys[k].expiry # "past"
Live(token) == \E k \in Key : Holds(k, token)

RequiredScope(op) == IF op \in TaskOps THEN "tasks" ELSE "webhooks"

\* A client calls a v1 route with one of the tokens it was ever given.
CallApi(c, op, token) ==
  /\ worker[c].at = "idle" /\ op \in ops[c]
  /\ \E target \in IF op \in {"updateHook", "rotateHook"} THEN Sub
                   ELSE IF op = "retry" THEN Delivery ELSE {"none"} :
       worker' = [worker EXCEPT ![c] =
         [Idle EXCEPT !.op = op, !.at = "auth", !.token = token,
                      !.late = ~Live(token), !.target = target]]
  /\ UNCHANGED <<keyVars, hookVars, view, ops>>

Authenticate(c) ==
  /\ worker[c].at = "auth"
  /\ \/ \E k \in Key :
          /\ Holds(k, worker[c].token)
          /\ RequiredScope(worker[c].op) \in keys[k].scopes
          /\ worker' = [worker EXCEPT ![c].at = "limit", ![c].owner = keys[k].owner]
     \/ /\ \A k \in Key : Holds(k, worker[c].token)
                            => RequiredScope(worker[c].op) \notin keys[k].scopes
        /\ Finish(c)
  /\ UNCHANGED <<keyVars, hookVars, view, ops>>

\* consumeRateLimit counts the call; over the limit it is refused.
RateLimit(c) ==
  /\ worker[c].at = "limit"
  /\ Goto(c, "handler") \/ Finish(c)
  /\ UNCHANGED <<keyVars, hookVars, view, ops>>

Expire(k) ==
  /\ keys[k].status = "active" /\ keys[k].expiry = "ahead"
  /\ keys' = [keys EXCEPT ![k].expiry = "past"]
  /\ UNCHANGED <<issued, hookVars, worker, view, ops>>

-----------------------------------------------------------------------------
(* The Developers page *)

Click(t, op, target) ==
  /\ worker[t].at = "idle" /\ op \in ops[t]
  /\ worker' = [worker EXCEPT ![t] =
       [Idle EXCEPT !.op = op, !.at = "handler", !.owner = TabOwner[t], !.target = target]]
  /\ UNCHANGED <<keyVars, hookVars, view, ops>>

\* The buttons the loaded lists offer.
ClickKey(t) == \E op \in {"revoke", "rotate"}, k \in view[t].keys : Click(t, op, k)
ClickRetry(t) == \E d \in view[t].failed : Click(t, "retry", d)
ClickHook(t) == \E op \in {"updateHook", "rotateHook"}, s \in Sub :
                  subs[s].owner = TabOwner[t] /\ Click(t, op, s)
ClickCreateKey(t) == Click(t, "createKey", "none")
ClickCreateHook(t) == Click(t, "createHook", "none")

\* The page is opened, or opened again.
Visit(t) ==
  /\ worker[t].at = "idle" /\ view[t] # Loaded(t) /\ ops[t] # {}
  /\ Goto(t, "load")
  /\ UNCHANGED <<keyVars, hookVars, view, ops>>

Load(t) ==
  /\ worker[t].at = "load"
  /\ view' = [view EXCEPT ![t] = Loaded(t)]
  /\ Finish(t)
  /\ UNCHANGED <<keyVars, hookVars, ops>>

-----------------------------------------------------------------------------
(* PATCH /api/developer/keys/[id] and POST /api/developer/keys *)

Handles(w, op) == worker[w].at = "handler" /\ worker[w].op = op

CreateKey(t) ==
  /\ Handles(t, "createKey") /\ issued < MaxToken
  /\ \E k \in Key, new \in NewKey(worker[t].owner, issued + 1) :
       /\ keys[k] = NoKey
       /\ keys' = [keys EXCEPT ![k] = new]
  /\ issued' = issued + 1
  /\ Goto(t, "load")
  /\ UNCHANGED <<hookVars, view, ops>>

FindKey(t) ==
  /\ Handles(t, "revoke") \/ Handles(t, "rotate")
  /\ IF keys[worker[t].target].owner = worker[t].owner
     THEN Goto(t, worker[t].op) ELSE Finish(t)
  /\ UNCHANGED <<keyVars, hookVars, view, ops>>

RevokeKey(t) ==
  /\ worker[t].at = "revoke"
  /\ keys' = [keys EXCEPT ![worker[t].target].status = "revoked"]
  /\ Goto(t, "load")
  /\ UNCHANGED <<issued, hookVars, view, ops>>

\* The row as rotateApiKey leaves it, whatever its status was.
\* Mutant of Rotated: the UPDATE forgets token_hash.
RotatedKeepsToken(k) == [keys[k] EXCEPT !.status = "active"]
Rotated(k) == [keys[k] EXCEPT !.status = "active", !.token = issued + 1]

RotateKey(t) ==
  /\ worker[t].at = "rotate" /\ issued < MaxToken
  /\ keys' = [keys EXCEPT ![worker[t].target] = Rotated(worker[t].target)]
  /\ issued' = issued + 1
  /\ Goto(t, "load")
  /\ UNCHANGED <<hookVars, view, ops>>

-----------------------------------------------------------------------------
(* Subscriptions *)

\* A URL that fails assertSafeWebhookUrl is refused and stores nothing.
CreateHook(w) ==
  /\ Handles(w, "createHook")
  /\ \/ \E s \in Sub :
          /\ subs[s] = NoSub
          /\ subs' = [subs EXCEPT ![s] = NewSub(worker[w].owner)]
          /\ installed' = [installed EXCEPT ![s] = 1]
          /\ Succeed(w)
     \/ /\ Finish(w)
        /\ UNCHANGED <<subs, installed>>
  /\ UNCHANGED <<keyVars, events, rows, jobs, posted, accepted, view, ops>>

Owned(w, s) == subs[s].owner = worker[w].owner

\* updateWebhook reads the row and writes it back with the patch.
ReadHook(w) ==
  /\ Handles(w, "updateHook")
  /\ IF Owned(w, worker[w].target)
     THEN worker' = [worker EXCEPT ![w].at = "update", ![w].read = subs[worker[w].target]]
     ELSE Finish(w)
  /\ UNCHANGED <<keyVars, hookVars, view, ops>>

Patches(read) ==
  {[read EXCEPT !.enabled = b] : b \in BOOLEAN} \cup {[read EXCEPT !.types = {"task.created"}]}

\* Mutant of Written: the whole row that was read is written back.
WritesSecretBack(s, row) == row
Written(s, row) == [row EXCEPT !.secret = subs[s].secret]

UpdateHook(w) ==
  /\ worker[w].at = "update"
  /\ \E row \in Patches(worker[w].read) :
       subs' = [subs EXCEPT ![worker[w].target] = Written(worker[w].target, row)]
  /\ Succeed(w)
  /\ UNCHANGED <<keyVars, installed, events, rows, jobs, posted, accepted, view, ops>>

RotateHook(w) ==
  /\ Handles(w, "rotateHook")
  /\ IF Owned(w, worker[w].target)
     THEN /\ subs[worker[w].target].secret < MaxSecret
          /\ subs' = [subs EXCEPT ![worker[w].target].secret = @ + 1]
          /\ Succeed(w)
     ELSE Finish(w) /\ UNCHANGED subs
  /\ UNCHANGED <<keyVars, installed, events, rows, jobs, posted, accepted, view, ops>>

\* The customer puts the secret it was shown into its endpoint.
Install(s) ==
  /\ installed[s] # subs[s].secret
  /\ installed' = [installed EXCEPT ![s] = subs[s].secret]
  /\ UNCHANGED <<keyVars, subs, events, rows, jobs, posted, accepted, worker, view, ops>>

-----------------------------------------------------------------------------
(* Publishing *)

\* GETs of tasks, channels, receipts and webhooks answer and change nothing.
Read(w) ==
  /\ Handles(w, "read")
  /\ Finish(w)
  /\ UNCHANGED <<keyVars, hookVars, view, ops>>

\* createDeveloperTask, executeDeveloperTask and the v1 channel action.
RunHandler(w) ==
  /\ \E op \in {"create", "execute", "action"} : Handles(w, op)
  /\ \/ Finish(w)
     \/ \E q \in Published(worker[w].op) :
          /\ Len(events) + Len(q) <= MaxEvent
          /\ worker' = [worker EXCEPT ![w].at = "publish", ![w].queue = q]
  /\ UNCHANGED <<keyVars, hookVars, view, ops>>

CreateEvent(w) ==
  /\ worker[w].at = "publish" /\ Len(events) < MaxEvent
  /\ events' = Append(events, [owner |-> worker[w].owner, type |-> Head(worker[w].queue)])
  /\ worker' = [worker EXCEPT ![w].at = "match", ![w].event = Len(events) + 1,
                              ![w].queue = Tail(@)]
  /\ UNCHANGED <<keyVars, subs, installed, rows, jobs, posted, accepted, view, ops>>

\* Mutant of Matching: the query forgets owner_wallet.
MatchesAnyOwner(e) == {s \in Sub : subs[s].enabled /\ events[e].type \in subs[s].types}
Matching(e) == {s \in Sub : /\ subs[s].owner = events[e].owner
                            /\ subs[s].enabled /\ events[e].type \in subs[s].types}

\* The ids a new call of deliver() may get.
Fresh(e, s) ==
  {<<e, s, n>> : n \in {n \in 1..MaxTries : /\ rows[<<e, s, n>>] = NoRow
                                            /\ jobs[<<e, s, n>>] = NoJob
                                            /\ <<e, s, n>> \notin posted
                                            /\ \A m \in 1..(n - 1) : \/ rows[<<e, s, m>>] # NoRow
                                                                     \/ jobs[<<e, s, m>>] # NoJob
                                                                     \/ <<e, s, m>> \in posted}}

NewJob(w, s, attempt) ==
  [at |-> "insert", attempt |-> attempt, secret |-> subs[s].secret, by |-> w]

\* matchingWebhooks, and deliver() started for each endpoint.
StartDeliveries(w) ==
  /\ worker[w].at = "match"
  /\ jobs' = [d \in Delivery |->
       IF /\ d[2] \in Matching(worker[w].event) /\ d \in Fresh(worker[w].event, d[2])
       THEN NewJob(w, d[2], 1) ELSE jobs[d]]
  /\ Goto(w, "await")
  /\ UNCHANGED <<keyVars, subs, installed, events, rows, posted, accepted, view, ops>>

\* Promise.all is through: the next event, or the answer.
Awaited(w) ==
  /\ worker[w].at = "await"
  /\ \A d \in Delivery : jobs[d].by # w
  /\ IF worker[w].queue # <<>> THEN Goto(w, "publish") ELSE Succeed(w)
  /\ UNCHANGED <<keyVars, hookVars, view, ops>>

\* getDelivery joins the row with its event and its wallet's endpoint.
Found(w, d) == rows[d] # NoRow /\ Owned(w, d[2])

\* retryWebhookDelivery
Retry(w) ==
  /\ Handles(w, "retry")
  /\ LET d == worker[w].target IN
     IF ~Found(w, d)
     THEN Finish(w) /\ UNCHANGED jobs
     ELSE IF rows[d].status = "succeeded"
     THEN Succeed(w) /\ UNCHANGED jobs
     ELSE \E f \in Fresh(d[1], d[2]) :
            /\ jobs' = [jobs EXCEPT ![f] = NewJob(w, d[2], rows[d].attempt + 1)]
            /\ Goto(w, "await")
  /\ UNCHANGED <<keyVars, subs, installed, events, rows, posted, accepted, view, ops>>

-----------------------------------------------------------------------------
(* deliver() *)

\* The row of this event, endpoint and attempt, if there is one.
Existing(d) == {r \in Delivery : /\ r[1] = d[1] /\ r[2] = d[2]
                                 /\ rows[r].attempt = jobs[d].attempt}

Inserted(d) ==
  IF Existing(d) = {} THEN [rows EXCEPT ![d] = [status |-> "pending", attempt |-> jobs[d].attempt]]
  ELSE rows

CreateDelivery(d) ==
  /\ jobs[d].at = "insert"
  /\ rows' = Inserted(d)
  /\ jobs' = [jobs EXCEPT ![d].at = "post"]
  /\ UNCHANGED <<keyVars, subs, installed, events, posted, accepted, worker, view, ops>>

\* verifyCanalisWebhook at the endpoint: signed with the secret it holds.
Verifies(d) == installed[d[2]] = jobs[d].secret

Sending(d) ==
  /\ jobs[d].at = "post"
  /\ UNCHANGED <<keyVars, subs, installed, events, rows, worker, view, ops>>

\* The endpoint takes the request; its answer comes back, or does not.
Accept(d) ==
  /\ Sending(d) /\ Verifies(d)
  /\ posted' = posted \cup {d} /\ accepted' = accepted \cup {d}
  /\ \E at \in {"won", "lost"} : jobs' = [jobs EXCEPT ![d].at = at]

\* It answers an error, redirects, is too slow, or cannot be reached.
Reject(d) ==
  /\ Sending(d)
  /\ posted' = posted \cup {d}
  /\ jobs' = [jobs EXCEPT ![d].at = "lost"]
  /\ UNCHANGED accepted

\* Its name has come to resolve to a private address: nothing is sent.
UrlBlocked(d) ==
  /\ Sending(d)
  /\ jobs' = [jobs EXCEPT ![d].at = "lost"]
  /\ UNCHANGED <<posted, accepted>>

\* Mutant of Finished: the UPDATE names the event and endpoint, not the id.
FinishesEvery(d, status) ==
  [r \in Delivery |-> IF r[1] = d[1] /\ r[2] = d[2] /\ rows[r] # NoRow
                      THEN [rows[r] EXCEPT !.status = status] ELSE rows[r]]
Finished(d, status) ==
  IF rows[d] = NoRow THEN rows ELSE [rows EXCEPT ![d].status = status]

\* finishDelivery is two statements.  The first writes the row.
FinishDelivery(d) ==
  /\ LET won == jobs[d].at = "won" IN
     /\ won \/ jobs[d].at = "lost"
     /\ rows' = Finished(d, IF won THEN "succeeded" ELSE "failed")
     /\ jobs' = [jobs EXCEPT ![d].at = IF won THEN "recorded" ELSE "closed"]
  /\ UNCHANGED <<keyVars, subs, installed, events, posted, accepted, worker, view, ops>>

\* The second stamps the subscription, which nothing here reads.
StampSubscription(d) ==
  /\ jobs[d].at \in {"recorded", "closed"}
  /\ jobs' = [jobs EXCEPT ![d] = NoJob]
  /\ UNCHANGED <<keyVars, subs, installed, events, rows, posted, accepted, worker, view, ops>>

\* Either throws while a success is recorded: deliver catches its own statement
\* as it catches a failed POST, and goes on to record a failure.
RecordThrows(d) ==
  /\ jobs[d].at \in {"won", "recorded"}
  /\ jobs' = [jobs EXCEPT ![d].at = "lost"]
  /\ UNCHANGED <<keyVars, subs, installed, events, rows, posted, accepted, worker, view, ops>>

\* A statement or openSecret throws elsewhere: the request fails, its other
\* deliveries run on without anyone waiting for them.
DeliveryThrows(d) ==
  /\ jobs[d].at \in {"insert", "post", "lost", "closed"}
  /\ jobs' = [r \in Delivery |->
       IF r = d THEN NoJob
       ELSE IF jobs[r].by = jobs[d].by THEN [jobs[r] EXCEPT !.by = "none"] ELSE jobs[r]]
  /\ IF jobs[d].by = "none" THEN UNCHANGED worker ELSE Finish(jobs[d].by)
  /\ UNCHANGED <<keyVars, subs, installed, events, rows, posted, accepted, view, ops>>

\* The process dies with its request and its deliveries.
Dies(w) ==
  /\ worker[w].at \notin {"idle", "load"}
  /\ Finish(w)
  /\ jobs' = [d \in Delivery |-> IF jobs[d].by = w THEN NoJob ELSE jobs[d]]
  /\ UNCHANGED <<keyVars, subs, installed, events, rows, posted, accepted, view, ops>>

-----------------------------------------------------------------------------
Serve(w) ==
  \/ CreateHook(w) \/ ReadHook(w) \/ UpdateHook(w) \/ RotateHook(w) \/ Retry(w)
  \/ Read(w) \/ RunHandler(w) \/ CreateEvent(w) \/ StartDeliveries(w) \/ Awaited(w)
  \/ Dies(w)

Deliver(d) ==
  \/ CreateDelivery(d) \/ Accept(d) \/ Reject(d) \/ UrlBlocked(d)
  \/ FinishDelivery(d) \/ StampSubscription(d) \/ RecordThrows(d) \/ DeliveryThrows(d)

UseApi(c) ==
  \/ \E op \in TaskOps \cup HookOps, token \in 1..issued : CallApi(c, op, token)
  \/ Authenticate(c) \/ RateLimit(c)

UsePage(t) ==
  \/ ClickKey(t) \/ ClickRetry(t) \/ ClickHook(t) \/ ClickCreateKey(t) \/ ClickCreateHook(t)
  \/ Visit(t) \/ Load(t)
  \/ CreateKey(t) \/ FindKey(t) \/ RevokeKey(t) \/ RotateKey(t)

Next ==
  \/ \E w \in Worker : Serve(w)
  \/ \E c \in Client : UseApi(c)
  \/ \E t \in Tab : UsePage(t)
  \/ \E d \in Delivery : Deliver(d)
  \/ \E k \in Key : Expire(k)
  \/ \E s \in Sub : Install(s)

Spec == Init /\ [][Next]_vars

-----------------------------------------------------------------------------
(* Every table, job and request has the shape the code gives it. *)
TypeOK ==
  /\ keys \in [Key -> [status : {"none", "active", "revoked"}, owner : Owner \cup {"none"},
                       token : 0..issued, scopes : SUBSET Scope, expiry : {"never", "ahead", "past"}]]
  /\ issued \in 0..MaxToken
  /\ subs \in [Sub -> [owner : Owner \cup {"none"}, enabled : BOOLEAN,
                       types : SUBSET Type, secret : 0..MaxSecret]]
  /\ events \in Seq([owner : Owner, type : Type]) /\ Len(events) <= MaxEvent
  /\ rows \in [Delivery -> [status : {"none", "pending", "succeeded", "failed"}, attempt : 0..MaxTries]]
  /\ jobs \in [Delivery -> [at : {"none", "insert", "post", "won", "lost", "recorded", "closed"},
                            attempt : 0..MaxTries, secret : 0..MaxSecret, by : Worker \cup {"none"}]]
  /\ accepted \subseteq posted /\ posted \subseteq Delivery
  /\ \A d \in Delivery : d[1] > Len(events) => rows[d] = NoRow /\ jobs[d] = NoJob

(* A token that was revoked, replaced or had expired when a request came in *)
(* with it never gets past authentication, whatever happens to its key      *)
(* meanwhile: revocations, expiries and rotations by other tabs.            *)
DeadTokensAreRefused ==
  \A c \in Client : worker[c].at \notin {"idle", "auth"} => ~worker[c].late

(* The delivery history does not overstate: a row says succeeded only if    *)
(* its own request, by its own id, was taken as genuine by the endpoint.    *)
SucceededWasAccepted ==
  \A d \in Delivery : rows[d].status = "succeeded" => d \in accepted

(* A succeeded attempt is left alone: retries of older attempts that race   *)
(* with it or come later never change its row (retryWebhookDelivery).  Only *)
(* the call that made it may take it back, when its own second statement    *)
(* throws, and no call takes up the id of one that is over.                 *)
SucceededIsFinal ==
  [][\A d \in Delivery : rows[d].status = "succeeded" =>
       /\ rows'[d] = rows[d] \/ jobs[d].at = "lost"
       /\ jobs[d] = NoJob => jobs'[d] = NoJob]_vars

(* Wallets do not see each other's events: whatever is sent, recorded or    *)
(* retried belongs to the wallet whose handler published the event.         *)
DeliveriesStayWithTheirOwner ==
  \A d \in Delivery :
    rows[d] # NoRow \/ jobs[d] # NoJob \/ d \in posted => subs[d[2]].owner = events[d[1]].owner

(* Once rotated, a signing secret never comes back, not even by an edit of  *)
(* the subscription that was read before the rotation and written after it. *)
SecretsMoveForward ==
  [][\A s \in Sub : subs'[s].secret >= subs[s].secret]_vars

(* Nothing late undoes what was done: no retry a success whose call is      *)
(* over, and no edit a rotation.                                            *)
NothingIsUndone == SucceededIsFinal /\ SecretsMoveForward

(* docs/DEVELOPER_API.md, Retries and observability: "Each delivery attempt *)
(* is persisted": what was sent to an endpoint has its row.                 *)
EveryAttemptIsRecorded == \A d \in posted : rows[d] # NoRow

(* A succeeded attempt stays so, its own call included. *)
SuccessStays ==
  [][\A d \in Delivery : rows[d].status = "succeeded" => rows'[d].status = "succeeded"]_vars

(* docs/DEVELOPER_API.md: "revocation is terminal". *)
RevocationIsTerminal ==
  [][\A k \in Key : keys[k].status = "revoked" => keys'[k].status = "revoked"]_vars
=============================================================================
