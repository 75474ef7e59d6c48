# Canalis in TLA+

Canalis lets the owner of a wallet approve a budgeted *task* for an agent. The
agent buys from several *providers*; what each may get is escrowed in a payment
channel on Solana and authorized call by call; at the end each channel is
claimed once, the provider is paid what was authorized and the rest goes back.

This directory models the parts of the code that decide about money and about
who may act when, checks them with TLC on small instances and proves the core
of them with TLAPS for every value of the constants. Paths below are relative to
the repository.

## Inventory

| Component | State | Operations | What is hard |
|---|---|---|---|
| Spend policy, `packages/core/src/policy.ts` | none (pure) | `evaluateSpend`, `applyApprovedSpend` | fifteen tests in an order; zero and "unset" limits |
| Route orchestrator, `core/src/route.ts`, `providers/src/execute.ts` | ledger, watermark and spend per provider, flows, settlements | constructor, `execute`, `recordSettlement` | concurrent `execute` calls suspended at `quote` and `fulfillAuthorized`; failures after the spend |
| Live channels, routes `live/prepare`, `deposit`, `live/finalize`, both `action` routes; `persistence/src/live-channels.ts`; `solana/src/live-x402.ts` | table `channels` (status, recovery state, cumulative), table `settlements`, escrow on chain | prepare, deposit, finalize, recover | broadcast whose outcome is unknown; stale snapshots; read-modify-write updates; crashes |
| Settlement gateway, `solana/src/live-x402.ts` | one memoized initialization | `initialize`, `deposit`, `claim` | an RPC that answers 429 to anything; broadcasts that are not confirmed; a shared promise that rejects |
| Task service, `application/src/service.ts`, `persistence/src/postgres.ts`, `tasks.ts` | tables `tasks`, `channels`, `flows`, `receipts` | create, execute, `getTask`, lifecycle changes | torn reads; execution saved only at its end; rounding and caps of reservations |
| Task creation, routes `tasks`, `v1/tasks`, `tasks/[id]/lifecycle`; `server/task-policy.ts`, `provider-selection.ts` | tables `tasks`, `policies`; reads settings, policy library, provider registry | create, submit, cancel, archive, duplicate, rerun | four tables read one after the other before one is written |
| Mutation guard, `apps/web/src/server/security.ts`, `persistence/src/security.ts` | `idempotency_records`, `mutation_locks` | `runIdempotentMutation` around every mutating route | leases and locks that expire by the clock; crashes; retries |
| Finalization library, `solana/src/finalization.ts` | channel on chain | `finalizeProviderChannel`, `finalizeTaskChannels` | half-finished finalization, retries |
| Vouchers, `solana/src/voucher.ts` | none (pure) | encode, decode, expiry, monotonicity | u64/i64 bounds |
| Developer platform, `persistence/src/developer.ts`, `server/developer.ts`, `server/developer-api.ts`, the Developers page, the SDK | API keys, webhook subscriptions, events, deliveries | authenticate, create, rotate, revoke; publish, deliver, retry, edit | tokens retired while they are used; deliveries recorded before and after the POST; edits over rotations |
| Wallet sessions and workspaces, `persistence/src/auth.ts`, `workspaces.ts`, `server/auth.ts`, `server/workspaces.ts`, `wallet-identity.tsx`, `workspace-management.tsx` | challenges, sessions, cookies, members, invitations | sign in and out, change account, switch, invite, accept, revoke, role, remove | lost and repeated answers; two tabs; roles and membership that change under a request |
| Provider registry and settings, `persistence/src/providers.ts`, `settings.ts`, routes `providers/*`, `settings/*`, the providers and settings pages | tables of providers, credentials and settings | add, edit, check, enable, disable, connect, reconnect, save | slow checks of an outside endpoint between a read and a write |
| Activity, transactions, operations, channel lists, `persistence/src/activity.ts`, `operations.ts`, `channels.ts`, `transactions.ts`, the bell and the activity page | `activity_events`; what the pages have seen | synchronize, resolve, list, mark; dashboard, lists, totals | overlapping synchronizations; one rule written three times in SQL and TypeScript |
| Policy library, `persistence/src/policies.ts` | policies and their versions | version, archive | checks that are stale when used |
| Payment providers, onboarding, analytics, other pages | none of their own | reads, HTTP 402 exchanges | nothing a model would add |

How they meet: a request reaches an API route, which runs its handler under the
**mutation guard**. The execute route calls the **task service**, which builds a
**route orchestrator**, runs its calls, and saves the resulting payment graph in
one transaction. The live routes read the task with `getTask` (several
statements), call the gateway to **Solana**, and write the channel row back
(`recordChannelState`). Handlers share nothing but the database and the chain.

## Modules

| Module | Models | Uses |
|---|---|---|
| `Policy` | the spend policy | |
| `RouteOrchestrator` | the orchestrator and its request pipeline | `Policy` |
| `TaskBudget` | abstract: what the orchestrator promises the task's owner | |
| `RouteOrchestratorProofs` | theorems about the orchestrator and the split of a budget it is given | `RouteOrchestrator`, `TaskBudget`, `Reservations` |
| `LiveChannel` | channel rows, escrow, and the HTTP handlers that move them | |
| `ChannelPromise` | abstract: the life of one channel | |
| `LiveChannelProofs` | theorems about the handlers | `LiveChannel`, `ChannelPromise` |
| `SettlementRetry` | the settlement gateway: initialization, retries, polling | `ClaimPromise` |
| `ClaimPromise` | abstract: what a gateway call promises the handlers | |
| `ChannelFinalization` | the finalization library over several channels, with the channel program | |
| `SettlementProofs` | theorems about the finalization library and the gateway | `ChannelFinalization`, `SettlementRetry`, `ClaimPromise` |
| `Reservations` | `allocateReservations`, the split of a budget over channels | |
| `TaskCreation` | creation and lifecycle of tasks against changing settings, policies, providers | |
| `TaskCreationProofs` | theorems about task creation | `TaskCreation` |
| `MutationGuard` | idempotency records and mutation locks | |
| `DeveloperPlatform` | API keys, webhooks and their deliveries, with the Developers page and API clients | |
| `DeveloperPlatformProofs` | theorems about keys and webhooks | `DeveloperPlatform` |
| `Access` | wallet sessions, team workspaces, and the browser side of both | |
| `AdmissionProofs` | theorems about sessions, teams and the guard | `Access`, `MutationGuard` |
| `ProviderRegistry` | providers, their credentials and health, and the settings they must fit, with both pages | |
| `ProviderRegistryProofs` | theorems about the registry | `ProviderRegistry` |
| `Console` | the activity feed with its bell, and what lists and dashboard derive from the same rows | |
| `ConsoleProofs` | theorems about the views and the feed | `Console` |
| `MC*` | constants and symmetry for TLC | the module they name |

Definitions called "Mutant of X" are plausible bugs in X; no specification uses
them. They are there to show that a property can fail: with X replaced by its
mutant TLC finds the property violated.

`SettlementProofs` and `AdmissionProofs` each extend two specifications that
belong together. So that both fit into one module, the initial predicate, the
steps and the type invariant of the gateway are called `GatewayInit`,
`GatewayNext`, `GatewaySpec`, `GatewayTypeOK`, those of the guard `GuardInit`,
`GuardNext`, `GuardSpec`, `GuardTypeOK`.

### Policy and RouteOrchestrator

An `execute` call is at most four steps: `Execute` (look up, immediate
rejections), `QuoteArrives` or `QuoteFails`, then `Fulfilled` or
`FulfillmentFails`. The code between two awaits runs without interruption in
Node, and the authorizer has no await of its own, so the policy decision, the
ledger update and the new flow are one step with the quote's arrival. Quotes are
any member of the constant `Quotes`, wrong ones included. `pc` says where a call
is, `flows` holds the `RouteFlow` it recorded; the order of the `flows` array is
left out, since nothing depends on it. Each call has a request id of its own.
Left out: receipts, messages, `assertAuthorizationMatchesQuote`
(which compares the authorizer's answer with the quote it was made from).

### LiveChannel

`rows` is the `channels` table reduced to what decides: status, stage of the
recovery state, cumulative amount, and whether the signed payload is stored.
`chain` is the escrow: whether it is open, how many claims were broadcast, and
what it paid. A `worker` is a request in progress with everything its handler
read: `Begin`, the reads of `getTask` in any order (`ReadChannels`,
`ReadFlows`), the handler's check (`Admit`), a loop over its channels, and for
each channel the gateway call, the two statements of `updateChannel` (`ReadRow`,
`WriteRow`) and what follows. The action routes are the loop over one channel.
Every guard that the code evaluates on what it read earlier is evaluated on the
worker's copy, every `WHERE` clause on the table.

A statement may throw and a worker may die at any await. A claim that fails may
have reached the chain or not. The catch block of the terminal routes covers
everything from the claim to the settlement record (and, in the v1 route, the
webhooks), and so does `StatementThrows`.

Assumed: a mutation lock outlives its handler (see `MutationGuard` for what
happens otherwise), and it comes free at once when its worker dies, which only
lets more happen. `gateway.claim` broadcasts at most one claim, throws or
answers, and may have reached the chain although it threw: that is
`ClaimPromise`, which `SettlementRetry` implements. `executeTask` is the result
of the orchestrator: some amount per provider within the ceiling. External: the
payment channel program. It lets only an open channel be claimed, and pays what
the claim says.

### MutationGuard

One action per SQL statement of `beginIdempotency`, `acquireMutationLock`,
`completeIdempotency`, `abandonIdempotency` and `releaseMutationLock`; `now` is
the database clock. A handler is a step that counts itself in `runs` and yields
a response that tells runs apart. A request that names no resource (the creation
of a task) takes no lock. A lock is held under the key and the fingerprint,
without owner and operation, as in the code; it is assumed that two owners never
send the same request under one key. A request may take up to `MaxRun` ticks,
`TTL` stands for the 300 seconds of leases and locks, `RecordTTL` for the day a
record lives.

### SettlementRetry

A caller is one call of `deposit` or `claim`. `ready` is the memoized promise of
`initialize`: the first caller starts it, the others wait for the same one, and
a rejection ends all that wait and is forgotten. `Settle` is any answer of the
facilitator: confirmed, refused, broadcast without confirmation, or an exception
before or after the broadcast; `limited` says whether the message mentions 429.
A result with a signature is polled, one without is settled again if it was
limited. The chain decides on a pending transaction at any time, also after the
call has ended. External, and assumed: the facilitator broadcasts at most once
per settle, and a result without a signature was not broadcast.

### ChannelFinalization

A finalizer is one call of `finalizeTaskChannels`, repeated for ever. `chain`
holds the escrows. A step is what runs between two awaits of
`finalizeProviderChannel`: `Inspect` compares the descriptor, `SkipSeal`,
`Seal` and `SealThrows` are `sealAtAuthorizedWatermark` on the descriptor that
`Inspect` saw, `Distribute` and `DistributeThrows` the rest. `call[f].records`
are the records pushed so far, `summary[f]` what the call returned. The three
amounts of a summary and `isReconciled` are computed as the code does.
External: the program, which seals only an open channel at a watermark between
the present one and the deposit, and distributes only a sealed one. A call may
throw before or after it landed (`LostReply`) and may report wrong amounts
(`Misreports`); `MaxFaults` bounds both. On `Disturbed` channels vouchers
settle and the payer closes between any two steps.

### Reservations

The function as written, one step per head of the `while` loop and per round of
the `for` loop, over every budget, order of providers and assignment of caps.
Caps that are missing are the budget, as in the code. `eligible` holds the
positions that a round has still to serve, `remaining` is an integer, since the
code lets it become negative (see "Where code and documentation disagree"), and
`Given` is what one provider gets. A throw inside the loop would be the place
`stuck`. `route` checks it next to the orchestrator (`part` says which of the
two a behaviour is about): the orchestrator runs on any reservations that its
constructor accepts, and what it makes of a plan is a theorem. Specification
and types are called `AllocationSpec` and `AllocationTypeOK`, because the
module is extended next to `RouteOrchestrator`.

### TaskCreation

One action per read or write of a request: `ReadSettings`, `ResolvePolicy`
(with the compatibility checks on settings and rules), `CheckProviders`,
`InsertTask`, `NameTask` for a creation; `ReadTask`, `CheckAgain`, `SetStatus`
for the lifecycle route, whose reruns and duplicates join at `InsertTask`. What
a worker has read stays in its record. `available`, `live` and `latest` in that
record are history: what was true since the request came in. Settings, policy
and providers change between any two steps. An execution is `CheckExecution`
(the route's check of the providers), `BeginExecution` (`executeTask` finds the
task active), and `SaveExecution`, which writes `completed` or `active`
whatever the status has become by then; `EndExecution` is one that never
writes. `execution` says of which tasks one is on its way, and how many there
are of a task is left open. A handler that throws is answered with the error,
and that answer is stored under the idempotency key; only a worker that dies
leaves a key whose retry runs the handler again (`Retry`). The mint that an
inline x402 task needs is the sandbox mint, so it is refused unless that is the
account's default asset (`settings.ts:289`). Amounts are left to
`Reservations`, rules keep what compatibility depends on. The lock of execute
and lifecycle routes is left out, because it may run out while an execution is
still under way. Left out as well is `POST /api/demo`, which creates a task and
executes it at once.

### DeveloperPlatform

`keys`, `subs`, `events` and `rows` are the four tables; a token or a secret is
a number, the order they were issued in. `CallApi`, `Authenticate`, `RateLimit`
are the road of an API request, `Click...` and `Load` that of the Developers
page, which acts on the list it loaded last. A handler that publishes inserts
its event, reads the matching endpoints and starts one *job* per endpoint
(`deliver`): `CreateDelivery`, the POST (`Accept`, `Reject`, `UrlBlocked`), and
the two statements of `finishDelivery`, `FinishDelivery` for the row of the
delivery and `StampSubscription` for the endpoint's times. `DeliveryThrows` and
`Dies` stop it between any two. If recording a success throws, after its first
statement or before, the catch block records a failure (`RecordThrows`), also
over a success that is stored. An edit
of an endpoint is a read and a write (`ReadHook`, `UpdateHook`), a rotation is
one statement. `late` in a request is history: its token was dead when it came.
External: the endpoint, which verifies with the secret it has installed, and
any amount of time later than the page shows a new one.

### Access

Two halves meet in `jar`, the session cookie. In the browser, `page` is the
state of `WalletIdentityProvider`: `Connect`, `Prompt`, `SignMessage`, `Login`,
`SignedIn`, `Disconnect`, `ChangeAccount`, `Reconnect`, `ClearAtServer`. On the
server, `Authenticate` finds the session, `ListWorkspaces` and
`SelectWorkspace` choose the workspace as `server/workspaces.ts` does, cookie
and fallback included, and each team operation is split at its statements
(`ReadMember` and `SetRole`, `ReadInvitation` and `RevokeInvitation`);
`AcceptInvitation` is one transaction in the code and one step here. `Audit` is
the row written after. The other routes appear by the permission they need
(`RequiredPermission`) and, for the live routes and the channel action, by the
demand that the signing wallet is the session's own. `Resend` sends a signed
verification again; `Breaks` loses a request or its answer. A signature is a
fact about a challenge, which only its wallet can make true.

### ProviderRegistry

A route is a sequence of stages (`AddSteps`, `EditSteps`, `EnableSteps`, ...),
which are its awaits in order; an action per stage says what that await does,
whichever route runs it. So the order of the stages is data, and a mutant can
exchange two. `Verify` compares an endpoint's answer with the configuration as
`provider-health.ts` does; the answer is read from `net`, which changes from
outside (`EndpointChanges`). `ChangeKey` replaces the key that credentials are
sealed with, `ArchivePolicy` archives the policy the settings name. The pages
hold a form, the last test and a draft, and refuse what they refuse in the
code. `verified` is history: the pairs of configuration and credential that
passed a check. `doubt` holds the providers whose recorded check overlapped an
edit. A scene's rows are what the migrations and earlier requests leave behind
(`SceneOK`), its clicks ones that a page offers (`ClickOK`).

### Console

`provider`, `task`, `channel`, `settlements` are one row each of the tables the
feed is made from, written as the handlers of the other modules write them, in
fewer steps: an execution begins and saves, and `Overlapping` of them may be
under way; a finalization keeps `BeginFinalization`, `RecordPayout` and
`RecordSettlement` apart, `FinalizationFails` and `PayerDies` end it in
between. A load is one GET of the feed: `ReadProviders`, `ReadFlows`,
`ReadChannels`, `ReadTasks`, an `Upsert` per event, `FindMissing`, `Resolve`
per incident, `List`, `Answer`. Every load works on what it read, and two may
overlap. The task's incident is about its newest flow. `List` answers with the
first `PageSize` incidents (8 for the bell, 25 for the activity page), the
critical ones first and of each severity the open ones; their order by time is
left open, so every page that fits is possible. `bell` is what the browser
keeps of the last page, and nothing of what was not on it; `toasted` is
history, what was announced of the incidents that have stayed on the page
since. `ActionFor`, `ListAction` and `DashboardAction` are the three rules for
a channel's next action, `Dashboard` and `Transactions` the two ways to add up
its amounts. Wording, filters, further pages and analytics are left out, and so
are the statuses `sealed` and `archived`: no route writes the first, and every
view treats the second like `completed`.

## Runs

| Run | Instance | States | Shows |
|---|---|---|---|
| `route` | 3 calls, 2 of 3 providers registered, 4 tasks, 9 quotes, 1 tick, 1 settlement; splits of up to 10 units over up to 3 providers | 669 thousand | budget, ceilings and caps hold; ledger, watermarks and flows agree; vouchers never overlap; paid work is authorized; settlements cover what they stamp; refinement of `TaskBudget`; a split ends, within the caps, with the budget or one unit more |
| `live_channel` | 1 channel, 2 workers, faults, v1 action | 1.03 million | a claim is never offered again; terminal rows, settlements and open rows agree with the chain; refinement of `ChannelPromise`, one claim at most included |
| `live_lease` | 1 channel, 2 workers, no faults, web action | 230 thousand | every lease gets a verdict |
| `finalization` | 2 finalizers, 2 channels (1 disturbed), 1 fault, right and wrong deposits | 136 thousand | only the authorized amount is distributed; finalized records are paid; the summary accounts for the budget and agrees with the chain; a channel sealed right is distributed in the end |
| `settlement` | 2 callers, 3 retries, 5 polls, 1 failing initialization | 44 thousand | one broadcast per payment; refinement of `ClaimPromise`; every call ends |
| `reservations_overrun` | the same splits | violated | a split that exceeds the budget |
| `task_creation` | 1 worker, 2 tasks, 2 versions of 2 rule sets, 2 profiles, executions that end late, faults | 2.8 million | rules of a task stay those of its version; only permitted providers become active; archived policies are unused; tasks go back only by an execution that had begun |
| `guard` | 2 workers, 2 keys, 2 requests (one about a resource, one about none), 4 ticks | 2.1 million | mutual exclusion, one answer per key, no second run after an answer |
| `developer` | 2 keys, 3 tokens, 2 endpoints of 1 or 2 wallets, 1 client, 2 tabs; 6 scenes | 802 thousand | dead tokens open nothing; "succeeded" means accepted, and only an exception of its own delivery takes it back; nobody gets another's events; secrets never go back |
| `access` | 3 wallets, 3 browsers, 2 challenges, 3 sessions, 2 invitations; 8 scenes | 620 thousand | one session per signature; members were invited, with the role they have; invitations end once; a workspace's wallet is its one owner |
| `providers` | 2 wallets, 2 pages, a built-in provider and another, 3 endpoints; 8 scenes | 95 thousand | healthy means verified as stored; ids keep their first owner; only a checked enabling enables |
| `console` | 1 provider, 1 task, 1 channel, 2 loads, a page of 2 rows; 9 scenes | 526 thousand | three action rules and two sums agree; an undisturbed feed is exact; nothing that stays on the page is announced twice; the bell catches up |

Some of the properties are conjunctions of parts that have names and comments of
their own: `SummariesAreTrue`, `CreationsArePermitted`, `LifecycleIsFollowed`,
`NothingIsUndone`, `ViewsAgree`, `FeedIsRight`.

Why the bounds are enough. Three calls let two of them race on one provider
while a third spends on the other; three units of budget make the total, the
ceilings and the caps bind; one tick crosses the expiry. Two workers give every
pairwise race of handlers, and dead workers are replaced, so a run may see many
requests one after another. `MaxClaims = 2` is one more than the refinement
allows. In the guard, four ticks let a record expire (`RecordTTL = 3`), be
reinserted, and leases (`TTL = 2`) be taken over; two requests make key
conflicts, two keys make lock conflicts. Two finalizers on two channels let one
seal what the other has inspected and distribute what the other has sealed,
while the first channel failed and the second did not; one fault is the first
failure, and calls that lose the race against another finalizer fail without
one. Three retries and five polls are the code's. Three providers and ten units
give rounds in which one provider is full, one is cut to what is left and one
is not reached, and are the smallest in which a split exceeds the budget; for
more of either there is a theorem. For task creation one worker is enough
because everything that may change under a request is an action of its own; a
second task lets a copy meet its original, a second version lets the latest be
another than the one a task names.

The instance of the live handlers has one channel; the loops of prepare
and finalize over several are in the model (`Targets`), but no run has two.

The four modules with pages are checked in *scenes*: a scene fixes the rows at
the start and what each browser or client may do, and everything else (order,
answers, failures, outside events) is free. One behaviour has one scene; each
scene is a race the code invites, and together they use every operation. Three
tokens are the old one, its successor and one more rotation; three deliveries
of an event are a first, a retry, and a retry of either. Two challenges and
three sessions let a sign-in start again before the first has ended. Two
invitations are one settled and one new for the same wallet. Two loads of the
feed are enough for one to act on what the other has outdated. There are five
incidents, up to four of them at once; a page of two rows makes some of them give
way to others and come back. Two executions let the later flow be another than
the one that was stored first.

Symmetry is used for calls, workers, keys and bodies, none of which the
specifications tell apart, and never in a run with a liveness property.
`CHECK_DEADLOCK FALSE` stands where the system stops: an orchestrator whose
calls have all ended, a plan that is made, calls that all have answered, pages
whose users have done what their scene lets them do.

Fairness. `live_lease` assumes weak fairness of each handler (`Handle(w)`):
Node resumes a handler whose await has settled, and the awaits of a handler
(database, RPC with bounded retries) settle. It does not assume that anybody
sends a request, nor that faults stop: the run has none, because the code gives
no promise after a crash. A lease whose worker died stays at
`finalization-started` for good and waits for an operator; that is intended
(`docs/CHANNELS_WORKSPACE.md`, "Inspect recovery") and is why the property is
stated without faults. `settlement` assumes that each caller's await settles
(every request has a result or an error) and that an initialization that is
tried resolves in the end if it does not reject; it assumes nothing of the
chain. `finalization` assumes that callers keep calling:
`docs/settlement-finalization.md` makes retrying the operator's duty and the
library has no loop of its own. The split of a budget needs no fairness to end:
each of its steps lessens `Distance`. `console` assumes that the bell keeps
polling: its timer fires every `autoRefreshSeconds` while the page is open,
whatever is in flight. That fairness is strong, because the bound on loads may
disable `Poll` again and again, which the browser never does. It also assumes
that a request which has started ends. It holds only for `autoRefreshSeconds >
0`; zero turns the timer off.

## Where code and documentation disagree

One disagreement is a bug with a run of its own, `reservations_overrun`, in
which `PlanWithinBudget` (`Reservations`) is violated. `allocateReservations`
hands out what remains in equal shares, rounded up. A provider with less room
than a share gets all of its room (`service.ts:82`, the first branch), also if
still less remains. Then `remaining` is negative, which neither stops the round
(it stops at zero) nor starts another, and the ceilings exceed the budget: a
budget of 10 over three providers, the last capped at 3, becomes 4 + 4 + 3; a
budget of 100000 with a cap of 33333 on the last becomes 100001.
`docs/ARCHITECTURE.md` says the aggregate ceilings never exceed the task
budget, and the constructor of the orchestrator throws if they do
(`route.ts:157`, tested in `route.test.ts:47`). `executeTask` calls it outside
its `try`, so such a task is created, and live its channels can be funded
beyond the budget, but no execution of it ever starts. The theorems say how far
it goes: never with one or two providers, and never by more than one unit per
provider but two. The minimum of room, share and what remains would be the
remedy.

None of the following is the subject of a run; each can be seen by adding the
named formula to the configuration of the module's run, under the instance
described. The first group contradicts a document, a comment or a text of the
product.

* `NoClaimWhileActive` (`LiveChannel`, one worker).
  `docs/CHANNELS_WORKSPACE.md` says a channel cannot finalize while its task is
  active and unexpired. `live/finalize` refuses an active task only as long as
  it has no flows. An execution whose second call failed saves flows and leaves
  the task active, and its channels can then be claimed.
* `PayoutIsAuthorizedSpend` (`LiveChannel`, two workers). The document says
  Finalize claims the persisted cumulative authorization. `getTask` reads
  channels and flows with separate statements. A finalize that reads the
  channels before and the flows after an execution saves passes its guard with
  a cumulative amount of zero, and pays zero. Mutation locks do not help:
  execute and finalize use different resource keys.
* `MutualExclusion` (`MutationGuard`, `TTL = 1`, so that a handler outlives its
  lock). A comment says that resource locks serialize concurrent mutations. A
  lock lives 300 seconds whatever its handler does. `LiveChannel` assumes that
  this does not happen; without the assumption its rows and the chain come
  apart (a deposit that outlives its lock writes over a claimed row).
* `CreationBlockedOnMainnet` (`TaskCreation`). The top-level `README.md` says
  task creation is intentionally blocked under the mainnet profile. Only the
  two creation routes read the settings; a rerun makes an active task, a
  duplicate a draft, under any profile.
* `docs/CHANNELS_WORKSPACE.md` calls `distributed` and `recovered` terminal.
  The catch block of the terminal routes also covers the statements after the
  terminal state was stored; if one of them throws, the row is overwritten with
  `failed`. The chain is not touched again, but the settlement may be missing.
* `docs/settlement-finalization.md` calls finalization retry-safe. Nothing is
  paid twice, but a channel that an earlier call distributed is answered with a
  recovery record and zero amounts, so a task that needed a second call is
  never reported reconciled. It also says of `retry-distribute` that the
  channel is sealed; if the distribution landed and its answer was lost, or
  another finalizer was first, the channel is distributed already.
* `README.md` lists idempotency for critical mutations. A worker that dies
  after `createTask` committed and before its answer is stored leaves a key
  whose retry makes a second task. The webhook routes under `v1` do not use the
  guard at all, though section 2 of `docs/DEVELOPER_API.md` asks for the key.
* `EveryAttemptIsRecorded` (`DeveloperPlatform`, the retry scene).
  `docs/DEVELOPER_API.md`: "Each delivery attempt is persisted". Two retries of
  one delivery compute the same attempt number, the second row is not inserted
  (`developer.ts:240`), and the event is posted all the same.
* `SuccessStays` (`DeveloperPlatform`, the retry scene). The same document says a
  succeeded attempt is left alone. `finishDelivery` is two statements. If the
  second throws, "succeeded" is already stored, and the catch block of `deliver`
  writes "failed" over it (`server/developer.ts:197`, `:200`), so an event that
  the endpoint has taken may be retried. `NothingIsUndone` says that nothing but
  this takes a success back.
* `RevocationIsTerminal` (the keys scene). The same document calls revocation
  terminal. `rotateApiKey` sets the key active whatever its status, so a page
  loaded before the revocation brings the key back, with a new token.
* The Developers page says that requests sent after a rotation are signed with
  the new secret only. A delivery that has read its endpoint is sent with the
  old one.
* `SignedOutForAnotherAccount` (`Access`, the scene with two workspaces). A
  page that signs its user out by itself says "Your wallet account changed".
  `GET /api/auth/session` answers with the *workspace's* signing wallet as
  `walletAddress` (`server/workspaces.ts:82`) and the silent reconnection
  compares the account with that (`wallet-identity.tsx:241`), so a member who
  reloads the page in another wallet's workspace is signed out though nothing
  has changed.
* `FixedPricesAreSet` (`ProviderRegistry`, the scene with two edits). `PATCH
  /api/providers/[providerId]` refuses a fixed pricing without a price; the
  settings page's route writes it.
* `VerifiedAsConfigured` (the scene with an edit and a check).
  `providers-workspace.tsx:442` says live providers pass verification before
  use. `recordHealth` names the row by its id only, so the verdict on the old
  configuration is stored over an edit. `HealthyMeansVerified` excludes exactly
  these.

The second group contradicts nothing that is written, and is what a reader of
the code might not expect.

* Tasks: `CancelledStaysCancelled` (`TaskCreation`). `executeTask` reads the
  status before its calls (`service.ts:259`), and `saveExecution` writes
  "completed", or "active" after a failure (`service.ts:289`), without looking
  again (`postgres.ts:401`). If the lock of the execution has run out, or the
  execution is the one of `POST /api/demo`, which takes none, a cancel or an
  archive in between is overwritten, and a cancelled task may be active again
  without another check of its providers. `LifecycleIsFollowed` says that only an
  execution that had begun before does this, and that an ended task never starts
  one.
* Channels: the dashboard offers recover or finalize for reserved channels that
  have expired, which the route refuses (`operations.ts:184`); a channel that
  is spent to the last unit is not on the dashboard until its task ends, and
  raises no incident. `recoverable` counts channels whose finalization is under
  way.
* Idempotency keys: the holder of a lock is named by the key and the fingerprint
  of the request, not by its owner (`security.ts:184`). Two owners who send the
  same request about one resource under one key would share its lock.
* Feed: an incident "task failed" is resolved only by a newer flow of the same
  task and provider that did not fail, which two overlapping executions can make
  and one cannot. A receipt that was stored for a flow that had failed lists the
  call both as an authorization and as a failure. The bell remembers what it has
  seen of its eight rows only (`notification-center.tsx:95`): an incident that a
  full page pushes out is forgotten, and is announced again, in the same version,
  when it comes back. Severity sorts before state, so eight resolved critical
  rows keep open warnings off the bell. Settlement and
  distribution share a signature, so their events share a fingerprint and one
  overwrites the other. Overlapping synchronizations resolve what is so, reopen
  what is not, count an occurrence twice and reset "read", until the next poll.
  "Mark all read" marks what was never shown. A refresh by hand takes new
  incidents without a toast. Two updates of a channel within one second share a
  version.
* Sign-in: the answer of a late DELETE clears the cookie of the new session; a
  sign-out whose DELETE fails leaves the session alive; a worker that dies
  between `consumeChallenge` and `createSession` burns the signature.
* Workspaces: a cookie that names a workspace the wallet has left is passed
  over in silence, and the request runs in the wallet's first workspace. The
  role is read once per request. A pending invitation that has run out blocks
  the next until a list of invitations is loaded, which marks it expired.
* Webhooks: an edit writes back every column but the secret, so of two
  concurrent edits one is lost. If `openSecret` throws after `createDelivery`,
  the row stays pending for ever.
* Providers: a worker that dies between `createProvider` and `recordHealth`
  leaves a provider of unknown health; the environment may change after a
  provider was enabled; the policy the settings name may be archived
  afterwards; an enabling that waits for its endpoint lands after a later
  disabling; a new key makes stored credentials unreadable.

## Proofs

Eight modules hold proofs, for every value of the constants that the assumptions
admit. All follow one pattern: an inductive invariant that contains the type of
every variable; a lemma per action that says what the action does to the
variables the proof is about; a lemma that every step keeps the invariant; and
theorems that read the property off it. TLC checked every invariant below on a
small instance before it was proved.

| Module | Theorem | Property |
|---|---|---|
| `RouteOrchestratorProofs` | `TypeCorrect` | `TypeOK` |
| | `MandateHolds` | `WithinMandate` |
| | `AccountsAgree` | `LedgerIsSumOfFlows` |
| | `VouchersAreDisjoint` | `WatermarksTile` |
| | `PaidWorkHoldsAuthorization` | `PaidWorkIsAuthorized` |
| | `SettlementsAreCovered` | `SettlementsCoverStampedFlows` |
| | `ImplementsBudget` | `ImplementsTaskBudget` (refinement) |
| | `AuthorizationsStay` | `AuthorizationsAreFinal` (action property) |
| | `NothingIsLost` | `NothingLost` (`Reservations`) |
| | `SplitEndsInPlan` | `EndsInPlan` (`Reservations`) |
| | `PlansAreAcceptedUnlessOver` | what `AcceptsReservations` says of a plan |
| `LiveChannelProofs` | `ClaimsAreNotReoffered` | `ClaimIsNeverReoffered` |
| | `TerminalRowsTellTheTruth` | `TerminalRowsArePaid` |
| | `SettlementsArePaidOut` | `SettlementsArePayouts` |
| | `OpenRowsAreClaimable` | `OpenRowsHaveEvidence` |
| | `ImplementsPromise` | `ImplementsChannelPromise` (refinement) |
| `SettlementProofs` | `OnlyAuthorizedIsDistributed` | `DistributesAuthorized` |
| | `CallersAreToldTheTruth` | `SummariesAreTrue` |
| | `OneBroadcastPerPayment` | `NeverRebroadcasts` |
| | `ImplementsPromise` | `ImplementsClaimPromise` (refinement) |
| `TaskCreationProofs` | `SnapshotsStay` | `SnapshotsAreImmutable` |
| | `LifecycleFollowed` | `LifecycleIsFollowed` (action property) |
| | `CreationsPermitted` | `CreationsArePermitted` (action property) |
| `DeveloperPlatformProofs` | `DeadTokensStayOut` | `DeadTokensAreRefused` |
| | `SuccessIsEarned` | `SucceededWasAccepted` |
| | `EventsStayPrivate` | `DeliveriesStayWithTheirOwner` |
| | `NothingIsUndoneLater` | `NothingIsUndone` (action property) |
| `AdmissionProofs` | `SignaturesBuyOneSession` | `OneSessionPerSignature` |
| | `SignersStayOwners` | `SignersOwnTheirWorkspace` |
| | `JoinsNeedInvitations` | `JoinsAreInvited` (action property) |
| | `InvitationsAreSettledOnce` | `InvitationsSettleOnce` (action property) |
| | `HandlersExclude`, `LocksAreHeld` | `MutualExclusion`, under `MaxRun < TTL` |
| | `AnswersAreUnique` | `OneAnswerPerKey` |
| | `AnsweredStayAnswered` | `AnsweredRequestsDoNotRunAgain` (action property) |
| `ProviderRegistryProofs` | `CheckedBeforeUse` | `HealthyMeansVerified` |
| | `OwnersAreKept` | `RowsKeepTheirOwner` (action property) |
| | `EnablingIsChecked` | `OnlyEnablingEnables` (action property) |
| `ConsoleProofs` | `OneAccount` | `ViewsAgree` |
| | `ToldOnce` | `FeedIsRight` |

Every module proves its `TypeCorrect` as well (`GatewayTypeCorrect` and
`GuardTypeCorrect` for the second specification of a module; in
`DeveloperPlatformProofs` without the bounds that TLC needs). With these, every
invariant and every action property that a run checks is also a theorem, and so
are the three refinements.

### The arguments

*Orchestrator.* Amounts are naturals because an allowed spend is positive
(`INVALID_AMOUNT`). The tests `CHANNEL_CEILING_EXCEEDED` and
`TASK_BUDGET_EXCEEDED` bound the step of `WithinMandate`, and ledger and watermark
stay equal since `Authorize` adds the same price to both. `WatermarksTile` needs
that a call which is still quoting holds no accepted flow, `PaidWorkIsAuthorized`
a strengthening that ties `pc` to the status of the flow for every phase.
`LedgerIsSumOfFlows` is about sums over sets of calls and of providers
(`SumFunction`). That a sum grows by what one of its terms grows is proved by
well-founded induction over the subsets of a finite set: a smallest subset on
which two sums disagree would have a smaller one. This is why `RouteAssumption`
says that providers and calls are finite in number; a task lists its providers.

*Split of a budget.* `AllocationInv` bounds what a round may still give away:
the shares of the providers it has not served yet exceed what remains by less
than one unit each, counted over all providers, and by one less once more was
given than remained. That is what rounding up costs, and nothing in the round
can make it worse, since who gets less than a share only helps. At the end of a
round nobody is left to serve, which leaves the bound of `PlanCoversBudget`. A
round never gives nothing, because whoever is served first has room and
something remains; and there is somebody with room, because caps that are all
used up would add up to less than the budget that was checked against them.
With `SumRaised` of the orchestrator, allocated and remaining units always make
the budget. That the function ends is proved as safety: `Distance`, a natural
number, gets smaller with every step, because the first provider that a round
serves gets something. `PlansAreAcceptedUnlessOver` joins the two modules: of a
task whose budget and caps were split (`SplitFor`), the constructor's tests on
single reservations always pass, and its test on their sum passes exactly if
the plan makes up the budget.

*Channels.* Nothing in `ClaimIsNeverReoffered` speaks of workers, but it rests on
what they hold. `ChannelInv` says that requests which would disturb each other
exclude each other (one preparation, one execution, one deposit into a channel,
by their mutation locks), that one handler at a time leases a channel between
`beginFinalization` and the verdict, what the leased escrow looks like at each
place of that handler, and that no copy of a cumulative amount is ahead of the
recorded flows. Then each row agrees with its escrow (`ChannelHolds`): at most
one claim, none while the row can be leased, and a terminal row's payout is
there. The refinement of `ChannelPromise` follows step by step.

*Gateway.* `Careful` says for each place of a call what was broadcast for it: a
caller that may settle has broadcast nothing, one that polls has broadcast and
holds a result with a signature, one that was answered has its payment on chain.
The external contract (a result without a signature was not broadcast) is the
step `Settle`; without it neither theorem would hold.

*Finalization.* A call that has seen its channel sealed, or has sealed it, relies
on the chain not taking that back: every step, of any call and of the payer,
keeps deposits, the watermark of what is sealed, and the payouts of what is
terminal (`ChainKept`). So a stale descriptor is harmless exactly where the code
trusts it. `True` says of each record what `SummariesAreTrue` says, and that a
record which is not finalized claims no amounts; the sums of a summary then
follow from three amounts per channel that add up to its ceiling, by induction
over the length of the list.

*Guard.* The record and the lock of a request outlive it (`HeldRecords`,
`HeldLocks`), from which it follows that no two requests work under one record
or lock (`OneHolder`), and that all answers of a key are the one its record
would replay (`AnswersMatch`). A request without a resource has no lock, and
its place among the others is that of its record alone. All theorems here but
the types assume `MaxRun < TTL`, handlers that end within a lock's lifetime.
Nothing in the code enforces this, which is the finding described under "Where
code and documentation disagree"; the theorem says that it is the only thing
missing.

*Task creation.* `Checked` says for each place of a request what it has
established so far, in terms of what it was shown (`Witnessed`): whatever was
available or live when the request came in, or since. This is all that can be
promised, since policy and providers may change between the check and the
write. For `LifecycleIsFollowed` it is enough that an execution is the only one
to write a status without a condition, and that it does so only for a task it has
found active before. `Snapshots` needs that a version, once made, is never written
again.

*Developer platform.* A token is a number and every issue takes a new one, so a
token that is dead stays dead (`Sound`, `late`): only a request that still
waits for its authentication may hold one. `Belongs` ties each delivery to an
event that was published and to an endpoint of the same wallet; endpoints never
change their wallet. `Running` says what the row of a running `deliver()` can
read: one that may still record a result is the only one to write that row, so a
success is taken back by its own call or by none.

*Access.* A signature on its way (`Signing`) is good, and once it is consumed
no session and no other request has it, which makes the session unique. For the
team: a pending invitation, or one about to be made, is to a workspace that has
its owner and for somebody else (`Invited`, `Inviting`), so that no acceptance
can touch the owner; the other team operations refuse to by themselves.

*Provider registry.* A check that is under way works on what it read. `RowRead`
and `SecretRead` say that this is still what the row holds, unless somebody has
edited the provider since (`stale`); `Verified` that a check which found the
endpoint healthy has passed for that configuration and credential; `Wrote` that
a request of the settings page stores what it has checked. So a verdict that is
recorded while nothing was edited is about the row (`HealthVerified`), and one
that overlapped an edit puts the provider in doubt, which is all the property
excludes. The two action properties rest on `Allowed`: a request that has found
its row is about one of its own wallet's, or is a check of a built-in one, whose
verdict changes nothing because it is healthy already. Each of these parts must
survive the steps of every other request and of both pages (`Stays`).

*Views.* `ChannelKept` says that a channel is finalized once, by the handler that
holds it meanwhile, and what its row holds at each place of that handler. Under
it the three rules for the next action agree case by case, and each sum of the
transaction list is over no record or over one, whose amount is the one the
dashboard derives from the row. In particular the totals do not change between
the row's last write and the settlement row, nor when the handler dies there.

*Feed.* Two claims, by two arguments. `Exact` follows one request through its
statements as long as nothing else moves: what it has reported so far is what
the rows it has read give cause for, an open event is one it found a cause for
or one that is still to be resolved, so that in its answer an incident is open
exactly when its cause is there; that this cause is what dashboard and list show
(`ToldIsCause`) follows as for the views. The page takes rows away from that
answer, and only where it is full of rows that come first. No toast is repeated
because a version only gets newer on its way from the rows over the pending
upsert, the event and the answer to the bell (`InOrder`, `BellInOrder`), for as
long as the incident is on the page; this needs that no two requests overlap,
which is what `Separate` says of an undisturbed one.

### What is assumed

Each module's `...Assumption`, which TLC evaluates on its runs, and nothing else
(but `MaxRun < TTL` above). Most say of a constant that it is a set of numbers or
a set of records. Five say more. `ReservationsAssumption`: finitely many
providers. `RouteAssumption`: finitely many providers and
calls. `DeveloperAssumption`, `AccessAssumption` and `SceneAssumption` (of
`ProviderRegistry`): a scene is a state that the handlers may have left. That
is: keys have owners, failed deliveries belong to the wallet of their event,
workspaces have one owner, pending invitations are to others, and old sessions
have challenges that are spent; the built-in providers are the ones that the
migrations insert (demo, without an endpoint, healthy), and settings parse.
Rows that an older release may have left in `providers`, which `0004` keeps as
built-in ones, are not covered. The instances may have any number of wallets,
browsers, tabs and rows.

### Model-checked only

All liveness (`LeasesResolve`, `SealedIsDistributed`, `CallsEnd`,
`BellCatchesUp`), since liveness under fairness and `ENABLED` are out of the
reach of the installed provers. The library's induction
theorems take an operator as a parameter, which they cannot instantiate; where a
proof needs induction it names the set of numbers or subsets on which the claim
holds and takes a smallest element outside it. The theorems about `Console` are
about one provider, one task and one channel, as the module is.

## Plan

What is planned is checked and proved, up to these parts of the models:

1. the execution's loop over providers composed with the rows, so that work
   served can be compared with what the database remembers when a worker dies
   before `saveExecution`;
2. several providers and channels in `Console`, whose rows meet only on the
   page of the feed;
3. sandbox funding, and the window of the rate limit.

## Not modelled

Formatting, validation of request bodies beyond what decides a transition,
cryptography (Ed25519, sealing of secrets, the encoding of vouchers), the HTTP
402 exchange of the provider adapters, filters, further pages and analytics of
the read models, onboarding, the remaining pages (they show what the API returns),
migrations and maintenance scripts. Times that are only shown (last seen, last
used, updated) are left out. The rate limit is a refusal that may come at any
time. `PROJECT.json` lists every component with its status.
