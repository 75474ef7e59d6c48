---------------------------- MODULE TaskCreation ----------------------------
(***************************************************************************)
(* How tasks come into being and become active: POST /api/tasks and        *)
(* /api/v1/tasks, and the lifecycle route (submit, cancel, archive,         *)
(* duplicate, rerun), against account settings, policies and providers     *)
(* that change while a request is between two of its reads.  One wallet,   *)
(* one reusable policy.  A worker serves one request at a time.  A handler *)
(* that throws is answered, and that answer is stored under the idempotency *)
(* key; a worker that dies stores nothing, and the client's retry runs the  *)
(* handler again once the lease is over (both: MutationGuard).  Executions  *)
(* read a task long before they write its status, and their lock, which the *)
(* lifecycle route shares, may run out (and POST /api/demo takes none), so  *)
(* it is left out.  Amounts are left out: Reservations models what becomes  *)
(* of them.                                                                 *)
(***************************************************************************)
EXTENDS Integers, Sequences, FiniteSets

CONSTANTS
  Provider,      \* registered providers
  Builtin,       \* those of them that are system managed and have a runtime
  TaskId,        \* ids for tasks, which bounds their number
  Worker,        \* server workers
  Rules,         \* the rules policy versions may have
  Input,         \* the bodies of creation requests
  Kind,          \* the kinds of request that come in
  Unstable,      \* the providers that are disabled, enabled or fail health checks meanwhile
  Profiles,      \* the settings the account is switched between
  Executed,      \* the tasks that are executed meanwhile
  Faulty,        \* whether statements throw and workers die
  MaxVersions    \* bound on the versions of the policy

Environment == {"local", "devnet", "mainnet"}
Mode == {"deterministic", "x402"}
AllKinds == {"create", "submit", "cancel", "archive", "duplicate", "rerun"}

RuleType == [providers : SUBSET Provider, networks : SUBSET {"devnet", "mainnet"},
             mints : SUBSET {"USDC", "sandbox"}, protocols : SUBSET {"demo", "x402"}]

(* A creation request names a version of the policy, -1 for the latest one  *)
(* and 0 for an inline policy.                                              *)
InputType == [policy : Nat \cup {-1}, mode : Mode, providers : SUBSET Provider,
              override : SUBSET Provider, draft : BOOLEAN]

ASSUME TaskCreationAssumption ==
  /\ Builtin \subseteq Provider /\ Kind \subseteq AllKinds
  /\ TaskId \subseteq Nat /\ Rules \subseteq RuleType /\ Input \subseteq InputType
  /\ Unstable \subseteq Provider /\ Executed \subseteq TaskId
  /\ Profiles \subseteq [environment : Environment, mint : BOOLEAN]
  /\ Faulty \in BOOLEAN /\ MaxVersions \in Nat \ {0}

VARIABLES
  settings,   \* account_settings: environment, and whether defaultAssetMint is the sandbox mint
  policy,     \* reusable_policy_definitions and _versions
  available,  \* the providers that are enabled and healthy
  tasks,      \* tasks with their policies row and their workspace metadata
  execution,  \* of which tasks an execution is under way, and which have flows
  worker      \* the request each worker serves

vars == <<settings, policy, available, tasks, execution, worker>>

-----------------------------------------------------------------------------
TaskStatus == {"none", "draft", "active", "completed", "cancelled", "archived"}
Terminal == {"completed", "cancelled", "archived"}

(* source is the policy version a task was made from, 0 for an inline       *)
(* policy; names and tags are left out.                                     *)
NoTask == [status |-> "none", mode |-> "deterministic", source |-> 0, override |-> {},
           rules |-> [providers |-> {}, networks |-> {}, mints |-> {}, protocols |-> {}]]

Unread == [environment |-> "unread", mint |-> FALSE]

(* What a worker knows: its request, where it awaits, what it has read, and  *)
(* what was true at some moment since the request came in: which providers  *)
(* were available, whether the policy was active, and the policy's latest    *)
(* version at the start.                                                     *)
Idle == [pc |-> "idle", kind |-> "create", input |-> [policy |-> 0, mode |-> "deterministic",
           providers |-> {}, override |-> {}, draft |-> FALSE],
         id |-> 0, settings |-> Unread,
         task |-> NoTask, available |-> {}, live |-> FALSE, latest |-> 0]

(* Executions of a task: one that has checked the providers, one that has    *)
(* read it as active and not written it yet, and what is stored of earlier   *)
(* ones.  How many of them there are is left open.                           *)
NoExecution == [checked |-> {}, running |-> {}, flows |-> {}]

Init ==
  /\ settings \in Profiles
  /\ \E r \in Rules : policy = [status |-> "active", versions |-> <<r>>]
  /\ available = Provider
  /\ tasks = [t \in TaskId |-> NoTask]
  /\ execution = NoExecution
  /\ worker = [w \in Worker |-> Idle]

At(w, place) == worker[w].pc = place
Serving(w) == worker[w].pc \notin {"idle", "answered", "lost"}
Latest == Len(policy.versions)

(* What is left of a request: what the client asked.                        *)
Request(w, place) == [Idle EXCEPT !.pc = place, !.kind = worker[w].kind,
                                  !.input = worker[w].input, !.id = worker[w].id]

(* The request is over, with its result or with an error.                   *)
Answer(w) == worker' = [worker EXCEPT ![w] = Request(w, "answered")]

-----------------------------------------------------------------------------
(* A request comes in, or the client repeats one that was never answered.   *)
Witness(w, request) ==
  worker' = [worker EXCEPT ![w] = [request EXCEPT
    !.pc = IF request.kind = "create" THEN "settings" ELSE "task",
    !.available = available, !.live = policy.status = "active", !.latest = Latest]]

Receive(w) ==
  /\ At(w, "idle")
  /\ \E kind \in Kind, input \in Input, id \in TaskId :
       /\ kind = "create" \/ input = CHOOSE i \in Input : TRUE
       /\ kind # "create" \/ id = CHOOSE i \in TaskId : TRUE
       /\ Witness(w, [Idle EXCEPT !.kind = kind, !.input = input, !.id = id])
  /\ UNCHANGED <<settings, policy, available, tasks, execution>>

Retry(w) ==
  /\ At(w, "lost")
  /\ Witness(w, worker[w])
  /\ UNCHANGED <<settings, policy, available, tasks, execution>>

(* A statement throws after its transaction was rolled back.                *)
Throws(w) ==
  /\ Faulty /\ Serving(w)
  /\ Answer(w)
  /\ UNCHANGED <<settings, policy, available, tasks, execution>>

(* The worker dies before the answer is stored, or storing it throws.       *)
Dies(w) ==
  /\ Faulty /\ (Serving(w) \/ At(w, "answered"))
  /\ worker' = [worker EXCEPT ![w] = Request(w, "lost")]
  /\ UNCHANGED <<settings, policy, available, tasks, execution>>

(* The answer is stored under the key, and the worker takes other requests. *)
Answered(w) ==
  /\ At(w, "answered")
  /\ worker' = [worker EXCEPT ![w] = Idle]
  /\ UNCHANGED <<settings, policy, available, tasks, execution>>

-----------------------------------------------------------------------------
(* The runtime is devnet-only: nothing on mainnet, no chain locally.        *)
RuntimeSupports(s, mode) ==
  /\ s.environment # "mainnet"
  /\ s.environment = "local" => mode = "deterministic"

ReadSettings(w) ==
  /\ At(w, "settings")
  /\ IF RuntimeSupports(settings, worker[w].input.mode)
     THEN worker' = [worker EXCEPT ![w].pc = "policy", ![w].settings = settings]
     ELSE Answer(w)
  /\ UNCHANGED <<settings, policy, available, tasks, execution>>

ProtocolForMode(mode) == IF mode = "deterministic" THEN "demo" ELSE mode
EffectiveMint(mode) == IF mode = "x402" THEN "sandbox" ELSE "USDC"

(* normalizeMintAliases: "USDC" stands for the mint of the mode.            *)
NormalizeMints(mints, mode) ==
  {IF m = "USDC" THEN EffectiveMint(mode) ELSE m : m \in mints}

InlineRules(input) ==
  [providers |-> input.providers,
   networks |-> IF input.mode = "x402" THEN {"devnet"} ELSE {},
   mints |-> {EffectiveMint(input.mode)}, protocols |-> {ProtocolForMode(input.mode)}]

(* mergePolicyRules; of the overrides only the providers are modelled.      *)
Merged(rules, override) ==
  IF override = {} THEN rules ELSE [rules EXCEPT !.providers = override]

(* What resolveTaskPolicy and createTask ask of the rules alone.            *)
Executable(rules, mode) ==
  /\ ProtocolForMode(mode) \in rules.protocols
  /\ rules.mints = {} \/ EffectiveMint(mode) \in NormalizeMints(rules.mints, mode)
  /\ mode = "x402" => rules.networks = {} \/ "devnet" \in rules.networks
  /\ mode = "deterministic" => rules.networks = {}

(* assertTaskCompatibleWithSettings, on normalized mints.                   *)
CompatibleWithSettings(s, mode, rules) ==
  /\ s.environment = "mainnet" => mode # "deterministic" /\ "demo" \notin rules.protocols
  /\ rules.networks = {} \/ s.environment \in rules.networks
  /\ rules.mints = {} \/ "USDC" \in rules.mints \/ (s.mint /\ "sandbox" \in rules.mints)

(* The version a request names, else the latest; 0 is the inline policy.    *)
VersionOf(input) == IF input.policy = -1 THEN Latest ELSE input.policy

PolicyUsable(input) ==
  /\ VersionOf(input) \in 1..Latest
  /\ policy.status # "archived"

Drafted(w, source, rules) ==
  LET input == worker[w].input
      normal == [rules EXCEPT !.mints = NormalizeMints(@, input.mode)]
  IN  IF Executable(rules, input.mode) /\ CompatibleWithSettings(worker[w].settings, input.mode, normal)
      THEN worker' = [worker EXCEPT ![w].pc = "providers", ![w].task =
             [status |-> IF input.draft THEN "draft" ELSE "active", mode |-> input.mode,
              source |-> source, override |-> IF source = 0 THEN {} ELSE input.override,
              rules |-> normal]]
      ELSE Answer(w)

(* resolveTaskPolicy and assertTaskCompatibleWithSettings.                  *)
ResolvePolicy(w) ==
  /\ At(w, "policy")
  /\ LET input == worker[w].input IN
     \/ input.policy = 0 /\ Drafted(w, 0, InlineRules(input))
     \/ /\ input.policy # 0 /\ PolicyUsable(input)
        /\ Drafted(w, VersionOf(input),
                   Merged(policy.versions[VersionOf(input)], input.override))
     \/ input.policy # 0 /\ ~PolicyUsable(input) /\ Answer(w)
  /\ UNCHANGED <<settings, policy, available, tasks, execution>>

-----------------------------------------------------------------------------
(* assertTaskProvidersAvailable: selectable, of the task's mode and, unless  *)
(* the task is a draft, with a runtime.                                      *)
ModeCompatible(p, mode) == p \in Builtin \/ mode = "x402"

ProvidersAvailable(task, requireRuntime) ==
  \A p \in task.rules.providers :
    /\ p \in available /\ ModeCompatible(p, task.mode)
    /\ requireRuntime => p \in Builtin

CheckProviders(w) ==
  /\ At(w, "providers")
  /\ LET task == worker[w].task IN
     IF ProvidersAvailable(task, task.status = "active")
     THEN worker' = [worker EXCEPT ![w].pc = "insert"]
     ELSE Answer(w)
  /\ UNCHANGED <<settings, policy, available, tasks, execution>>

(* createTask: tasks, policies and channels in one transaction.  What it    *)
(* asks of the rules before repeats ResolvePolicy.                          *)
InsertTask(w) ==
  /\ At(w, "insert")
  /\ \E t \in {x \in TaskId : tasks[x].status = "none"} :
       /\ \A x \in TaskId : tasks[x].status = "none" => t <= x
       /\ tasks' = [tasks EXCEPT ![t] = worker[w].task]
       /\ worker' = [worker EXCEPT ![w].pc = "name"]
  /\ UNCHANGED <<settings, policy, available, execution>>

(* upsertMetadata, a statement of its own: the names of the task.           *)
NameTask(w) ==
  /\ At(w, "name")
  /\ Answer(w)
  /\ UNCHANGED <<settings, policy, available, tasks, execution>>

-----------------------------------------------------------------------------
(* The lifecycle route.                                                     *)
AllowedFrom(kind) ==
  CASE kind = "submit" -> {"draft"}
    [] kind = "cancel" -> {"draft", "active"}
    [] kind = "archive" -> {"draft", "completed", "cancelled"}
    [] kind = "rerun" -> Terminal
    [] OTHER -> TaskStatus \ {"none"}

NextStatus(kind) ==
  CASE kind = "submit" -> "active" [] kind = "cancel" -> "cancelled" [] OTHER -> "archived"

(* getTask, and what the handler does with the status it read.  A copy      *)
(* keeps rules and policy source of its original.                           *)
ReadTask(w) ==
  /\ At(w, "task")
  /\ LET kind == worker[w].kind
         task == tasks[worker[w].id]
         copy == [task EXCEPT !.status = IF kind = "rerun" THEN "active" ELSE "draft"]
     IN  IF task.status \notin AllowedFrom(kind) \ {"none"} THEN Answer(w)
         ELSE worker' = [worker EXCEPT
                ![w].pc = CASE kind \in {"cancel", "archive"} -> "status"
                            [] kind = "duplicate" -> "insert"
                            [] OTHER -> "check",
                ![w].task = IF kind \in {"rerun", "duplicate"} THEN copy ELSE task]
  /\ UNCHANGED <<settings, policy, available, tasks, execution>>

\* Mutant of CheckAgain: the check made at creation is trusted.
CheckAgainTrusting(w) ==
  /\ At(w, "check")
  /\ worker' = [worker EXCEPT ![w].pc = IF worker[w].kind = "rerun" THEN "insert" ELSE "status"]
  /\ UNCHANGED <<settings, policy, available, tasks, execution>>

(* submit and rerun check the providers again.                              *)
CheckAgain(w) ==
  /\ At(w, "check")
  /\ IF ProvidersAvailable(worker[w].task, TRUE)
     THEN worker' = [worker EXCEPT ![w].pc =
                       IF worker[w].kind = "rerun" THEN "insert" ELSE "status"]
     ELSE Answer(w)
  /\ UNCHANGED <<settings, policy, available, tasks, execution>>

\* Mutant of SetStatus: the UPDATE names no expected statuses.
SetStatusAnyway(w) ==
  /\ At(w, "status")
  /\ tasks' = [tasks EXCEPT ![worker[w].id].status = NextStatus(worker[w].kind)]
  /\ Answer(w)
  /\ UNCHANGED <<settings, policy, available, execution>>

(* The conditional UPDATE of setStatus.                                     *)
SetStatus(w) ==
  /\ At(w, "status")
  /\ LET id == worker[w].id IN
     \/ /\ tasks[id].status \in AllowedFrom(worker[w].kind)
        /\ tasks' = [tasks EXCEPT ![id].status = NextStatus(worker[w].kind)]
        /\ Answer(w)
     \/ /\ tasks[id].status \notin AllowedFrom(worker[w].kind)
        /\ Answer(w) /\ UNCHANGED tasks
  /\ UNCHANGED <<settings, policy, available, execution>>

-----------------------------------------------------------------------------
(* Executions, of the calls and amounts of which RouteOrchestrator tells.   *)

(* The execute routes check the providers of the task they loaded.          *)
CheckExecution(t) ==
  /\ t \in Executed \ (execution.checked \cup execution.running)
  /\ tasks[t].status # "none"
  /\ ProvidersAvailable(tasks[t], TRUE)
  /\ execution' = [execution EXCEPT !.checked = @ \cup {t}]
  /\ UNCHANGED <<settings, policy, available, tasks, worker>>

\* Mutant of BeginExecution: the status the route has loaded is trusted.
BeginUnread(t) ==
  /\ t \in execution.checked /\ t \notin execution.flows
  /\ execution' = [execution EXCEPT !.checked = @ \ {t}, !.running = @ \cup {t}]
  /\ UNCHANGED <<settings, policy, available, tasks, worker>>

(* executeTask: the task is active and has no execution history.            *)
BeginExecution(t) ==
  /\ t \in execution.checked
  /\ tasks[t].status = "active" /\ t \notin execution.flows
  /\ execution' = [execution EXCEPT !.checked = @ \ {t}, !.running = @ \cup {t}]
  /\ UNCHANGED <<settings, policy, available, tasks, worker>>

(* saveExecution, whatever the status is by now: "completed", or "active"    *)
(* again when a provider failed, perhaps before there was a flow.  Another   *)
(* execution that has read the task too may still be under way.              *)
SaveExecution(t) ==
  /\ t \in execution.running
  /\ \E status \in {"active", "completed"}, last \in BOOLEAN, recorded \in BOOLEAN :
       /\ status = "completed" => recorded
       /\ tasks' = [tasks EXCEPT ![t].status = status]
       /\ execution' = [execution EXCEPT
            !.running = IF last THEN @ \ {t} ELSE @,
            !.flows = IF recorded THEN @ \cup {t} ELSE @]
  /\ UNCHANGED <<settings, policy, available, worker>>

(* One is refused, throws, or dies, before it saves.                        *)
EndExecution(t) ==
  /\ \/ t \in execution.checked /\ execution' = [execution EXCEPT !.checked = @ \ {t}]
     \/ t \in execution.running /\ execution' = [execution EXCEPT !.running = @ \ {t}]
  /\ UNCHANGED <<settings, policy, available, tasks, worker>>

Execute(t) ==
  CheckExecution(t) \/ BeginExecution(t) \/ SaveExecution(t) \/ EndExecution(t)

-----------------------------------------------------------------------------
(* What other requests change meanwhile.                                    *)
SaveSettings ==
  /\ \E s \in Profiles : settings' = s
  /\ UNCHANGED <<policy, available, tasks, execution, worker>>

\* Mutant of UpdatePolicy: the latest version is rewritten.
RewritePolicy ==
  /\ policy.status = "active"
  /\ \E r \in Rules : policy' = [policy EXCEPT !.versions[Latest] = r]
  /\ UNCHANGED <<settings, available, tasks, execution, worker>>

(* Rules change by a new version, under the row lock of the definition.     *)
UpdatePolicy ==
  /\ policy.status = "active" /\ Latest < MaxVersions
  /\ \E r \in Rules : policy' = [policy EXCEPT !.versions = Append(@, r)]
  /\ UNCHANGED <<settings, available, tasks, execution, worker>>

ArchivePolicy ==
  /\ policy' = [policy EXCEPT !.status = "archived"]
  /\ UNCHANGED <<settings, available, tasks, execution, worker>>

(* A provider is disabled, enabled or found (un)healthy.                    *)
ChangeProvider ==
  /\ \E p \in Unstable :
       available' = IF p \in available THEN available \ {p} ELSE available \cup {p}
  /\ worker' = [w \in Worker |->
                   IF Serving(w) THEN [worker[w] EXCEPT !.available = @ \cup available'] ELSE worker[w]]
  /\ UNCHANGED <<settings, policy, tasks, execution>>

Serve(w) ==
  \/ Receive(w) \/ Retry(w) \/ Throws(w) \/ Dies(w) \/ Answered(w)
  \/ ReadSettings(w) \/ ResolvePolicy(w) \/ CheckProviders(w)
  \/ InsertTask(w) \/ NameTask(w)
  \/ ReadTask(w) \/ CheckAgain(w) \/ SetStatus(w)

Next ==
  \/ \E w \in Worker : Serve(w)
  \/ \E t \in TaskId : Execute(t)
  \/ SaveSettings \/ UpdatePolicy \/ ArchivePolicy \/ ChangeProvider

Spec == Init /\ [][Next]_vars

-----------------------------------------------------------------------------
(* The tables and the workers hold what their types allow.                  *)
TypeOK ==
  /\ settings \in [environment : Environment, mint : BOOLEAN]
  /\ policy.status \in {"active", "archived"}
  /\ policy.versions \in Seq(RuleType) /\ Latest \in 1..MaxVersions
  /\ available \subseteq Provider
  /\ \A t \in TaskId :
       /\ tasks[t].status \in TaskStatus /\ tasks[t].mode \in Mode
       /\ tasks[t].source \in 0..Latest /\ tasks[t].override \subseteq Provider
       /\ tasks[t].rules \in RuleType
  /\ execution \in [checked : SUBSET TaskId, running : SUBSET TaskId, flows : SUBSET TaskId]
  /\ \A w \in Worker :
       /\ worker[w].pc \in {"idle", "settings", "policy", "providers", "insert", "name",
                             "task", "check", "status", "answered", "lost"}
       /\ worker[w].task.rules \in RuleType
       /\ worker[w].latest \in 0..Latest

Inserts(w, t) ==
  At(w, "insert") /\ worker'[w].pc = "name" /\ tasks[t].status = "none" /\ tasks'[t].status # "none"
Activates(w, t) ==
  \/ Inserts(w, t)
  \/ At(w, "status") /\ worker'[w].pc = "answered" /\ worker[w].id = t

(* However settings, policies and providers change between the reads of a   *)
(* request, a task becomes active only with providers the runner can        *)
(* execute: by creation, submit or rerun, through a request during which    *)
(* each of them was available at some moment (provider-selection.ts:30), or *)
(* because an execution that found it active, after the same check, failed  *)
(* and wrote that back.                                                     *)
ActiveTasksWerePermitted ==
  [][\A t \in TaskId : (tasks[t].status # "active" /\ tasks'[t].status = "active") =>
       /\ tasks'[t].rules.providers \subseteq Builtin
       /\ \/ t \in execution.running
          \/ \E w \in Worker : /\ Activates(w, t)
                               /\ tasks'[t].rules.providers \subseteq worker[w].available]_vars

(* A creation request uses a version of a policy only if the policy was not *)
(* archived when the request came in, and one that names no version never   *)
(* gets an older one than the latest of that moment (task-policy.ts:48).    *)
ArchivedPoliciesStayUnused ==
  [][\A w \in Worker, t \in TaskId :
       (Inserts(w, t) /\ worker[w].kind = "create" /\ tasks'[t].source > 0) =>
          /\ worker[w].live
          /\ worker[w].input.policy = -1 => tasks'[t].source >= worker[w].latest]_vars

(* The checks of a request still count when it writes: of the providers and *)
(* of the policy.                                                           *)
CreationsArePermitted == ActiveTasksWerePermitted /\ ArchivedPoliciesStayUnused

(* The rules of a task stay those of the policy version it names, with the  *)
(* task's own overrides, through edits and archival of the policy, and in   *)
(* every copy and rerun of the task ("immutable policy snapshots").         *)
SnapshotsAreImmutable ==
  \A t \in TaskId : (tasks[t].status # "none" /\ tasks[t].source > 0) =>
    LET rules == Merged(policy.versions[tasks[t].source], tasks[t].override)
    IN  tasks[t].rules = [rules EXCEPT !.mints = NormalizeMints(@, tasks[t].mode)]

(* Whatever comes between the read and the write of a request, requests      *)
(* move a task only forward through its life (tasks.ts:174), and only the    *)
(* end of an execution that is under way moves it back.                      *)
Moves == {<<"none", "draft">>, <<"none", "active">>, <<"draft", "active">>,
          <<"draft", "cancelled">>, <<"active", "cancelled">>, <<"active", "completed">>}
         \cup {<<from, "archived">> : from \in {"draft", "completed", "cancelled"}}

OnlyExecutionsGoBack ==
  [][\A t \in TaskId : tasks'[t].status # tasks[t].status =>
       \/ <<tasks[t].status, tasks'[t].status>> \in Moves
       \/ t \in execution.running /\ tasks'[t].status \in {"active", "completed"}]_vars

(* A task at its end that no execution is writing about stays at an end, and *)
(* is executed no more: what cancel and archive can be undone by is an       *)
(* execution that had begun before (service.ts:259, postgres.ts:401).        *)
EndsAreFinal ==
  [][\A t \in TaskId : (tasks[t].status \in Terminal /\ t \notin execution.running) =>
       tasks'[t].status \in Terminal /\ t \notin execution'.running]_vars

(* The life of a task, against executions that end late.                     *)
LifecycleIsFollowed == OnlyExecutionsGoBack /\ EndsAreFinal

(* What the lifecycle alone would give, and executions that end late do not: *)
(* a task that was cancelled or archived is not active again.                *)
CancelledStaysCancelled ==
  [][\A t \in TaskId : tasks[t].status \in {"cancelled", "archived"} =>
       tasks'[t].status \in {"cancelled", "archived"}]_vars

(* Under the mainnet profile a request makes a task only if it had read      *)
(* other settings before (README.md:60: creation is blocked on mainnet).    *)
CreationBlockedOnMainnet ==
  [][\A w \in Worker, t \in TaskId :
       Inserts(w, t) /\ settings.environment = "mainnet"
         => worker[w].settings.environment \in {"local", "devnet"}]_vars
=============================================================================
