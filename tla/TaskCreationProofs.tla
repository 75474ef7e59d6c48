-------------------------- MODULE TaskCreationProofs --------------------------
(***************************************************************************)
(* Proofs about TaskCreation for any providers, policies, requests,        *)
(* executions and workers, with faults or without: what a request checked  *)
(* still counts when it writes, what was written stays what it was made     *)
(* from, and only an execution under way takes a task back from an end.     *)
(***************************************************************************)
EXTENDS TaskCreation, TLAPS

-----------------------------------------------------------------------------
(* Types. *)

Busy == {"settings", "policy", "providers", "insert", "name", "task", "check", "status"}
Place == {"idle", "answered", "lost"} \cup Busy

PolicyType == [status : {"active", "archived"}, versions : Seq(RuleType)]
TaskType == [status : TaskStatus, mode : Mode, source : Nat, override : SUBSET Provider,
             rules : RuleType]
ReadType == [environment : Environment \cup {"unread"}, mint : BOOLEAN]
WorkerType == [pc : Place, kind : AllKinds, input : InputType, id : Nat, settings : ReadType,
               task : TaskType, available : SUBSET Provider, live : BOOLEAN, latest : Nat]

ExecutionType == [checked : SUBSET TaskId, running : SUBSET TaskId, flows : SUBSET TaskId]

Typed ==
  /\ settings \in [environment : Environment, mint : BOOLEAN]
  /\ policy \in PolicyType /\ Latest \in 1..MaxVersions
  /\ available \subseteq Provider
  /\ tasks \in [TaskId -> TaskType]
  /\ execution \in ExecutionType
  /\ worker \in [Worker -> WorkerType]

-----------------------------------------------------------------------------
(* The inductive invariant. *)

\* The rules a task has by the version it names, with its own overrides.
Snapshot(task) ==
  task.source > 0 =>
    /\ task.source \in 1..Latest
    /\ LET rules == Merged(policy.versions[task.source], task.override)
       IN  task.rules = [rules EXCEPT !.mints = NormalizeMints(@, task.mode)]
Snapshots == \A t \in TaskId : Snapshot(tasks[t])

\* The task a request read is still there, with the rules it read.
Same(r) == tasks[r.id].status # "none" /\ tasks[r.id].rules = r.task.rules

\* Each provider was available at some moment of the request, and can run.
Permitted(r) == r.task.rules.providers \subseteq r.available \cap Builtin

\* What a request that is under way was shown.
Witnessed(r) ==
  /\ r.latest <= Latest
  /\ r.pc # "idle" => r.id \in TaskId
  /\ r.pc \in Busy => available \subseteq r.available /\ (policy.status = "active" => r.live = TRUE)

\* What it has checked before it writes.
Checked(r) ==
  /\ r.pc \in {"settings", "policy", "providers"} => r.kind = "create"
  /\ r.pc = "task" => r.kind # "create"
  /\ r.pc = "check" => \/ r.kind = "submit" /\ Same(r)
                       \/ r.kind = "rerun" /\ r.task.status = "active"
  /\ r.pc = "status" => \/ r.kind \in {"cancel", "archive"}
                        \/ r.kind = "submit" /\ Same(r) /\ Permitted(r)
  /\ r.pc \in {"providers", "insert"} =>
       /\ r.task.status \in {"draft", "active"}
       /\ (r.kind = "create" /\ r.task.source > 0) =>
            r.live = TRUE /\ (r.input.policy = -1 => r.latest <= r.task.source)
  /\ r.pc = "insert" /\ r.task.status = "active" => Permitted(r)

Sound(r) == Witnessed(r) /\ Checked(r) /\ Snapshot(r.task)
Requests == \A w \in Worker : Sound(worker[w])

\* An execution under way is of a task whose providers can all run.
Runnable(task) == task.status # "none" /\ task.rules.providers \subseteq Builtin
Executions == \A t \in execution.checked \cup execution.running : Runnable(tasks[t])

TaskInv == Typed /\ Snapshots /\ Requests /\ Executions

-----------------------------------------------------------------------------
(* What a step does to the tables. *)

\* The statements that write tasks.
LEMMA TasksStep ==
  ASSUME [Next]_vars
  PROVE  \/ UNCHANGED tasks
         \/ \E w \in Worker : InsertTask(w) \/ SetStatus(w)
         \/ \E t \in TaskId : SaveExecution(t)
<1> DEFINE Goal == \/ UNCHANGED tasks
                   \/ \E w \in Worker : InsertTask(w) \/ SetStatus(w)
                   \/ \E t \in TaskId : SaveExecution(t)
<1> SUFFICES Goal
  OBVIOUS
<1>1. ASSUME NEW w \in Worker,
             Receive(w) \/ Retry(w) \/ Throws(w)
             \/ Dies(w) \/ Answered(w) \/ ReadSettings(w) \/ ResolvePolicy(w)
             \/ CheckProviders(w) \/ NameTask(w) \/ ReadTask(w) \/ CheckAgain(w)
      PROVE  UNCHANGED tasks
  BY <1>1 DEF Receive, Retry, Throws, Dies, Answered, ReadSettings,
    ResolvePolicy, CheckProviders, NameTask, ReadTask, CheckAgain
<1>2. ASSUME SaveSettings
      PROVE  UNCHANGED tasks
  BY <1>2 DEF SaveSettings
<1>3. ASSUME UpdatePolicy
      PROVE  UNCHANGED tasks
  BY <1>3 DEF UpdatePolicy
<1>4. ASSUME ArchivePolicy
      PROVE  UNCHANGED tasks
  BY <1>4 DEF ArchivePolicy
<1>5. ASSUME ChangeProvider
      PROVE  UNCHANGED tasks
  BY <1>5 DEF ChangeProvider
<1>6. UNCHANGED vars => UNCHANGED tasks
  BY DEF vars
<1>7. UNCHANGED tasks => Goal
  OBVIOUS
<1>8. ASSUME NEW w \in Worker, InsertTask(w)
      PROVE  Goal
  BY <1>8
<1>9. ASSUME NEW w \in Worker, SetStatus(w)
      PROVE  Goal
  BY <1>9
<1>10. ASSUME NEW t \in TaskId, SaveExecution(t)
      PROVE  Goal
  BY <1>10
<1>12. ASSUME NEW t \in TaskId, CheckExecution(t) \/ BeginExecution(t) \/ EndExecution(t)
      PROVE  UNCHANGED tasks
  BY <1>12 DEF CheckExecution, BeginExecution, EndExecution
<1> HIDE DEF Goal
<1>11. ASSUME NEW w \in Worker, Serve(w)
      PROVE  Goal
  BY <1>11, <1>7, <1>1, <1>8, <1>9 DEF Serve
<1>13. ASSUME NEW t \in TaskId, Execute(t)
      PROVE  Goal
  BY <1>13, <1>7, <1>10, <1>12 DEF Execute
<1> QED
  BY <1>6, <1>7, <1>11, <1>2, <1>3, <1>4, <1>5, <1>13 DEF Next

\* The statements that write the policy and its versions.
LEMMA PolicyStep ==
  ASSUME [Next]_vars
  PROVE  \/ UNCHANGED policy
         \/ UpdatePolicy
         \/ ArchivePolicy
<1> DEFINE Goal == \/ UNCHANGED policy
                   \/ UpdatePolicy
                   \/ ArchivePolicy
<1> SUFFICES Goal
  OBVIOUS
<1>1. ASSUME NEW w \in Worker,
             Receive(w) \/ Retry(w) \/ Throws(w)
             \/ Dies(w) \/ Answered(w) \/ ReadSettings(w) \/ ResolvePolicy(w)
             \/ CheckProviders(w) \/ InsertTask(w) \/ NameTask(w) \/ ReadTask(w)
             \/ CheckAgain(w) \/ SetStatus(w)
      PROVE  UNCHANGED policy
  BY <1>1 DEF Receive, Retry, Throws, Dies, Answered, ReadSettings,
    ResolvePolicy, CheckProviders, InsertTask, NameTask, ReadTask, CheckAgain,
    SetStatus
<1>2. ASSUME SaveSettings
      PROVE  UNCHANGED policy
  BY <1>2 DEF SaveSettings
<1>3. ASSUME ChangeProvider
      PROVE  UNCHANGED policy
  BY <1>3 DEF ChangeProvider
<1>4. ASSUME NEW t \in TaskId, Execute(t)
      PROVE  UNCHANGED policy
  BY <1>4 DEF Execute, CheckExecution, BeginExecution, SaveExecution, EndExecution
<1>5. UNCHANGED vars => UNCHANGED policy
  BY DEF vars
<1>6. UNCHANGED policy => Goal
  OBVIOUS
<1>7. ASSUME UpdatePolicy
      PROVE  Goal
  BY <1>7
<1>8. ASSUME ArchivePolicy
      PROVE  Goal
  BY <1>8
<1> HIDE DEF Goal
<1>9. ASSUME NEW w \in Worker, Serve(w)
      PROVE  Goal
  BY <1>9, <1>6, <1>1 DEF Serve
<1> QED
  BY <1>5, <1>6, <1>9, <1>2, <1>7, <1>8, <1>3, <1>4 DEF Next

\* What makes a provider selectable, or not.
LEMMA AvailableStep ==
  ASSUME [Next]_vars
  PROVE  \/ UNCHANGED available
         \/ ChangeProvider
<1> DEFINE Goal == \/ UNCHANGED available
                   \/ ChangeProvider
<1> SUFFICES Goal
  OBVIOUS
<1>1. ASSUME NEW w \in Worker,
             Receive(w) \/ Retry(w) \/ Throws(w)
             \/ Dies(w) \/ Answered(w) \/ ReadSettings(w) \/ ResolvePolicy(w)
             \/ CheckProviders(w) \/ InsertTask(w) \/ NameTask(w) \/ ReadTask(w)
             \/ CheckAgain(w) \/ SetStatus(w)
      PROVE  UNCHANGED available
  BY <1>1 DEF Receive, Retry, Throws, Dies, Answered, ReadSettings,
    ResolvePolicy, CheckProviders, InsertTask, NameTask, ReadTask, CheckAgain,
    SetStatus
<1>2. ASSUME SaveSettings
      PROVE  UNCHANGED available
  BY <1>2 DEF SaveSettings
<1>3. ASSUME UpdatePolicy
      PROVE  UNCHANGED available
  BY <1>3 DEF UpdatePolicy
<1>4. ASSUME ArchivePolicy
      PROVE  UNCHANGED available
  BY <1>4 DEF ArchivePolicy
<1>5. ASSUME NEW t \in TaskId, Execute(t)
      PROVE  UNCHANGED available
  BY <1>5 DEF Execute, CheckExecution, BeginExecution, SaveExecution, EndExecution
<1>6. UNCHANGED vars => UNCHANGED available
  BY DEF vars
<1>7. UNCHANGED available => Goal
  OBVIOUS
<1>8. ASSUME ChangeProvider
      PROVE  Goal
  BY <1>8
<1> HIDE DEF Goal
<1>9. ASSUME NEW w \in Worker, Serve(w)
      PROVE  Goal
  BY <1>9, <1>7, <1>1 DEF Serve
<1> QED
  BY <1>6, <1>7, <1>9, <1>2, <1>3, <1>4, <1>8, <1>5 DEF Next

-----------------------------------------------------------------------------
(* Rules. *)

\* What policies, requests and settings make of rules are rules.
LEMMA RulesTyped ==
  /\ \A rules \in RuleType, override \in SUBSET Provider : Merged(rules, override) \in RuleType
  /\ \A rules \in RuleType, mode \in Mode :
       [rules EXCEPT !.mints = NormalizeMints(rules.mints, mode)] \in RuleType
  /\ \A input \in InputType : InlineRules(input) \in RuleType
<1>1. ASSUME NEW rules \in RuleType, NEW override \in SUBSET Provider
      PROVE  Merged(rules, override) \in RuleType
  BY DEF Merged, RuleType
<1>2. ASSUME NEW mints \in SUBSET {"USDC", "sandbox"}, NEW mode \in Mode
      PROVE  NormalizeMints(mints, mode) \in SUBSET {"USDC", "sandbox"}
  BY DEF NormalizeMints, EffectiveMint
<1>3. ASSUME NEW rules \in RuleType, NEW mode \in Mode
      PROVE  [rules EXCEPT !.mints = NormalizeMints(rules.mints, mode)] \in RuleType
  <2>1. NormalizeMints(rules.mints, mode) \in SUBSET {"USDC", "sandbox"}
    BY <1>2 DEF RuleType
  <2> QED
    BY <2>1 DEF RuleType
<1>4. ASSUME NEW input \in InputType PROVE InlineRules(input) \in RuleType
  <2>1. /\ input.providers \in SUBSET Provider
        /\ (IF input.mode = "x402" THEN {"devnet"} ELSE {}) \in SUBSET {"devnet", "mainnet"}
        /\ {EffectiveMint(input.mode)} \in SUBSET {"USDC", "sandbox"}
        /\ {ProtocolForMode(input.mode)} \in SUBSET {"demo", "x402"}
    BY DEF InputType, EffectiveMint, ProtocolForMode, Mode
  <2> QED
    BY <2>1 DEF InlineRules, RuleType
<1> QED
  BY <1>1, <1>3, <1>4

\* Versions are added and never rewritten; an archived policy stays archived.
LEMMA PolicyChanges ==
  ASSUME Typed, [Next]_vars
  PROVE  /\ policy' \in PolicyType /\ Latest' \in 1..MaxVersions /\ Latest <= Latest'
         /\ \A i \in 1..Latest : i \in 1..Latest' /\ policy'.versions[i] = policy.versions[i]
         /\ policy'.status = "active" => policy.status = "active"
<1>1. /\ policy \in PolicyType /\ Latest \in 1..MaxVersions /\ MaxVersions \in Nat
      /\ policy.versions \in Seq(RuleType) /\ Latest = Len(policy.versions)
      /\ policy.status \in {"active", "archived"} /\ Latest' = Len(policy'.versions)
  BY TaskCreationAssumption DEF Typed, PolicyType, Latest
<1>2. CASE UNCHANGED policy
  BY <1>1, <1>2
<1>3. CASE UpdatePolicy
  <2>1. PICK r \in Rules : policy' = [policy EXCEPT !.versions = Append(@, r)]
    BY <1>3 DEF UpdatePolicy
  <2>2. r \in RuleType /\ Latest < MaxVersions
    BY <1>3, TaskCreationAssumption DEF UpdatePolicy
  <2>3. policy'.versions = Append(policy.versions, r) /\ policy'.status = policy.status
    BY <1>1, <2>1 DEF PolicyType
  <2>4. /\ Append(policy.versions, r) \in Seq(RuleType)
        /\ Len(policy'.versions) = Len(policy.versions) + 1
        /\ \A i \in 1..Len(policy.versions) : policy'.versions[i] = policy.versions[i]
    BY <1>1, <2>2, <2>3
  <2>5. policy' \in PolicyType
    BY <1>1, <2>1, <2>4 DEF PolicyType
  <2> QED
    BY <1>1, <2>2, <2>3, <2>4, <2>5
<1>4. CASE ArchivePolicy
  <2>1. policy' = [policy EXCEPT !.status = "archived"]
    BY <1>4 DEF ArchivePolicy
  <2>2. policy' \in PolicyType /\ policy'.status = "archived" /\ policy'.versions = policy.versions
    BY <1>1, <2>1 DEF PolicyType
  <2> QED
    BY <1>1, <2>2
<1> QED
  BY <1>2, <1>3, <1>4, PolicyStep

\* So a snapshot stays one.
LEMMA SnapshotStays ==
  ASSUME Typed, [Next]_vars, NEW task \in TaskType, Snapshot(task)
  PROVE  Snapshot(task)'
<1>1. CASE task.source > 0
  <2>1. task.source \in 1..Latest' /\ policy'.versions[task.source] = policy.versions[task.source]
    BY <1>1, PolicyChanges DEF Snapshot
  <2> QED
    BY <1>1, <2>1 DEF Snapshot
<1>2. CASE ~(task.source > 0)
  BY <1>2 DEF Snapshot
<1> QED
  BY <1>1, <1>2

-----------------------------------------------------------------------------
(* What a step does to a task. *)

\* A move of the lifecycle, or the end of an execution under way.
MayMove(t, from, to) ==
  \/ <<from, to>> \in Moves
  \/ t \in execution.running /\ to \in {"active", "completed"}

TaskMoves(t) ==
  /\ tasks'[t] \in TaskType /\ Snapshot(tasks'[t])
  /\ tasks[t].status # "none" => tasks'[t].status # "none" /\ tasks'[t].rules = tasks[t].rules
  /\ tasks'[t].status # tasks[t].status => MayMove(t, tasks[t].status, tasks'[t].status)

\* Whatever is done to the tasks, every one of them moves as it may.
LEMMA TaskChanges ==
  ASSUME TaskInv, [Next]_vars
  PROVE  tasks' \in [TaskId -> TaskType] /\ \A t \in TaskId : TaskMoves(t)
<1> DEFINE Goal == tasks' \in [TaskId -> TaskType] /\ \A t \in TaskId : TaskMoves(t)
<1> SUFFICES Goal
  OBVIOUS
<1>0. /\ tasks \in [TaskId -> TaskType] /\ \A t \in TaskId : tasks[t] \in TaskType /\ Snapshot(tasks[t])
      /\ \A w \in Worker : worker[w] \in WorkerType /\ Sound(worker[w])
  BY DEF TaskInv, Typed, Snapshots, Requests
<1>1. ASSUME NEW t \in TaskId, NEW n \in TaskType, tasks' = [tasks EXCEPT ![t] = n], Snapshot(n),
             tasks[t].status # "none" => n.status # "none" /\ n.rules = tasks[t].rules,
             MayMove(t, tasks[t].status, n.status)
      PROVE  Goal
  <2>1. tasks' \in [TaskId -> TaskType]
    BY <1>0, <1>1
  <2>2. ASSUME NEW x \in TaskId PROVE TaskMoves(x)
    <3>1. CASE x = t
      <4>1. tasks'[x] = n
        BY <1>0, <1>1, <3>1
      <4> QED
        BY <1>1, <3>1, <4>1 DEF TaskMoves
    <3>2. CASE x # t
      <4>1. tasks'[x] = tasks[x]
        BY <1>0, <1>1, <3>2
      <4> QED
        BY <1>0, <4>1 DEF TaskMoves
    <3> QED
      BY <3>1, <3>2
  <2> QED
    BY <2>1, <2>2
\* One status moves on.
<1>2. ASSUME NEW t \in TaskId, NEW status \in TaskStatus, tasks' = [tasks EXCEPT ![t].status = status],
             MayMove(t, tasks[t].status, status), status # "none"
      PROVE  Goal
  <2> DEFINE n == [tasks[t] EXCEPT !.status = status]
  <2>1. tasks' = [tasks EXCEPT ![t] = n]
    BY <1>2
  <2>2. n \in TaskType /\ n.status = status /\ n.source = tasks[t].source /\ n.mode = tasks[t].mode
        /\ n.override = tasks[t].override /\ n.rules = tasks[t].rules
    BY <1>0 DEF TaskType
  <2> HIDE DEF n
  <2>3. Snapshot(n)
    BY <1>0, <2>2 DEF Snapshot
  <2> HIDE DEF Goal
  <2> QED
    BY <1>1, <1>2, <2>1, <2>2, <2>3
<1>3. ASSUME NEW w \in Worker, InsertTask(w) PROVE Goal
  <2>1. PICK t \in TaskId : tasks[t].status = "none" /\ tasks' = [tasks EXCEPT ![t] = worker[w].task]
    BY <1>3 DEF InsertTask
  <2>2. worker[w].task \in TaskType /\ Snapshot(worker[w].task)
        /\ worker[w].task.status \in {"draft", "active"}
    BY <1>0, <1>3 DEF InsertTask, At, WorkerType, Sound, Checked
  <2>3. MayMove(t, tasks[t].status, worker[w].task.status)
    BY <2>1, <2>2 DEF MayMove, Moves
  <2> HIDE DEF Goal
  <2> QED
    BY <1>1, <2>1, <2>2, <2>3
<1>4. ASSUME NEW w \in Worker, SetStatus(w) PROVE Goal
  <2>1. CASE UNCHANGED tasks
    BY <1>0, <2>1 DEF TaskMoves
  <2>2. CASE /\ tasks[worker[w].id].status \in AllowedFrom(worker[w].kind)
             /\ tasks' = [tasks EXCEPT ![worker[w].id].status = NextStatus(worker[w].kind)]
    <3> DEFINE id == worker[w].id
               kind == worker[w].kind
    <3>1. id \in TaskId /\ kind \in {"submit", "cancel", "archive"}
      BY <1>0, <1>4 DEF SetStatus, At, Sound, Witnessed, Checked
    <3>2. CASE kind = "submit"
      <4>1. NextStatus(kind) = "active" /\ AllowedFrom(kind) = {"draft"}
        BY <3>2 DEF NextStatus, AllowedFrom
      <4>2. tasks[id].status = "draft" /\ tasks' = [tasks EXCEPT ![id].status = "active"]
        BY <2>2, <4>1
      <4>3. "active" \in TaskStatus /\ MayMove(id, "draft", "active")
        BY DEF TaskStatus, MayMove, Moves
      <4> HIDE DEF Goal, id
      <4> QED
        BY <1>2, <3>1, <4>2, <4>3
    <3>3. CASE kind = "cancel"
      <4>1. NextStatus(kind) = "cancelled" /\ AllowedFrom(kind) = {"draft", "active"}
        BY <3>3 DEF NextStatus, AllowedFrom
      <4>2. tasks[id].status \in {"draft", "active"} /\ tasks' = [tasks EXCEPT ![id].status = "cancelled"]
        BY <2>2, <4>1
      <4>3. "cancelled" \in TaskStatus /\ MayMove(id, tasks[id].status, "cancelled")
        BY <4>2 DEF TaskStatus, MayMove, Moves
      <4> HIDE DEF Goal, id
      <4> QED
        BY <1>2, <3>1, <4>2, <4>3
    <3>4. CASE kind = "archive"
      <4>1. NextStatus(kind) = "archived" /\ AllowedFrom(kind) = {"draft", "completed", "cancelled"}
        BY <3>4 DEF NextStatus, AllowedFrom
      <4>2. tasks[id].status \in {"draft", "completed", "cancelled"}
            /\ tasks' = [tasks EXCEPT ![id].status = "archived"]
        BY <2>2, <4>1
      <4>3. "archived" \in TaskStatus /\ MayMove(id, tasks[id].status, "archived")
        BY <4>2 DEF TaskStatus, MayMove, Moves
      <4> HIDE DEF Goal, id
      <4> QED
        BY <1>2, <3>1, <4>2, <4>3
    <3> QED
      BY <3>1, <3>2, <3>3, <3>4
  <2> QED
    BY <1>4, <2>1, <2>2 DEF SetStatus
<1>5. ASSUME NEW t \in TaskId, SaveExecution(t) PROVE Goal
  <2>1. PICK status \in {"active", "completed"} : tasks' = [tasks EXCEPT ![t].status = status]
    BY <1>5 DEF SaveExecution
  <2>2. status \in TaskStatus /\ status # "none" /\ MayMove(t, tasks[t].status, status)
    BY <1>5 DEF SaveExecution, TaskStatus, MayMove
  <2> HIDE DEF Goal
  <2> QED
    BY <1>2, <2>1, <2>2
<1>6. ASSUME UNCHANGED tasks PROVE Goal
  BY <1>0, <1>6 DEF TaskMoves
<1> HIDE DEF Goal
<1> QED
  BY <1>3, <1>4, <1>5, <1>6, TasksStep

-----------------------------------------------------------------------------
(* What a step does to the executions. *)

\* An execution gets under way only of a task that is active and can run.
LEMMA ExecutionChanges ==
  ASSUME TaskInv, [Next]_vars
  PROVE  /\ execution' \in ExecutionType
         /\ \A t \in TaskId :
              /\ t \in execution'.running => t \in execution.running \/ tasks[t].status = "active"
              /\ t \in execution'.checked \cup execution'.running =>
                   t \in execution.checked \cup execution.running \/ Runnable(tasks[t])
<1> DEFINE Goal ==
  /\ execution' \in ExecutionType
  /\ \A t \in TaskId :
       /\ t \in execution'.running => t \in execution.running \/ tasks[t].status = "active"
       /\ t \in execution'.checked \cup execution'.running =>
            t \in execution.checked \cup execution.running \/ Runnable(tasks[t])
<1> SUFFICES Goal
  OBVIOUS
<1>0. execution \in ExecutionType
  BY DEF TaskInv, Typed
<1>1. ASSUME UNCHANGED execution PROVE Goal
  BY <1>0, <1>1
<1>2. ASSUME NEW t \in TaskId, CheckExecution(t) PROVE Goal
  <2>1. Runnable(tasks[t])
    BY <1>2 DEF CheckExecution, ProvidersAvailable, Runnable
  <2>2. execution' = [execution EXCEPT !.checked = execution.checked \cup {t}]
    BY <1>2 DEF CheckExecution
  <2> QED
    BY <1>0, <2>1, <2>2 DEF ExecutionType
<1>3. ASSUME NEW t \in TaskId, BeginExecution(t) PROVE Goal
  <2>1. /\ t \in execution.checked /\ tasks[t].status = "active"
        /\ execution' = [execution EXCEPT !.checked = execution.checked \ {t},
                                          !.running = execution.running \cup {t}]
    BY <1>3 DEF BeginExecution
  <2>2. /\ execution'.checked = execution.checked \ {t}
        /\ execution'.running = execution.running \cup {t}
        /\ execution' \in ExecutionType
    BY <1>0, <2>1 DEF ExecutionType
  <2> QED
    BY <2>1, <2>2
<1>4. ASSUME NEW t \in TaskId, SaveExecution(t) PROVE Goal
  <2>1. PICK last \in BOOLEAN, recorded \in BOOLEAN :
          execution' = [execution EXCEPT
            !.running = IF last THEN execution.running \ {t} ELSE execution.running,
            !.flows = IF recorded THEN execution.flows \cup {t} ELSE execution.flows]
    BY <1>4 DEF SaveExecution
  <2> QED
    BY <1>0, <2>1 DEF ExecutionType
<1>5. ASSUME NEW t \in TaskId, EndExecution(t) PROVE Goal
  <2>1. \/ execution' = [execution EXCEPT !.checked = execution.checked \ {t}]
        \/ execution' = [execution EXCEPT !.running = execution.running \ {t}]
    BY <1>5 DEF EndExecution
  <2> QED
    BY <1>0, <2>1 DEF ExecutionType
<1>6. ASSUME NEW w \in Worker, Serve(w) PROVE UNCHANGED execution
  BY <1>6 DEF Serve, Receive, Retry, Throws, Dies, Answered, ReadSettings, ResolvePolicy,
    CheckProviders, InsertTask, NameTask, ReadTask, CheckAgain, SetStatus
<1>7. SaveSettings \/ UpdatePolicy \/ ArchivePolicy \/ ChangeProvider \/ UNCHANGED vars
        => UNCHANGED execution
  BY DEF SaveSettings, UpdatePolicy, ArchivePolicy, ChangeProvider, vars
<1> HIDE DEF Goal
<1> QED
  BY <1>1, <1>2, <1>3, <1>4, <1>5, <1>6, <1>7 DEF Next, Execute

\* What is under way stays runnable.
LEMMA ExecutionsStay ==
  ASSUME TaskInv, [Next]_vars
  PROVE  Executions'
<1> SUFFICES ASSUME NEW t \in execution'.checked \cup execution'.running
             PROVE  Runnable(tasks'[t])
  BY DEF Executions, Runnable
<1>1. t \in TaskId
  BY ExecutionChanges DEF ExecutionType
<1>2. Runnable(tasks[t])
  BY <1>1, ExecutionChanges DEF TaskInv, Executions
<1> QED
  BY <1>1, <1>2, TaskChanges DEF TaskMoves, Runnable

-----------------------------------------------------------------------------
(* What a step does to the requests. *)

\* What a request has checked counts after the step too, unless the providers
\* change: then it is shown those there are now.
LEMMA CheckedStays ==
  ASSUME TaskInv, [Next]_vars, NEW r \in WorkerType, Sound(r), NEW n \in WorkerType,
         n.pc = r.pc, n.kind = r.kind, n.id = r.id, n.task = r.task, n.input = r.input,
         n.live = r.live, n.latest = r.latest, r.available \subseteq n.available,
         r.pc \in Busy => available' \subseteq n.available
  PROVE  Sound(n)'
<1>1. /\ Latest <= Latest' /\ Latest \in Nat /\ Latest' \in Nat /\ r.latest \in Nat
      /\ (policy'.status = "active" => policy.status = "active")
  BY PolicyChanges, TaskCreationAssumption DEF TaskInv, Typed, WorkerType
<1>2. r.task \in TaskType /\ Snapshot(r.task)
  BY DEF WorkerType, Sound
<1>3. Snapshot(n.task)'
  BY <1>2, SnapshotStays DEF TaskInv
<1>4. n.latest <= Latest'
  BY <1>1 DEF Sound, Witnessed
<1>5. Witnessed(n)'
  BY <1>1, <1>4 DEF Sound, Witnessed
<1>6. ASSUME r.id \in TaskId, Same(r) PROVE Same(n)'
  BY <1>6, TaskChanges DEF Same, TaskMoves
<1>7. Permitted(r) => Permitted(n)
  BY DEF Permitted
<1>8. r.pc # "idle" => r.id \in TaskId
  BY DEF Sound, Witnessed
<1>9. Checked(n)'
  BY <1>6, <1>7, <1>8 DEF Sound, Checked, Permitted
<1> QED
  BY <1>3, <1>5, <1>9 DEF Sound

\* One request becomes another one.
Becomes(w) == \E n \in WorkerType : Sound(n)' /\ worker' = [worker EXCEPT ![w] = n]

\* A worker that goes to a sound state becomes it.
LEMMA Become ==
  ASSUME TaskInv, [Next]_vars, UNCHANGED available, NEW w \in Worker, NEW n \in WorkerType,
         Sound(n), worker' = [worker EXCEPT ![w] = n]
  PROVE  Becomes(w)
<1>1. n.pc \in Busy => available' \subseteq n.available
  BY DEF Sound, Witnessed
<1>2. Sound(n)'
  BY <1>1, CheckedStays
<1> QED
  BY <1>2 DEF Becomes

\* An idle worker.
LEMMA IdleTyped ==
  /\ Idle \in WorkerType /\ Idle.pc = "idle" /\ Idle.latest = 0 /\ Idle.task = NoTask
  /\ NoTask \in TaskType /\ Snapshot(NoTask) /\ Kind \subseteq AllKinds
<1>1. NoTask \in TaskType /\ NoTask.source = 0
  <2>1. NoTask.rules \in RuleType
    BY DEF NoTask, RuleType
  <2> QED
    BY <2>1 DEF NoTask, TaskType, TaskStatus, Mode
<1>2. Snapshot(NoTask)
  BY <1>1 DEF Snapshot
<1>3. Idle \in WorkerType
  <2>1. Idle.input \in InputType /\ Unread \in ReadType
    BY DEF Idle, InputType, Mode, Unread, ReadType
  <2> QED
    BY <1>1, <2>1 DEF Idle, WorkerType, Place, AllKinds
<1> QED
  BY <1>1, <1>2, <1>3, TaskCreationAssumption DEF Idle

\* A request that is over keeps what the client asked.
LEMMA Ends ==
  ASSUME TaskInv, [Next]_vars, UNCHANGED available, NEW w \in Worker, worker[w].pc # "idle",
         NEW place \in {"answered", "lost"},
         worker' = [worker EXCEPT ![w] = Request(w, place)]
  PROVE  Becomes(w)
<1> DEFINE n == Request(w, place)
<1>1. worker[w] \in WorkerType /\ worker[w].id \in TaskId /\ Latest \in Nat
  BY TaskCreationAssumption DEF TaskInv, Typed, Requests, Sound, Witnessed
<1>2. /\ n \in WorkerType /\ n.pc = place /\ n.id = worker[w].id /\ n.latest = 0
      /\ n.task = NoTask
  BY <1>1, IdleTyped DEF Request, WorkerType, Place
<1> HIDE DEF n
<1>3. place \notin Busy
  BY DEF Busy
<1>4. Witnessed(n) /\ Checked(n)
  BY <1>1, <1>2, <1>3 DEF Witnessed, Checked, Busy
<1>5. Sound(n)
  BY <1>2, <1>4, IdleTyped DEF Sound
<1> QED
  BY <1>2, <1>5, Become DEF n

\* A request comes in, with what is true at that moment.
LEMMA Witnesses ==
  ASSUME TaskInv, [Next]_vars, UNCHANGED available, NEW w \in Worker,
         NEW request \in WorkerType, request.id \in TaskId, Snapshot(request.task),
         Witness(w, request)
  PROVE  Becomes(w)
<1> DEFINE pc == IF request.kind = "create" THEN "settings" ELSE "task"
           n == [request EXCEPT !.pc = pc, !.available = available,
                                !.live = (policy.status = "active"), !.latest = Latest]
<1>1. /\ worker' = [worker EXCEPT ![w] = n] /\ Latest \in Nat /\ available \in SUBSET Provider
      /\ (policy.status = "active") \in BOOLEAN
  BY TaskCreationAssumption DEF Witness, TaskInv, Typed
<1>2. /\ pc \in Place /\ (request.kind = "create" => pc = "settings")
      /\ (request.kind # "create" => pc = "task")
  BY DEF Place, Busy
<1> HIDE DEF pc
<1>3. /\ n \in WorkerType /\ n.pc = pc /\ n.available = available /\ n.latest = Latest
      /\ n.live = (policy.status = "active") /\ n.id = request.id /\ n.kind = request.kind
      /\ n.task = request.task
  BY <1>1, <1>2 DEF WorkerType
<1> HIDE DEF n
<1>4. Witnessed(n)
  <2>1. policy.status = "active" => n.live = TRUE
    BY <1>3
  <2>2. n.latest <= Latest /\ n.id \in TaskId /\ available \subseteq n.available
    BY <1>1, <1>3
  <2> QED
    BY <2>1, <2>2 DEF Witnessed
<1>5. Checked(n)
  BY <1>2, <1>3 DEF Checked
<1> QED
  BY <1>1, <1>3, <1>4, <1>5, Become DEF Sound

\* A request goes on at another place, with the task it has then.
Continues(w, n, pc, task) ==
  /\ n.pc = pc /\ n.task = task
  /\ n.kind = worker[w].kind /\ n.id = worker[w].id /\ n.input = worker[w].input
  /\ n.available = worker[w].available /\ n.live = worker[w].live /\ n.latest = worker[w].latest

\* A worker that goes on with what it has checked is in a sound state.
LEMMA Goes ==
  ASSUME TaskInv, [Next]_vars, UNCHANGED available, NEW w \in Worker, worker[w].pc \in Busy,
         NEW pc \in Busy, NEW task \in TaskType, Snapshot(task), NEW read \in ReadType,
         worker' = [worker EXCEPT ![w] =
                      [worker[w] EXCEPT !.pc = pc, !.task = task, !.settings = read]],
         \A n \in WorkerType : Continues(w, n, pc, task) => Checked(n)
  PROVE  Becomes(w)
<1> DEFINE n == [worker[w] EXCEPT !.pc = pc, !.task = task, !.settings = read]
<1>1. worker[w] \in WorkerType /\ Witnessed(worker[w])
  BY DEF TaskInv, Typed, Requests, Sound
<1>2. n \in WorkerType /\ Continues(w, n, pc, task) /\ worker' = [worker EXCEPT ![w] = n]
  BY <1>1 DEF WorkerType, Continues, Place
<1> HIDE DEF n
<1>3. worker[w].pc # "idle"
  BY DEF Busy
<1>4. Witnessed(n)
  BY <1>1, <1>2, <1>3 DEF Witnessed, Continues
<1>5. Sound(n)
  BY <1>2, <1>4 DEF Sound, Continues
<1> QED
  BY <1>2, <1>5, Become

-----------------------------------------------------------------------------
(* What each statement of a request does to it. *)

\* What a request that is under way was before the step.
LEMMA Serves ==
  ASSUME TaskInv, NEW w \in Worker
  PROVE  /\ worker[w] \in WorkerType /\ Witnessed(worker[w]) /\ Checked(worker[w])
         /\ worker[w].task \in TaskType /\ Snapshot(worker[w].task)
         /\ worker[w].settings \in ReadType /\ worker \in [Worker -> WorkerType]
BY DEF TaskInv, Typed, Requests, Sound, WorkerType

\* The request is over, or its worker died.
LEMMA AnswerBecomes ==
  ASSUME TaskInv, [Next]_vars, UNCHANGED available, NEW w \in Worker, worker[w].pc # "idle",
         Answer(w)
  PROVE  Becomes(w)
BY Ends DEF Answer

\* A request comes in or is repeated, throws, is lost or is answered.
LEMMA FramesMove ==
  ASSUME TaskInv, [Next]_vars, NEW w \in Worker,
         Receive(w) \/ Retry(w) \/ Throws(w) \/ Dies(w) \/ Answered(w) \/ NameTask(w)
  PROVE  Becomes(w)
<1>0. worker[w] \in WorkerType /\ Snapshot(worker[w].task)
      /\ (worker[w].pc # "idle" => worker[w].id \in TaskId)
  BY Serves DEF Witnessed
<1>1. CASE Receive(w)
  <2>1. PICK kind \in Kind, input \in Input, id \in TaskId :
          Witness(w, [Idle EXCEPT !.kind = kind, !.input = input, !.id = id])
    BY <1>1 DEF Receive
  <2> DEFINE request == [Idle EXCEPT !.kind = kind, !.input = input, !.id = id]
  <2>2. kind \in AllKinds /\ input \in InputType /\ id \in Nat
    BY IdleTyped, TaskCreationAssumption
  <2>3. request \in WorkerType /\ request.id = id /\ request.task = NoTask
    BY <2>2, IdleTyped DEF WorkerType
  <2>4. UNCHANGED available
    BY <1>1 DEF Receive
  <2> HIDE DEF request
  <2>5. Snapshot(request.task) /\ request.id \in TaskId
    BY <2>3, IdleTyped
  <2>6. Witness(w, request)
    BY <2>1 DEF request
  <2> QED
    BY <2>3, <2>4, <2>5, <2>6, Witnesses
<1>2. CASE Retry(w)
  <2>1. Witness(w, worker[w]) /\ UNCHANGED available /\ worker[w].pc # "idle"
    BY <1>2 DEF Retry, At
  <2> QED
    BY <1>0, <2>1, Witnesses
<1>3. CASE Throws(w)
  BY <1>3, AnswerBecomes DEF Throws, Serving
<1>4. CASE Dies(w)
  BY <1>4, Ends DEF Dies, Serving, At
<1>5. CASE Answered(w)
  <2>1. worker' = [worker EXCEPT ![w] = Idle] /\ UNCHANGED available
    BY <1>5 DEF Answered
  <2>2. Sound(Idle)
    BY IdleTyped, TaskCreationAssumption DEF Sound, Witnessed, Checked, Busy, TaskInv, Typed
  <2> QED
    BY <2>1, <2>2, IdleTyped, Become
<1>6. CASE NameTask(w)
  BY <1>6, AnswerBecomes DEF NameTask, At
<1> QED
  BY <1>1, <1>2, <1>3, <1>4, <1>5, <1>6

\* Reading the settings.
LEMMA ReadSettingsMoves ==
  ASSUME TaskInv, [Next]_vars, NEW w \in Worker, ReadSettings(w)
  PROVE  Becomes(w)
<1>1. At(w, "settings") /\ UNCHANGED available
  BY DEF ReadSettings
<1>2. CASE Answer(w)
  BY <1>1, <1>2, AnswerBecomes DEF At
<1>3. CASE worker' = [worker EXCEPT ![w].pc = "policy", ![w].settings = settings]
  <2> DEFINE task == worker[w].task
             pc == "policy"
  <2>1. task \in TaskType /\ Snapshot(task) /\ settings \in ReadType /\ worker[w].pc \in Busy
        /\ pc \in Busy
    BY <1>1, Serves DEF TaskInv, Typed, ReadType, At, Busy
  <2>2. worker' = [worker EXCEPT ![w] =
                     [worker[w] EXCEPT !.pc = pc, !.task = task, !.settings = settings]]
    BY <1>3, Serves DEF WorkerType
  <2>3. ASSUME NEW n \in WorkerType, Continues(w, n, pc, task) PROVE Checked(n)
    BY <1>1, <2>3, Serves DEF Continues, Checked, At
  <2> HIDE DEF task, pc
  <2> QED
    BY <1>1, <2>1, <2>2, <2>3, Goes
<1> QED
  BY <1>2, <1>3 DEF ReadSettings

\* The task a request drafts is made from the version it names.
LEMMA DraftMoves ==
  ASSUME TaskInv, [Next]_vars, NEW w \in Worker, At(w, "policy"), UNCHANGED available,
         NEW source \in Nat, NEW rules \in RuleType, Drafted(w, source, rules),
         source > 0 => /\ source \in 1..Latest /\ policy.status = "active"
                       /\ rules = Merged(policy.versions[source], worker[w].input.override)
                       /\ worker[w].input.policy = -1 => source = Latest
  PROVE  Becomes(w)
<1> DEFINE input == worker[w].input
           normal == [rules EXCEPT !.mints = NormalizeMints(rules.mints, input.mode)]
           task == [status |-> IF input.draft THEN "draft" ELSE "active", mode |-> input.mode,
                    source |-> source, override |-> IF source = 0 THEN {} ELSE input.override,
                    rules |-> normal]
           pc == "providers"
<1>1. input \in InputType /\ input.mode \in Mode /\ input.override \in SUBSET Provider
  BY Serves DEF WorkerType, InputType
<1>2. normal \in RuleType
  BY <1>1, RulesTyped
<1>3. CASE Answer(w)
  BY <1>3, AnswerBecomes DEF At
<1>4. CASE worker' = [worker EXCEPT ![w].pc = pc, ![w].task = task]
  <2>1. (IF input.draft THEN "draft" ELSE "active") \in {"draft", "active"}
    OBVIOUS
  <2>2. /\ task \in TaskType /\ task.status \in {"draft", "active"} /\ task.source = source
        /\ task.rules = normal /\ task.mode = input.mode
        /\ (source > 0 => task.override = input.override)
    BY <1>1, <1>2, <2>1 DEF TaskType, TaskStatus
  <2>3. worker' = [worker EXCEPT ![w] = [worker[w] EXCEPT !.pc = pc, !.task = task,
                                                          !.settings = worker[w].settings]]
    BY <1>4, Serves DEF WorkerType
  <2> HIDE DEF task
  <2>4. Snapshot(task)
    BY <2>2 DEF Snapshot
  <2>5. ASSUME NEW n \in WorkerType, Continues(w, n, pc, task) PROVE Checked(n)
    <3>1. /\ n.pc = "providers" /\ n.task = task /\ n.kind = "create" /\ n.input = input
          /\ n.live = worker[w].live /\ n.latest = worker[w].latest
      BY <2>5, Serves DEF Continues, Checked, At
    <3>2. worker[w].latest <= Latest /\ (policy.status = "active" => worker[w].live = TRUE)
      BY Serves DEF Witnessed, Busy, At
    <3> QED
      BY <2>2, <3>1, <3>2 DEF Checked
  <2>6. pc \in Busy /\ worker[w].pc \in Busy /\ worker[w].settings \in ReadType
    BY Serves DEF Busy, At
  <2> HIDE DEF pc
  <2> QED
    BY <2>2, <2>3, <2>4, <2>5, <2>6, Goes
<1> QED
  BY <1>3, <1>4 DEF Drafted

\* Resolving the policy.
LEMMA ResolvePolicyMoves ==
  ASSUME TaskInv, [Next]_vars, NEW w \in Worker, ResolvePolicy(w)
  PROVE  Becomes(w)
<1> DEFINE input == worker[w].input
<1>1. At(w, "policy") /\ UNCHANGED available
  BY DEF ResolvePolicy
<1>2. input \in InputType /\ input.policy \in Nat \cup {-1} /\ input.override \in SUBSET Provider
  BY Serves DEF WorkerType, InputType
<1>3. CASE Drafted(w, 0, InlineRules(input))
  <2>1. InlineRules(input) \in RuleType
    BY <1>2, RulesTyped
  <2> QED
    BY <1>1, <1>3, <2>1, DraftMoves
<1>4. CASE /\ input.policy # 0 /\ PolicyUsable(input)
           /\ Drafted(w, VersionOf(input),
                      Merged(policy.versions[VersionOf(input)], input.override))
  <2> DEFINE source == VersionOf(input)
             rules == Merged(policy.versions[source], input.override)
  <2>1. source \in 1..Latest /\ policy.status = "active" /\ Latest \in Nat
        /\ policy.versions \in Seq(RuleType) /\ Latest = Len(policy.versions)
    BY <1>4, TaskCreationAssumption DEF PolicyUsable, TaskInv, Typed, PolicyType, Latest
  <2>2. source \in Nat /\ policy.versions[source] \in RuleType
    BY <2>1
  <2>3. rules \in RuleType
    BY <1>2, <2>2, RulesTyped
  <2>4. input.policy = -1 => source = Latest
    BY DEF VersionOf
  <2>5. Drafted(w, source, rules)
    BY <1>4
  <2>6. rules = Merged(policy.versions[source], input.override)
    OBVIOUS
  <2> HIDE DEF source, rules
  <2> QED
    BY <1>1, <2>1, <2>2, <2>3, <2>4, <2>5, <2>6, DraftMoves
<1>5. CASE Answer(w)
  BY <1>1, <1>5, AnswerBecomes DEF At
<1> QED
  BY <1>3, <1>4, <1>5 DEF ResolvePolicy

\* The provider check: each was available just now, and can run.
LEMMA ProvidersPermit ==
  ASSUME TaskInv, NEW w \in Worker, worker[w].pc \in Busy, NEW requireRuntime \in BOOLEAN,
         ProvidersAvailable(worker[w].task, requireRuntime), requireRuntime = TRUE
  PROVE  worker[w].task.rules.providers \subseteq worker[w].available \cap Builtin
BY Serves DEF ProvidersAvailable, Witnessed

\* Checking the providers, in one read.
LEMMA CheckProvidersMoves ==
  ASSUME TaskInv, [Next]_vars, NEW w \in Worker, CheckProviders(w)
  PROVE  Becomes(w)
<1> DEFINE task == worker[w].task
           pc == "insert"
<1>1. At(w, "providers") /\ UNCHANGED available
  BY DEF CheckProviders
<1>2. CASE Answer(w)
  BY <1>1, <1>2, AnswerBecomes DEF At
<1>3. CASE /\ ProvidersAvailable(task, task.status = "active")
           /\ worker' = [worker EXCEPT ![w].pc = pc]
  <2>1. worker[w].pc \in Busy /\ pc \in Busy
    BY <1>1 DEF At, Busy
  <2>2. worker' = [worker EXCEPT ![w] = [worker[w] EXCEPT !.pc = pc, !.task = task,
                                                          !.settings = worker[w].settings]]
    BY <1>3, Serves DEF WorkerType
  <2>3. task.status = "active" => task.rules.providers \subseteq worker[w].available \cap Builtin
    <3> SUFFICES ASSUME task.status = "active"
                 PROVE  task.rules.providers \subseteq worker[w].available \cap Builtin
      OBVIOUS
    <3>1. ProvidersAvailable(task, TRUE)
      BY <1>3
    <3> QED
      BY <2>1, <3>1, ProvidersPermit
  <2>4. ASSUME NEW n \in WorkerType, Continues(w, n, pc, task) PROVE Checked(n)
    <3>1. /\ n.pc = "insert" /\ n.task = worker[w].task /\ n.kind = worker[w].kind
          /\ n.input = worker[w].input /\ n.available = worker[w].available
          /\ n.live = worker[w].live /\ n.latest = worker[w].latest
      BY <2>4 DEF Continues
    <3>2. n.task.status = "active" => Permitted(n)
      BY <2>3, <3>1 DEF Permitted
    <3> QED
      BY <1>1, <3>1, <3>2, Serves DEF Checked, At
  <2>5. task \in TaskType /\ Snapshot(task) /\ worker[w].settings \in ReadType
    BY Serves
  <2> HIDE DEF task, pc
  <2> QED
    BY <1>1, <2>1, <2>2, <2>4, <2>5, Goes
<1> QED
  BY <1>2, <1>3 DEF CheckProviders

\* Inserting the task.
LEMMA InsertTaskMoves ==
  ASSUME TaskInv, [Next]_vars, NEW w \in Worker, InsertTask(w)
  PROVE  Becomes(w)
<1> DEFINE task == worker[w].task
           pc == "name"
<1>1. /\ At(w, "insert") /\ UNCHANGED available
      /\ worker' = [worker EXCEPT ![w].pc = pc]
  BY DEF InsertTask
<1>2. worker' = [worker EXCEPT ![w] = [worker[w] EXCEPT !.pc = pc, !.task = task,
                                                        !.settings = worker[w].settings]]
  BY <1>1, Serves DEF WorkerType
<1>3. ASSUME NEW n \in WorkerType, Continues(w, n, pc, task) PROVE Checked(n)
  BY <1>3 DEF Continues, Checked
<1>4. /\ task \in TaskType /\ Snapshot(task) /\ worker[w].settings \in ReadType
      /\ worker[w].pc \in Busy /\ pc \in Busy
  BY <1>1, Serves DEF At, Busy
<1> HIDE DEF task, pc
<1> QED
  BY <1>1, <1>2, <1>3, <1>4, Goes

\* Reading the task that a status, a copy or a rerun is about.
LEMMA ReadTaskMoves ==
  ASSUME TaskInv, [Next]_vars, NEW w \in Worker, ReadTask(w)
  PROVE  Becomes(w)
<1> DEFINE kind == worker[w].kind
           id == worker[w].id
           read == tasks[id]
           copy == [read EXCEPT !.status = IF kind = "rerun" THEN "active" ELSE "draft"]
           pc == CASE kind \in {"cancel", "archive"} -> "status"
                   [] kind = "duplicate" -> "insert" [] OTHER -> "check"
           task == IF kind \in {"rerun", "duplicate"} THEN copy ELSE read
<1>1. At(w, "task") /\ UNCHANGED available
  BY DEF ReadTask
<1>2. CASE Answer(w)
  BY <1>1, <1>2, AnswerBecomes DEF At
<1>3. CASE /\ read.status \in AllowedFrom(kind) \ {"none"}
           /\ worker' = [worker EXCEPT ![w].pc = pc, ![w].task = task]
  <2>1. id \in TaskId /\ kind \in AllKinds /\ kind # "create"
    BY <1>1, Serves DEF At, Witnessed, Checked, WorkerType
  <2>2. read \in TaskType /\ Snapshot(read)
    BY <2>1 DEF TaskInv, Typed, Snapshots
  <2>3. /\ copy \in TaskType /\ copy.rules = read.rules /\ copy.source = read.source
        /\ copy.override = read.override /\ copy.mode = read.mode
        /\ copy.status \in {"draft", "active"} /\ (kind = "rerun" => copy.status = "active")
        /\ (kind # "rerun" => copy.status = "draft")
    BY <2>2 DEF TaskType, TaskStatus
  <2>4. /\ pc \in Busy /\ (kind \in {"cancel", "archive"} => pc = "status")
        /\ (kind = "duplicate" => pc = "insert") /\ (kind \in {"rerun", "submit"} => pc = "check")
    BY <2>1 DEF Busy, AllKinds
  <2>5. worker' = [worker EXCEPT ![w] = [worker[w] EXCEPT !.pc = pc, !.task = task,
                                                          !.settings = worker[w].settings]]
    BY <1>3, Serves DEF WorkerType
  <2> HIDE DEF copy, pc
  <2>6. task \in TaskType
    BY <2>2, <2>3
  <2>7. Snapshot(task)
    BY <2>2, <2>3 DEF Snapshot
  <2>8. /\ kind \in {"rerun", "duplicate"} => task = copy
        /\ kind \notin {"rerun", "duplicate"} => task = read
    OBVIOUS
  <2> HIDE DEF task
  <2>9. ASSUME NEW n \in WorkerType, Continues(w, n, pc, task) PROVE Checked(n)
    <3>1. n.pc = pc /\ n.task = task /\ n.kind = kind /\ n.id = id
      BY <2>9 DEF Continues
    <3>2. CASE kind \in {"cancel", "archive"}
      BY <2>4, <3>1, <3>2 DEF Checked
    <3>3. CASE kind = "duplicate"
      BY <2>3, <2>4, <2>8, <3>1, <3>3 DEF Checked
    <3>4. CASE kind = "rerun"
      BY <2>3, <2>4, <2>8, <3>1, <3>4 DEF Checked
    <3>5. CASE kind = "submit"
      <4>1. Same(n)
        BY <1>3, <2>8, <3>1, <3>5 DEF Same
      <4> QED
        BY <2>4, <3>1, <3>5, <4>1 DEF Checked
    <3> QED
      BY <2>1, <3>2, <3>3, <3>4, <3>5 DEF AllKinds
  <2>10. worker[w].settings \in ReadType /\ worker[w].pc \in Busy
    BY <1>1, Serves DEF At, Busy
  <2> QED
    BY <1>1, <2>4, <2>5, <2>6, <2>7, <2>9, <2>10, Goes
<1> QED
  BY <1>2, <1>3 DEF ReadTask

\* Checking the policy and the providers of a task once more.
LEMMA CheckAgainMoves ==
  ASSUME TaskInv, [Next]_vars, NEW w \in Worker, CheckAgain(w)
  PROVE  Becomes(w)
<1> DEFINE kind == worker[w].kind
           task == worker[w].task
           pc == IF kind = "rerun" THEN "insert" ELSE "status"
<1>1. At(w, "check") /\ UNCHANGED available
  BY DEF CheckAgain
<1>2. CASE Answer(w)
  BY <1>1, <1>2, AnswerBecomes DEF At
<1>3. CASE ProvidersAvailable(task, TRUE) /\ worker' = [worker EXCEPT ![w].pc = pc]
  <2>1. worker[w].pc \in Busy /\ pc \in Busy
    BY <1>1 DEF At, Busy
  <2>2. worker' = [worker EXCEPT ![w] = [worker[w] EXCEPT !.pc = pc, !.task = task,
                                                          !.settings = worker[w].settings]]
    BY <1>3, Serves DEF WorkerType
  <2>3. task.rules.providers \subseteq worker[w].available \cap Builtin
    BY <1>3, <2>1, ProvidersPermit
  <2>4. (kind = "rerun" => pc = "insert") /\ (kind # "rerun" => pc = "status")
    OBVIOUS
  <2> HIDE DEF pc
  <2>5. ASSUME NEW n \in WorkerType, Continues(w, n, pc, task) PROVE Checked(n)
    <3>1. /\ n.pc = pc /\ n.task = task /\ n.kind = kind /\ n.id = worker[w].id
          /\ n.available = worker[w].available
      BY <2>5 DEF Continues
    <3>2. Permitted(n)
      BY <2>3, <3>1 DEF Permitted
    <3>3. CASE kind = "submit"
      <4>1. Same(n)
        BY <1>1, <3>1, <3>3, Serves DEF Checked, Same, At
      <4> QED
        BY <2>4, <3>1, <3>2, <3>3, <4>1 DEF Checked
    <3>4. CASE kind = "rerun" /\ task.status = "active"
      BY <2>4, <3>1, <3>2, <3>4 DEF Checked
    <3> QED
      BY <1>1, <3>3, <3>4, Serves DEF Checked, At
  <2>6. task \in TaskType /\ Snapshot(task) /\ worker[w].settings \in ReadType
    BY Serves
  <2> HIDE DEF task
  <2> QED
    BY <1>1, <2>1, <2>2, <2>5, <2>6, Goes
<1> QED
  BY <1>2, <1>3 DEF CheckAgain

\* Every step of a worker leads to a sound state.
LEMMA ServeMoves ==
  ASSUME TaskInv, [Next]_vars, NEW w \in Worker, Serve(w)
  PROVE  Becomes(w)
<1>1. CASE SetStatus(w)
  <2>1. At(w, "status") /\ Answer(w) /\ UNCHANGED available
    BY <1>1 DEF SetStatus
  <2> QED
    BY <2>1, AnswerBecomes DEF At
<1> QED
  BY <1>1, FramesMove, ReadSettingsMoves, ResolvePolicyMoves, CheckProvidersMoves,
     InsertTaskMoves, ReadTaskMoves, CheckAgainMoves DEF Serve

-----------------------------------------------------------------------------
(* The invariant holds. *)

\* The invariant holds of a policy with one version and no tasks.
LEMMA Initially == Init => TaskInv
<1> SUFFICES ASSUME Init PROVE TaskInv
  OBVIOUS
<1>1. PICK r \in RuleType : policy = [status |-> "active", versions |-> <<r>>]
  BY TaskCreationAssumption DEF Init
<1>2. policy.versions \in Seq(RuleType) /\ Len(policy.versions) = 1
  BY <1>1
<1>3. policy \in PolicyType /\ Latest \in 1..MaxVersions
  BY <1>1, <1>2, TaskCreationAssumption DEF PolicyType, Latest
<1>4. settings \in [environment : Environment, mint : BOOLEAN]
  BY TaskCreationAssumption DEF Init
<1>5. Typed
  BY <1>3, <1>4, IdleTyped DEF Init, Typed, NoExecution, ExecutionType
<1>6. Snapshots
  BY IdleTyped DEF Init, Snapshots
<1>7. Sound(Idle)
  BY <1>3, IdleTyped, TaskCreationAssumption DEF Sound, Witnessed, Checked, Busy
<1> QED
  BY <1>5, <1>6, <1>7 DEF Init, TaskInv, Requests, Executions, NoExecution

\* Every worker after the step.
LEMMA RequestsStay ==
  ASSUME TaskInv, [Next]_vars
  PROVE  worker' \in [Worker -> WorkerType] /\ Requests'
<1>0. worker \in [Worker -> WorkerType] /\ \A v \in Worker : Sound(worker[v])
  BY DEF TaskInv, Typed, Requests
<1>1. ASSUME NEW v \in Worker, NEW n \in WorkerType, n = worker[v], UNCHANGED available
      PROVE  Sound(n)'
  <2>1. Sound(n)
    BY <1>0, <1>1
  <2>2. n.pc \in Busy => available' \subseteq n.available
    BY <1>1, <2>1 DEF Sound, Witnessed
  <2> QED
    BY <2>1, <2>2, CheckedStays
<1>2. ASSUME NEW w \in Worker, Serve(w) PROVE worker' \in [Worker -> WorkerType] /\ Requests'
  <2>1. PICK n \in WorkerType : Sound(n)' /\ worker' = [worker EXCEPT ![w] = n]
    BY <1>2, ServeMoves DEF Becomes
  <2>2. UNCHANGED available
    BY <1>2 DEF Serve, Receive, Retry, Throws, Dies, Answered, ReadSettings, ResolvePolicy,
                CheckProviders, InsertTask, NameTask, ReadTask, CheckAgain, SetStatus
  <2>3. ASSUME NEW v \in Worker PROVE Sound(worker[v])'
    <3>1. CASE v = w
      BY <1>0, <2>1, <3>1
    <3>2. CASE v # w
      <4>1. worker'[v] = worker[v] /\ worker[v] \in WorkerType
        BY <1>0, <2>1, <3>2
      <4>2. PICK m \in WorkerType : m = worker[v]
        BY <4>1
      <4>3. Sound(m)'
        BY <1>1, <2>2, <4>2
      <4> QED
        BY <4>1, <4>2, <4>3
    <3> QED
      BY <3>1, <3>2
  <2> QED
    BY <1>0, <2>1, <2>3 DEF Requests
<1>3. ASSUME UNCHANGED <<available, worker>> PROVE worker' \in [Worker -> WorkerType] /\ Requests'
  <2>1. ASSUME NEW v \in Worker PROVE Sound(worker[v])'
    <3>1. worker'[v] = worker[v] /\ worker[v] \in WorkerType
      BY <1>0, <1>3
    <3>2. PICK m \in WorkerType : m = worker[v]
      BY <3>1
    <3>3. Sound(m)'
      BY <1>1, <1>3, <3>2
    <3> QED
      BY <3>1, <3>2, <3>3
  <2> QED
    BY <1>0, <1>3, <2>1 DEF Requests
<1>4. ASSUME ChangeProvider PROVE worker' \in [Worker -> WorkerType] /\ Requests'
  <2> DEFINE after(v) == IF Serving(v) THEN [worker[v] EXCEPT !.available = @ \cup available']
                         ELSE worker[v]
  <2>1. worker' = [v \in Worker |-> after(v)] /\ available' \in SUBSET Provider
    BY <1>4, TaskCreationAssumption DEF ChangeProvider, TaskInv, Typed
  <2>2. ASSUME NEW v \in Worker PROVE after(v) \in WorkerType /\ Sound(worker[v])'
    <3>1. worker[v] \in WorkerType /\ Sound(worker[v])
      BY <1>0
    <3>2. PICK r \in WorkerType : r = worker[v]
      BY <3>1
    <3>3. /\ after(v) \in WorkerType /\ after(v).pc = r.pc /\ after(v).kind = r.kind
          /\ after(v).id = r.id /\ after(v).task = r.task /\ after(v).input = r.input
          /\ after(v).live = r.live /\ after(v).latest = r.latest
          /\ r.available \subseteq after(v).available
          /\ (Serving(v) => available' \subseteq after(v).available)
      BY <2>1, <3>1, <3>2 DEF WorkerType
    <3>4. r.pc \in Busy => Serving(v)
      BY <3>2 DEF Busy, Serving
    <3> HIDE DEF after
    <3>5. PICK n \in WorkerType : n = after(v)
      BY <3>3
    <3>6. Sound(n)'
      BY <3>1, <3>2, <3>3, <3>4, <3>5, CheckedStays
    <3>7. worker'[v] = n
      BY <2>1, <3>5
    <3> QED
      BY <3>3, <3>6, <3>7
  <2> HIDE DEF after
  <2> QED
    BY <2>1, <2>2 DEF Requests
<1>5. SaveSettings \/ UpdatePolicy \/ ArchivePolicy \/ UNCHANGED vars
        => UNCHANGED <<available, worker>>
  BY DEF SaveSettings, UpdatePolicy, ArchivePolicy, vars
<1>6. ASSUME NEW t \in TaskId, Execute(t) PROVE UNCHANGED <<available, worker>>
  BY <1>6 DEF Execute, CheckExecution, BeginExecution, SaveExecution, EndExecution
<1> QED
  BY <1>2, <1>3, <1>4, <1>5, <1>6 DEF Next

\* Every step keeps the invariant.
LEMMA Inductive == TaskInv /\ [Next]_vars => TaskInv'
<1> SUFFICES ASSUME TaskInv, [Next]_vars PROVE TaskInv'
  OBVIOUS
<1>1. policy' \in PolicyType /\ Latest' \in 1..MaxVersions
  BY PolicyChanges DEF TaskInv
<1>2. settings' \in [environment : Environment, mint : BOOLEAN]
  <2>1. SaveSettings \/ UNCHANGED settings
    BY DEF Next, Serve, Receive, Retry, Throws, Dies, Answered, ReadSettings, ResolvePolicy,
           CheckProviders, InsertTask, NameTask, ReadTask, CheckAgain, SetStatus, UpdatePolicy,
           ArchivePolicy, ChangeProvider, Execute, CheckExecution, BeginExecution, SaveExecution,
           EndExecution, vars
  <2> QED
    BY <2>1, TaskCreationAssumption DEF SaveSettings, TaskInv, Typed
<1>3. available' \subseteq Provider
  <2>1. CASE ChangeProvider
    BY <2>1, TaskCreationAssumption DEF ChangeProvider, TaskInv, Typed
  <2> QED
    BY <2>1, AvailableStep DEF TaskInv, Typed
<1>4. tasks' \in [TaskId -> TaskType] /\ Snapshots'
  <2>1. tasks' \in [TaskId -> TaskType]
    BY TaskChanges
  <2>2. ASSUME NEW t \in TaskId PROVE Snapshot(tasks[t])'
    <3>1. tasks'[t] \in TaskType /\ Snapshot(tasks'[t])
      BY TaskChanges DEF TaskMoves
    <3>2. PICK task \in TaskType : task = tasks'[t] /\ Snapshot(task)
      BY <3>1
    <3>3. Snapshot(task)'
      BY <3>2, SnapshotStays DEF TaskInv
    <3> QED
      BY <3>2, <3>3
  <2> QED
    BY <2>1, <2>2 DEF Snapshots
<1> QED
  BY <1>1, <1>2, <1>3, <1>4, RequestsStay, ExecutionChanges, ExecutionsStay DEF TaskInv, Typed

\* The inductive invariant holds in every reachable state.
THEOREM Invariant == Spec => []TaskInv
<1>1. Init => TaskInv
  BY Initially
<1>2. TaskInv /\ [Next]_vars => TaskInv'
  BY Inductive
<1> QED
  BY <1>1, <1>2, PTL DEF Spec

\* The tables and what every request holds have their types.
THEOREM TypeCorrect == Spec => []TypeOK
<1>1. TaskInv => TypeOK
  <2> SUFFICES ASSUME TaskInv PROVE TypeOK
    OBVIOUS
  <2>1. /\ Typed /\ Snapshots /\ policy.status \in {"active", "archived"}
        /\ policy.versions \in Seq(RuleType) /\ Latest \in Nat
    BY TaskCreationAssumption DEF TaskInv, Typed, PolicyType
  <2>2. ASSUME NEW t \in TaskId
        PROVE  /\ tasks[t].status \in TaskStatus /\ tasks[t].mode \in Mode
               /\ tasks[t].source \in 0..Latest /\ tasks[t].override \subseteq Provider
               /\ tasks[t].rules \in RuleType
    <3>1. tasks[t] \in TaskType /\ Snapshot(tasks[t])
      BY <2>1 DEF Typed, Snapshots
    <3>2. tasks[t].source \in Nat /\ (tasks[t].source > 0 => tasks[t].source \in 1..Latest)
      BY <3>1 DEF TaskType, Snapshot
    <3>3. tasks[t].source \in 0..Latest
      BY <2>1, <3>2
    <3> QED
      BY <3>1, <3>3 DEF TaskType
  <2>3. ASSUME NEW w \in Worker
        PROVE  /\ worker[w].pc \in {"idle", "settings", "policy", "providers", "insert", "name",
                                    "task", "check", "status", "answered", "lost"}
               /\ worker[w].task.rules \in RuleType
               /\ worker[w].latest \in 0..Latest
    <3>1. worker[w] \in WorkerType /\ worker[w].task \in TaskType /\ worker[w].latest <= Latest
      BY Serves DEF Witnessed
    <3>2. worker[w].latest \in Nat /\ worker[w].pc \in Place
      BY <3>1 DEF WorkerType
    <3> QED
      BY <2>1, <3>1, <3>2 DEF TaskType, Place, Busy
  <2> QED
    BY <2>1, <2>2, <2>3 DEF TypeOK, Typed, ExecutionType
<1> QED
  BY <1>1, Invariant, PTL

\* The rules of a task stay those of the policy version it was made from,
\* through edits and archival of the policy, copies and reruns.
THEOREM SnapshotsStay == Spec => []SnapshotsAreImmutable
<1>1. TaskInv => SnapshotsAreImmutable
  BY DEF TaskInv, Snapshots, Snapshot, SnapshotsAreImmutable
<1> QED
  BY <1>1, Invariant, PTL

\* Requests move a task only forward, and it leaves an end only when an
\* execution that began before it came there writes what has become of it.
THEOREM LifecycleFollowed == Spec => LifecycleIsFollowed
<1>1. TaskInv /\ [Next]_vars =>
        [\A t \in TaskId : tasks'[t].status # tasks[t].status =>
           \/ <<tasks[t].status, tasks'[t].status>> \in Moves
           \/ t \in execution.running /\ tasks'[t].status \in {"active", "completed"}]_vars
  BY TaskChanges DEF TaskMoves, MayMove
<1>2. TaskInv /\ [Next]_vars =>
        [\A t \in TaskId : (tasks[t].status \in Terminal /\ t \notin execution.running) =>
           tasks'[t].status \in Terminal /\ t \notin execution'.running]_vars
  <2> SUFFICES ASSUME TaskInv, [Next]_vars, NEW t \in TaskId, tasks[t].status \in Terminal,
                      t \notin execution.running
               PROVE  tasks'[t].status \in Terminal /\ t \notin execution'.running
    OBVIOUS
  <2>1. tasks'[t].status = tasks[t].status \/ <<tasks[t].status, tasks'[t].status>> \in Moves
    BY TaskChanges DEF TaskMoves, MayMove
  <2>2. tasks'[t].status \in Terminal
    BY <2>1 DEF Terminal, Moves
  <2>3. t \notin execution'.running
    BY ExecutionChanges DEF Terminal
  <2> QED
    BY <2>2, <2>3
<1>3. Spec => OnlyExecutionsGoBack
  BY <1>1, Invariant, PTL DEF Spec, OnlyExecutionsGoBack
<1>4. Spec => EndsAreFinal
  BY <1>2, Invariant, PTL DEF Spec, EndsAreFinal
<1> QED
  BY <1>3, <1>4 DEF LifecycleIsFollowed

-----------------------------------------------------------------------------
(* What a request checked counts when it writes. *)

\* A task becomes active by the insert of a creation or rerun or by the
\* conditional update of a submit, whose providers were all permitted, or by an
\* execution that read it active.
LEMMA ActivePermitted ==
  ASSUME TaskInv, [Next]_vars, NEW t \in TaskId,
         tasks[t].status # "active", tasks'[t].status = "active"
  PROVE  /\ tasks'[t].rules.providers \subseteq Builtin
         /\ \/ t \in execution.running
            \/ \E w \in Worker : /\ Activates(w, t)
                                 /\ tasks'[t].rules.providers \subseteq worker[w].available
<1> DEFINE Goal == /\ tasks'[t].rules.providers \subseteq Builtin
                   /\ \/ t \in execution.running
                      \/ \E w \in Worker :
                           /\ Activates(w, t)
                           /\ tasks'[t].rules.providers \subseteq worker[w].available
<1> SUFFICES Goal
  OBVIOUS
<1>0. /\ tasks \in [TaskId -> TaskType] /\ worker \in [Worker -> WorkerType]
      /\ \A w \in Worker : Checked(worker[w]) /\ Witnessed(worker[w])
  BY DEF TaskInv, Typed, Requests, Sound
<1>1. ASSUME NEW w \in Worker, InsertTask(w) PROVE Goal
  <2>1. PICK x \in TaskId : /\ tasks[x].status = "none"
                            /\ tasks' = [tasks EXCEPT ![x] = worker[w].task]
    BY <1>1 DEF InsertTask
  <2>2. x = t /\ tasks'[t] = worker[w].task
    BY <1>0, <2>1
  <2>3. At(w, "insert") /\ worker'[w].pc = "name"
    BY <1>0, <1>1 DEF InsertTask, WorkerType
  <2>4. Inserts(w, t)
    BY <2>1, <2>2, <2>3 DEF Inserts
  <2>5. Permitted(worker[w])
    BY <1>0, <2>2, <2>3 DEF Checked, At
  <2> QED
    BY <2>2, <2>4, <2>5 DEF Activates, Permitted
<1>2. ASSUME NEW w \in Worker, SetStatus(w) PROVE Goal
  <2> DEFINE id == worker[w].id
             kind == worker[w].kind
  <2>1. At(w, "status") /\ worker[w].pc # "idle" /\ id \in TaskId
    BY <1>0, <1>2 DEF SetStatus, At, Witnessed
  <2>2. tasks' = [tasks EXCEPT ![id].status = NextStatus(kind)]
    BY <1>2 DEF SetStatus
  <2>3. id = t /\ NextStatus(kind) = "active"
    BY <1>0, <2>1, <2>2 DEF TaskType
  <2>4. kind = "submit"
    BY <2>3 DEF NextStatus
  <2>5. Same(worker[w]) /\ Permitted(worker[w])
    BY <1>0, <2>1, <2>4 DEF Checked, At
  <2>6. tasks'[t].rules = worker[w].task.rules
    BY <1>0, <2>2, <2>3, <2>5 DEF Same, TaskType
  <2>7. worker'[w].pc = "answered"
    <3>1. Answer(w)
      BY <1>2 DEF SetStatus
    <3> QED
      BY <1>0, <3>1, IdleTyped DEF Answer, Request, WorkerType
  <2>8. Activates(w, t)
    BY <2>1, <2>3, <2>7 DEF Activates
  <2> QED
    BY <2>5, <2>6, <2>8 DEF Permitted
<1>3. ASSUME NEW x \in TaskId, SaveExecution(x) PROVE Goal
  <2>1. PICK status \in {"active", "completed"} : tasks' = [tasks EXCEPT ![x].status = status]
    BY <1>3 DEF SaveExecution
  <2>2. x = t
    BY <1>0, <2>1
  <2>3. t \in execution.running /\ Runnable(tasks[t])
    BY <1>3, <2>2 DEF SaveExecution, TaskInv, Executions
  <2>4. tasks'[t].rules = tasks[t].rules
    BY <1>0, <2>1 DEF TaskType
  <2> QED
    BY <2>3, <2>4 DEF Runnable
<1>4. ~UNCHANGED tasks
  OBVIOUS
<1> HIDE DEF Goal
<1> QED
  BY <1>1, <1>2, <1>3, <1>4, TasksStep

\* Only the insert of its own request takes a worker from "insert" to "name".
LEMMA InsertsInsert ==
  ASSUME TaskInv, [Next]_vars, NEW w \in Worker, NEW t \in TaskId, Inserts(w, t)
  PROVE  tasks'[t] = worker[w].task
<1>0. /\ tasks \in [TaskId -> TaskType] /\ worker \in [Worker -> WorkerType]
      /\ \A v \in Worker : Checked(worker[v]) /\ Witnessed(worker[v])
      /\ worker[w].pc = "insert" /\ worker'[w].pc = "name" /\ tasks'[t] # tasks[t]
  BY DEF TaskInv, Typed, Requests, Sound, Inserts, At
<1>1. ASSUME NEW v \in Worker, InsertTask(v) PROVE tasks'[t] = worker[w].task
  <2>1. v = w
    BY <1>0, <1>1 DEF InsertTask, At
  <2> QED
    BY <1>0, <1>1, <2>1 DEF InsertTask
<1>2. ASSUME NEW v \in Worker, SetStatus(v) PROVE FALSE
  <2>1. v # w
    BY <1>0, <1>2 DEF SetStatus, At
  <2>2. Answer(v)
    BY <1>2 DEF SetStatus
  <2> QED
    BY <1>0, <2>1, <2>2 DEF Answer
<1>3. ASSUME NEW x \in TaskId, SaveExecution(x) PROVE FALSE
  BY <1>0, <1>3 DEF SaveExecution
<1>4. ~UNCHANGED tasks
  BY <1>0
<1> QED
  BY <1>1, <1>2, <1>3, <1>4, TasksStep

\* The checks of a request still count when it writes: its providers were
\* available during it and can run, and the policy was not archived; and what an
\* execution makes active again can run as well.
THEOREM CreationsPermitted == Spec => CreationsArePermitted
<1>1. TaskInv /\ [Next]_vars =>
        [\A t \in TaskId : (tasks[t].status # "active" /\ tasks'[t].status = "active") =>
           /\ tasks'[t].rules.providers \subseteq Builtin
           /\ \/ t \in execution.running
              \/ \E w \in Worker : /\ Activates(w, t)
                                   /\ tasks'[t].rules.providers \subseteq worker[w].available]_vars
  BY ActivePermitted
<1>2. TaskInv /\ [Next]_vars =>
        [\A w \in Worker, t \in TaskId :
           (Inserts(w, t) /\ worker[w].kind = "create" /\ tasks'[t].source > 0) =>
              /\ worker[w].live
              /\ worker[w].input.policy = -1 => tasks'[t].source >= worker[w].latest]_vars
  <2> SUFFICES ASSUME TaskInv, [Next]_vars, NEW w \in Worker, NEW t \in TaskId,
                      Inserts(w, t), worker[w].kind = "create", tasks'[t].source > 0
               PROVE  /\ worker[w].live
                      /\ worker[w].input.policy = -1 => tasks'[t].source >= worker[w].latest
    OBVIOUS
  <2>1. tasks'[t] = worker[w].task
    BY InsertsInsert
  <2>2. /\ worker[w].live = TRUE
        /\ worker[w].input.policy = -1 => worker[w].latest <= worker[w].task.source
    BY <2>1, Serves DEF Checked, Inserts, At
  <2>3. worker[w].latest \in Nat /\ worker[w].task.source \in Nat
    BY Serves DEF WorkerType, TaskType
  <2> QED
    BY <2>1, <2>2, <2>3
<1>3. Spec => ActiveTasksWerePermitted
  BY <1>1, Invariant, PTL DEF Spec, ActiveTasksWerePermitted
<1>4. Spec => ArchivedPoliciesStayUnused
  BY <1>2, Invariant, PTL DEF Spec, ArchivedPoliciesStayUnused
<1> QED
  BY <1>3, <1>4 DEF CreationsArePermitted
=============================================================================
