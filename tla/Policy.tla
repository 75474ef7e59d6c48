------------------------------- MODULE Policy -------------------------------
(***************************************************************************)
(* The spend policy of packages/core: the pure decision evaluateSpend and  *)
(* the pure ledger update applyApprovedSpend (src/packages/core/src/       *)
(* policy.ts).  A field the code may leave undefined is a set of at most   *)
(* one value; a list the code reads as "no restriction" when it is empty   *)
(* is a set with the same reading.                                         *)
(***************************************************************************)
EXTENDS Integers, FiniteSetsExt

CONSTANTS
  TaskId,     \* task ids
  Provider,   \* provider ids an agent may name
  Mint,       \* asset mints
  Protocol,   \* payment protocols: demo, x402, mpp
  Network,    \* network ids a quote may declare
  NoNetwork   \* a quote without protocolMetadata.network

PolicyType ==
  [allowedProviderIds : SUBSET Provider,
   blockedProviderIds : SUBSET Provider,
   allowedMints       : SUBSET Mint,
   allowedProtocols   : SUBSET Protocol,
   allowedNetworks    : SUBSET Network,
   maxPerCall         : SUBSET Nat,
   providerCaps       : [Provider -> SUBSET Nat]]

TaskStatus == {"draft", "active", "completed", "cancelled", "archived"}

TaskType ==
  [id : TaskId, status : TaskStatus, expiresAt : Nat, total : Nat, mint : Mint,
   policy : PolicyType]

LedgerType ==
  [taskId : TaskId, spent : Nat, providerSpent : [Provider -> Nat]]

-----------------------------------------------------------------------------
(* The reasons of evaluateSpend, in the order in which the code tests them. *)
CheckOrder ==
  << "LEDGER_TASK_MISMATCH", "TASK_NOT_ACTIVE", "TASK_EXPIRED",
     "INVALID_AMOUNT", "PROVIDER_BLOCKED", "PROVIDER_NOT_ALLOWED", "MINT_NOT_ALLOWED",
     "PROTOCOL_NOT_ALLOWED", "NETWORK_NOT_ALLOWED", "PER_CALL_CAP_EXCEEDED",
     "NON_MONOTONIC_VOUCHER", "VOUCHER_DELTA_MISMATCH",
     "CHANNEL_CEILING_EXCEEDED", "PROVIDER_CAP_EXCEEDED",
     "TASK_BUDGET_EXCEEDED" >>

SpendCode == {CheckOrder[i] : i \in DOMAIN CheckOrder}

Restricts(allowed, x) == allowed # {} /\ x \notin allowed

\* Mutant of Unexpired: the expiry second still counts.
UnexpiredInclusive(task, now) == task.expiresAt = 0 \/ now <= task.expiresAt

\* A task is inside its spending window; 0 means that it never expires.
Unexpired(task, now) == task.expiresAt = 0 \/ now < task.expiresAt

\* Which tests of evaluateSpend a proposal fails.
Violations(s) ==
  LET policy == s.task.policy IN
  [LEDGER_TASK_MISMATCH   |-> s.ledger.taskId # s.task.id,
   TASK_NOT_ACTIVE        |-> s.task.status # "active",
   TASK_EXPIRED           |-> ~Unexpired(s.task, s.now),
   INVALID_AMOUNT         |-> s.amount <= 0,
   PROVIDER_BLOCKED       |-> s.provider \in policy.blockedProviderIds,
   PROVIDER_NOT_ALLOWED   |-> s.provider \notin policy.allowedProviderIds,
   MINT_NOT_ALLOWED       |-> Restricts(policy.allowedMints, s.mint),
   PROTOCOL_NOT_ALLOWED   |-> Restricts(policy.allowedProtocols, s.protocol),
   NETWORK_NOT_ALLOWED    |-> Restricts(policy.allowedNetworks, s.network),
   PER_CALL_CAP_EXCEEDED  |-> \E cap \in policy.maxPerCall : s.amount > cap,
   NON_MONOTONIC_VOUCHER  |-> s.next <= s.current,
   VOUCHER_DELTA_MISMATCH |-> s.next - s.current # s.amount,
   CHANNEL_CEILING_EXCEEDED |-> s.next > s.ceiling,
   PROVIDER_CAP_EXCEEDED  |->
     \E cap \in policy.providerCaps[s.provider] :
        s.ledger.providerSpent[s.provider] + s.amount > cap,
   TASK_BUDGET_EXCEEDED   |-> s.ledger.spent + s.amount > s.task.total]

\* Mutant of Allowed: the channel ceiling is left to the task budget.
AllowedWithoutCeiling(s) ==
  \A code \in SpendCode \ {"CHANNEL_CEILING_EXCEEDED"} : ~Violations(s)[code]

Allowed(s) == \A code \in SpendCode : ~Violations(s)[code]

\* evaluateSpend: the decision, and the code of the first test that fails.
EvaluateSpend(s) ==
  [allowed |-> Allowed(s),
   code |-> IF Allowed(s) THEN "none"
            ELSE CheckOrder[Min({i \in DOMAIN CheckOrder :
                                   Violations(s)[CheckOrder[i]]})]]

\* Mutant of ApplyApprovedSpend: the task total grows from the provider's.
SpendFromProviderTotal(ledger, provider, amount) ==
  [taskId |-> ledger.taskId,
   spent |-> ledger.providerSpent[provider] + amount,
   providerSpent |-> [ledger.providerSpent EXCEPT ![provider] = @ + amount]]

\* applyApprovedSpend: the ledger after an allowed spend of amount.
ApplyApprovedSpend(ledger, provider, amount) ==
  [taskId |-> ledger.taskId,
   spent |-> ledger.spent + amount,
   providerSpent |-> [ledger.providerSpent EXCEPT ![provider] = @ + amount]]
=============================================================================
