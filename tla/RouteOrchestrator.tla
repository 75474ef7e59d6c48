-------------------------- MODULE RouteOrchestrator --------------------------
(***************************************************************************)
(* CanalisRouteOrchestrator (src/packages/core/src/route.ts) with the      *)
(* request pipeline of src/packages/providers/src/execute.ts.  Several     *)
(* execute() calls run at once on one orchestrator; each may be suspended  *)
(* at two awaits, provider.quote and provider.fulfillAuthorized, and the   *)
(* code between two awaits runs without interruption.  The authorizer      *)
(* callback has no await of its own, so it belongs to the step in which    *)
(* the quote arrives.                                                      *)
(***************************************************************************)
EXTENDS Policy, Functions

CONSTANTS
  Call,         \* execute() calls, each with a request id of its own
  Registered,   \* providers of the registry given to the constructor
  Tasks,        \* tasks an orchestrator may be built for
  Quotes,       \* quotes a provider may answer with
  MaxTime,      \* bound on the clock
  MaxSettlements \* bound on the number of different settlements recorded

QuoteType ==
  [providerId : Provider, forRequest : BOOLEAN, price : Int, mint : Mint,
   protocol : Protocol, network : Network \cup {NoNetwork}]

ASSUME RouteAssumption ==
  /\ IsFiniteSet(Provider) /\ IsFiniteSet(Call) /\ Registered \subseteq Provider
  /\ Tasks \subseteq TaskType
  /\ Quotes \subseteq QuoteType
  /\ MaxTime \in Nat /\ MaxSettlements \in Nat

VARIABLES
  task,         \* the Task the orchestrator was built for; never changes
  ceiling,      \* channelCeilingAtomic of every reserved provider
  now,          \* nowUnixSeconds()
  ledger,       \* the TaskLedger
  routes,       \* providerStates: cumulative authorized and spent
  pc,           \* where each call is
  flows,        \* the RouteFlow each call recorded (activeFlow)
  settlements   \* recorded settlements: provider and cumulative amount

vars == <<task, ceiling, now, ledger, routes, pc, flows, settlements>>

NoFlow ==
  [status |-> "none", providerId |-> "none", code |-> "none", amount |-> 0,
   prev |-> 0, next |-> 0, at |-> 0, stamped |-> FALSE]

PC == {"idle", "quoting", "fulfilling", "returned", "rejected", "threw"}

FlowStatus == {"none", "rejected", "authorized", "fulfilled", "failed"}

FlowCode ==
  SpendCode \cup {"none", "PROVIDER_NOT_FOUND", "PROVIDER_NOT_RESERVED",
                  "MINT_MISMATCH"}

\* The flows that hold an authorization, whatever became of the paid call.
Accepted == {"authorized", "fulfilled", "failed"}

-----------------------------------------------------------------------------
\* Mutant of AcceptsReservations: the registry is not consulted.
AcceptsUnregistered(t, r) ==
  /\ \A p \in DOMAIN r :
       /\ r[p] > 0
       /\ p \in t.policy.allowedProviderIds \ t.policy.blockedProviderIds
       /\ \A cap \in t.policy.providerCaps[p] : r[p] <= cap
  /\ MapThenSumSet(LAMBDA p : r[p], DOMAIN r) <= t.total

(* The constructor accepts reservations one by one and throws at the first *)
(* that breaks a rule; the ones it accepts are exactly these.  A function  *)
(* cannot name a provider twice, which is its duplicate check.             *)
AcceptsReservations(t, r) ==
  /\ \A p \in DOMAIN r :
       /\ r[p] > 0
       /\ p \in Registered
       /\ p \notin t.policy.blockedProviderIds
       /\ p \in t.policy.allowedProviderIds
       /\ \A cap \in t.policy.providerCaps[p] : r[p] <= cap
  /\ MapThenSumSet(LAMBDA p : r[p], DOMAIN r) <= t.total

Reservations(t) == UNION {[S -> 1..t.total] : S \in SUBSET Provider}

Init ==
  /\ task \in Tasks
  /\ ceiling \in {r \in Reservations(task) : AcceptsReservations(task, r)}
  /\ now = 0
  /\ ledger = [taskId |-> task.id, spent |-> 0,
               providerSpent |-> [p \in Provider |-> 0]]
  /\ routes = [p \in DOMAIN ceiling |-> [cumulative |-> 0, spent |-> 0]]
  /\ pc = [c \in Call |-> "idle"]
  /\ flows = [c \in Call |-> NoFlow]
  /\ settlements = {}

-----------------------------------------------------------------------------
(* pushRejectedFlow: a rejected flow, the call's only trace. *)
PushRejectedFlow(c, p, code, amount, prev) ==
  /\ flows' = [flows EXCEPT ![c] =
       [status |-> "rejected", providerId |-> p, code |-> code,
        amount |-> amount, prev |-> prev, next |-> prev + amount, at |-> now,
        stamped |-> FALSE]]
  /\ pc' = [pc EXCEPT ![c] = "rejected"]
  /\ UNCHANGED <<ledger, routes>>

\* recordImmediateRejection: no channel to ask for, so nothing is quoted.
ImmediateRejection(c, p) ==
  /\ p \notin Registered \cap DOMAIN ceiling
  /\ PushRejectedFlow(c, p,
       IF p \notin Registered THEN "PROVIDER_NOT_FOUND"
                              ELSE "PROVIDER_NOT_RESERVED", 0, 0)

\* execute: look the provider up and ask it for a quote.
Execute(c, p) ==
  /\ pc[c] = "idle"
  /\ \/ ImmediateRejection(c, p)
     \/ /\ p \in Registered \cap DOMAIN ceiling
        /\ pc' = [pc EXCEPT ![c] = "quoting"]
        /\ flows' = [flows EXCEPT ![c].providerId = p]
        /\ UNCHANGED <<ledger, routes>>
  /\ UNCHANGED <<task, ceiling, now, settlements>>

\* assertQuoteMatchesRequest.
QuoteMatches(c, q) ==
  q.providerId = flows[c].providerId /\ q.forRequest /\ q.price > 0

\* Mutant of Proposal: the task total stands in for the channel ceiling.
ProposalUnderTotal(p, q) ==
  [task |-> task, ledger |-> ledger, provider |-> p, amount |-> q.price,
   current |-> routes[p].cumulative, next |-> routes[p].cumulative + q.price,
   ceiling |-> task.total, now |-> now, mint |-> q.mint,
   protocol |-> q.protocol, network |-> q.network]

\* The proposal the authorizer hands to evaluateSpend: it reads the route and
\* the clock when the quote is there, not when it was asked for.
Proposal(p, q) ==
  [task |-> task, ledger |-> ledger, provider |-> p, amount |-> q.price,
   current |-> routes[p].cumulative, next |-> routes[p].cumulative + q.price,
   ceiling |-> ceiling[p], now |-> now, mint |-> q.mint,
   protocol |-> q.protocol, network |-> q.network]

\* The authorizer's decision: the quote's mint is compared with the budget's
\* before the policy is asked.
Decision(p, q) ==
  IF q.mint # task.mint
  THEN [allowed |-> FALSE, code |-> "MINT_MISMATCH"]
  ELSE EvaluateSpend(Proposal(p, q))

\* Mutant of Authorize: the watermark waits for the provider's receipt.
AuthorizeWithoutWatermark(c, p, q) ==
  /\ ledger' = ApplyApprovedSpend(ledger, p, q.price)
  /\ flows' = [flows EXCEPT ![c] =
       [status |-> "authorized", providerId |-> p, code |-> "none",
        amount |-> q.price, prev |-> routes[p].cumulative,
        next |-> routes[p].cumulative + q.price, at |-> now, stamped |-> FALSE]]
  /\ pc' = [pc EXCEPT ![c] = "fulfilling"]
  /\ UNCHANGED routes

\* The authorizer's accepting branch, up to the call of fulfillAuthorized.
Authorize(c, p, q) ==
  LET prev == routes[p].cumulative IN
  /\ ledger' = ApplyApprovedSpend(ledger, p, q.price)
  /\ routes' = [routes EXCEPT ![p] =
       [cumulative |-> prev + q.price,
        spent |-> ledger.providerSpent[p] + q.price]]
  /\ flows' = [flows EXCEPT ![c] =
       [status |-> "authorized", providerId |-> p, code |-> "none",
        amount |-> q.price, prev |-> prev, next |-> prev + q.price,
        at |-> now, stamped |-> FALSE]]
  /\ pc' = [pc EXCEPT ![c] = "fulfilling"]

\* The quote arrives: a quote for something else throws before any flow is
\* recorded, a rejected one is recorded and costs nothing, an allowed one is
\* charged before the provider is asked to fulfil it.
QuoteArrives(c, q) ==
  LET p == flows[c].providerId IN
  /\ pc[c] = "quoting"
  /\ \/ /\ ~QuoteMatches(c, q)
        /\ pc' = [pc EXCEPT ![c] = "threw"]
        /\ UNCHANGED <<ledger, routes, flows>>
     \/ /\ QuoteMatches(c, q)
        /\ ~Decision(p, q).allowed
        /\ PushRejectedFlow(c, p, Decision(p, q).code, q.price,
                            routes[p].cumulative)
     \/ /\ QuoteMatches(c, q)
        /\ Decision(p, q).allowed
        /\ Authorize(c, p, q)
  /\ UNCHANGED <<task, ceiling, now, settlements>>

\* provider.quote rejects: rethrown, no flow was recorded.
QuoteFails(c) ==
  /\ pc[c] = "quoting"
  /\ pc' = [pc EXCEPT ![c] = "threw"]
  /\ UNCHANGED <<task, ceiling, now, ledger, routes, flows, settlements>>

\* fulfillAuthorized resolves: the flow gets its receipt.
Fulfilled(c) ==
  /\ pc[c] = "fulfilling"
  /\ pc' = [pc EXCEPT ![c] = "returned"]
  /\ flows' = [flows EXCEPT ![c].status = "fulfilled"]
  /\ UNCHANGED <<task, ceiling, now, ledger, routes, settlements>>

\* fulfillAuthorized rejects: the flow is failed and the error rethrown; what
\* was authorized stays authorized.
FulfillmentFails(c) ==
  /\ pc[c] = "fulfilling"
  /\ pc' = [pc EXCEPT ![c] = "threw"]
  /\ flows' = [flows EXCEPT ![c].status = "failed"]
  /\ UNCHANGED <<task, ceiling, now, ledger, routes, settlements>>

\* Mutant of Stamp: undelivered flows are stamped too.
StampUndelivered(p, amount) ==
  [c \in Call |->
     IF flows[c].providerId = p /\ flows[c].next <= amount
     THEN [flows[c] EXCEPT !.stamped = TRUE]
     ELSE flows[c]]

\* recordSettlement stamps every fulfilled flow the amount covers.
Stamp(p, amount) ==
  [c \in Call |->
     IF /\ flows[c].providerId = p
        /\ flows[c].status = "fulfilled"
        /\ flows[c].next <= amount
     THEN [flows[c] EXCEPT !.stamped = TRUE]
     ELSE flows[c]]

RecordSettlement(p, amount) ==
  /\ p \in DOMAIN ceiling
  /\ amount >= 0
  /\ amount <= routes[p].cumulative
  /\ Cardinality(settlements) < MaxSettlements
  /\ settlements' = settlements \cup {[providerId |-> p, amount |-> amount]}
  /\ flows' = Stamp(p, amount)
  /\ UNCHANGED <<task, ceiling, now, ledger, routes, pc>>

Tick ==
  /\ now < MaxTime
  /\ now' = now + 1
  /\ UNCHANGED <<task, ceiling, ledger, routes, pc, flows, settlements>>

Next ==
  \/ \E c \in Call, p \in Provider : Execute(c, p)
  \/ \E c \in Call, q \in Quotes : QuoteArrives(c, q)
  \/ \E c \in Call : QuoteFails(c) \/ Fulfilled(c) \/ FulfillmentFails(c)
  \/ \E p \in Provider : \E amount \in 0..task.total : RecordSettlement(p, amount)
  \/ Tick

Spec == Init /\ [][Next]_vars

-----------------------------------------------------------------------------
(* Type invariant. *)
FlowType ==
  [status : FlowStatus, providerId : Provider \cup {"none"}, code : FlowCode,
   amount : Int, prev : Nat, next : Int, at : Nat, stamped : BOOLEAN]

\* Every variable keeps its type; in particular no counter of atomic units goes
\* below zero (bigint would let it) and the task and ceilings are well formed.
TypeOK ==
  /\ task \in Tasks
  /\ DOMAIN ceiling \subseteq Provider \cap Registered
  /\ ceiling \in [DOMAIN ceiling -> Nat]
  /\ now \in Nat
  /\ ledger \in LedgerType
  /\ routes \in [DOMAIN ceiling -> [cumulative : Nat, spent : Nat]]
  /\ pc \in [Call -> PC]
  /\ flows \in [Call -> FlowType]
  /\ settlements \subseteq [providerId : DOMAIN ceiling, amount : Nat]

(* Safety. *)

\* What the owner approved is never exceeded, whatever the interleaving of the
\* calls: not the task's total, no channel ceiling, no provider cap, and the
\* per-provider ledger and the voucher watermark never drift apart
\* (docs/ARCHITECTURE.md:163).
WithinMandate ==
  /\ ledger.spent <= task.total
  /\ \A p \in DOMAIN ceiling :
       /\ routes[p].cumulative <= ceiling[p]
       /\ routes[p].spent = routes[p].cumulative
       /\ ledger.providerSpent[p] = routes[p].cumulative
       /\ \A cap \in task.policy.providerCaps[p] : ceiling[p] <= cap

\* What the flows of a provider that hold an authorization were charged.
Charged(p) ==
  [c \in Call |-> IF flows[c].status \in Accepted /\ flows[c].providerId = p
                  THEN flows[c].amount ELSE 0]

\* The ledger, the watermarks and the flows are three accounts of one spend:
\* the task's total is the sum of the watermarks, and each watermark the sum of
\* the flows that hold an authorization, the failed ones included.
LedgerIsSumOfFlows ==
  /\ ledger.spent = SumFunction([p \in DOMAIN ceiling |-> routes[p].cumulative])
  /\ \A p \in DOMAIN ceiling : routes[p].cumulative = SumFunction(Charged(p))

\* The authorizations of one provider are disjoint voucher intervals below its
\* watermark: no two calls ever get the same cumulative voucher, which is what
\* makes paymentReference (task, provider, next cumulative) name one flow.
WatermarksTile ==
  \A c \in Call : flows[c].status \in Accepted =>
    LET p == flows[c].providerId IN
    /\ p \in DOMAIN ceiling
    /\ flows[c].prev < flows[c].next
    /\ flows[c].next <= routes[p].cumulative
    /\ \A d \in Call \ {c} :
         flows[d].status \in Accepted /\ flows[d].providerId = p =>
           flows[c].next <= flows[d].prev \/ flows[d].next <= flows[c].prev

\* Paid work is asked for only under an authorization of its own that the
\* policy allowed when it was given: an active task inside its window, an
\* allowed and unblocked provider, an amount within the per-call cap.  A call
\* that was rejected or threw while quoting never reached the paid request.
PaidWorkIsAuthorized ==
  \A c \in Call :
    /\ pc[c] \in {"fulfilling", "returned"} <=>
         flows[c].status \in {"authorized", "fulfilled"}
    /\ flows[c].status \in Accepted =>
         /\ task.status = "active"
         /\ task.expiresAt = 0 \/ flows[c].at < task.expiresAt
         /\ flows[c].providerId \in task.policy.allowedProviderIds
         /\ flows[c].providerId \notin task.policy.blockedProviderIds
         /\ \A cap \in task.policy.maxPerCall : flows[c].amount <= cap

\* A settlement is never above what was authorized, and a flow carries a
\* settlement signature only if its work was delivered and some recorded
\* settlement of its provider reaches its voucher.
SettlementsCoverStampedFlows ==
  /\ \A s \in settlements : s.amount <= routes[s.providerId].cumulative
  /\ \A c \in Call : flows[c].stamped =>
       /\ flows[c].status = "fulfilled"
       /\ \E s \in settlements :
            s.providerId = flows[c].providerId /\ flows[c].next <= s.amount

(* An action property. *)

\* An authorization is never rolled back or rewritten, not even when the
\* provider fails afterwards (core/test/hardening.test.ts:126); a delivered
\* or failed flow stays what it is.
AuthorizationsAreFinal ==
  [][/\ \A p \in DOMAIN ceiling : routes'[p].cumulative >= routes[p].cumulative
     /\ \A c \in Call : flows[c].status \in Accepted =>
          /\ flows'[c].status = flows[c].status \/ flows[c].status = "authorized"
          /\ flows'[c].status \in Accepted
          /\ flows'[c].next = flows[c].next /\ flows'[c].at = flows[c].at
    ]_vars

(* Refinement. *)
Budget == INSTANCE TaskBudget WITH
  total <- task.total,
  authorized <- [p \in DOMAIN ceiling |-> routes[p].cumulative],
  spent <- ledger.spent

\* The orchestrator implements the promise of TaskBudget.
ImplementsTaskBudget == Budget!Spec
=============================================================================
