----------------------- MODULE RouteOrchestratorProofs -----------------------
(***************************************************************************)
(* Proofs about RouteOrchestrator for any number of providers and calls,   *)
(* any tasks and any quotes; and about Reservations, the split of a budget *)
(* that gives it its ceilings.                                             *)
(***************************************************************************)
EXTENDS RouteOrchestrator, Reservations, FiniteSetTheorems, WellFoundedInduction, TLAPS

-----------------------------------------------------------------------------
(* Facts about the policy. *)

\* A nonempty set of natural numbers has a least element: the intervals 0..x
\* below its members are finite, and strict inclusion between finite sets is
\* well founded.
LEMMA LeastElement ==
  ASSUME NEW S, S \subseteq Nat, S # {}
  PROVE  Min(S) \in S
<1> DEFINE T == {0..x : x \in S}
           R == StrictSubsetOrdering(Nat)
<1>1. T \subseteq FiniteSubsetsOf(Nat)
  <2>1. ASSUME NEW x \in S
        PROVE  0..x \subseteq Nat /\ IsFiniteSet(0..x)
    <3>1. x \in Int /\ 0 \in Int
      OBVIOUS
    <3>2. IsFiniteSet(0..x)
      BY <3>1, FS_Interval
    <3> QED
      BY <3>2
  <2> QED
    BY <2>1 DEF FiniteSubsetsOf
<1>2. PICK t \in T : \A u \in T : ~(<<u, t>> \in R)
  <2> HIDE DEF T
  <2>1. T # {}
    BY DEF T
  <2> QED
    BY <1>1, <2>1, FS_StrictSubsetOrderingWellFounded, WFMin
<1>3. PICK x \in S : t = 0..x
  OBVIOUS
<1>4. ASSUME NEW y \in S
      PROVE  x <= y
  <2>1. ~(<<0..y, 0..x>> \in R)
    BY <1>2, <1>3
  <2>2. ~(0..y \subseteq 0..x /\ 0..y # 0..x)
    BY <2>1 DEF StrictSubsetOrdering
  <2>3. CASE y < x
    <3>1. 0..y \subseteq 0..x /\ x \in 0..x /\ x \notin 0..y
      BY <2>3
    <3> QED
      BY <2>2, <3>1
  <2> QED
    BY <2>3
<1> QED
  BY <1>4 DEF Min

\* evaluateSpend names one of its own reasons when it refuses.
LEMMA RefusalHasACode ==
  ASSUME NEW s, ~Allowed(s)
  PROVE  EvaluateSpend(s).code \in SpendCode
<1> DEFINE Failing == {i \in DOMAIN CheckOrder : Violations(s)[CheckOrder[i]]}
<1>1. Failing # {}
  BY DEF Allowed, SpendCode
<1>2. DOMAIN CheckOrder = 1..15
  BY DEF CheckOrder
<1>3. Min(Failing) \in Failing
  BY <1>1, <1>2, LeastElement
<1>4. EvaluateSpend(s).code = CheckOrder[Min(Failing)]
  BY DEF EvaluateSpend
<1> QED
  BY <1>3, <1>4 DEF SpendCode

\* What an allowed proposal satisfies.
LEMMA AllowedSpend ==
  ASSUME NEW s, Allowed(s)
  PROVE  /\ s.task.status = "active"
         /\ Unexpired(s.task, s.now)
         /\ s.provider \in s.task.policy.allowedProviderIds
         /\ s.provider \notin s.task.policy.blockedProviderIds
         /\ \A cap \in s.task.policy.maxPerCall : ~(s.amount > cap)
         /\ ~(s.next > s.ceiling)
         /\ ~(s.ledger.spent + s.amount > s.task.total)
<1> DEFINE V == Violations(s)
<1>1. \A code \in SpendCode : ~V[code]
  BY DEF Allowed
<1>2. {"TASK_NOT_ACTIVE", "TASK_EXPIRED", "PROVIDER_BLOCKED",
       "PROVIDER_NOT_ALLOWED", "PER_CALL_CAP_EXCEEDED",
       "CHANNEL_CEILING_EXCEEDED", "TASK_BUDGET_EXCEEDED"} \subseteq SpendCode
  BY DEF SpendCode, CheckOrder
<1>3. /\ ~V["TASK_NOT_ACTIVE"] /\ ~V["TASK_EXPIRED"]
      /\ ~V["PROVIDER_BLOCKED"] /\ ~V["PROVIDER_NOT_ALLOWED"]
      /\ ~V["PER_CALL_CAP_EXCEEDED"] /\ ~V["CHANNEL_CEILING_EXCEEDED"]
      /\ ~V["TASK_BUDGET_EXCEEDED"]
  BY <1>1, <1>2
<1> QED
  BY <1>3 DEF Violations

\* What the authorizer's accepting branch may rely on.
LEMMA AcceptedQuote ==
  ASSUME NEW p, NEW q, Decision(p, q).allowed
  PROVE  /\ task.status = "active"
         /\ Unexpired(task, now)
         /\ p \in task.policy.allowedProviderIds
         /\ p \notin task.policy.blockedProviderIds
         /\ \A cap \in task.policy.maxPerCall : ~(q.price > cap)
         /\ ~(routes[p].cumulative + q.price > ceiling[p])
         /\ ~(ledger.spent + q.price > task.total)
<1>1. Allowed(Proposal(p, q))
  BY DEF Decision, EvaluateSpend
<1>2. /\ Proposal(p, q).task = task
      /\ Proposal(p, q).now = now
      /\ Proposal(p, q).provider = p
      /\ Proposal(p, q).amount = q.price
      /\ Proposal(p, q).next = routes[p].cumulative + q.price
      /\ Proposal(p, q).ceiling = ceiling[p]
      /\ Proposal(p, q).ledger = ledger
  BY DEF Proposal
<1> QED
  BY <1>1, <1>2, AllowedSpend

\* A refused quote leaves a flow with a reason the type invariant knows.
LEMMA RefusedQuote ==
  ASSUME NEW p, NEW q, ~Decision(p, q).allowed
  PROVE  Decision(p, q).code \in FlowCode
<1>1. CASE q.mint # task.mint
  BY <1>1 DEF Decision, FlowCode
<1>2. CASE q.mint = task.mint
  <2>1. Decision(p, q) = EvaluateSpend(Proposal(p, q))
    BY <1>2 DEF Decision
  <2>2. ~Allowed(Proposal(p, q))
    BY <2>1 DEF EvaluateSpend
  <2> QED
    BY <2>1, <2>2, RefusalHasACode DEF FlowCode
<1> QED
  BY <1>1, <1>2

-----------------------------------------------------------------------------
(* Type correctness. *)

\* Where a call is tells what its flow looks like.
FlowFollowsCall ==
  \A c \in Call :
    /\ pc[c] \in {"idle", "quoting"} => flows[c].status = "none"
    /\ pc[c] = "quoting" => flows[c].providerId \in DOMAIN ceiling
    /\ pc[c] = "fulfilling" => flows[c].status = "authorized"
    /\ pc[c] = "returned" => flows[c].status = "fulfilled"
    /\ pc[c] = "rejected" => flows[c].status = "rejected"
    /\ pc[c] = "threw" => flows[c].status \in {"none", "failed"}

\* What the type of a task says of its parts.
LEMMA TaskFacts ==
  ASSUME TypeOK
  PROVE  /\ task.id \in TaskId /\ task.total \in Nat
         /\ task.expiresAt \in Nat /\ task.mint \in Mint
         /\ \A p \in Provider : task.policy.providerCaps[p] \subseteq Nat
         /\ task.policy.maxPerCall \subseteq Nat
BY RouteAssumption DEF TypeOK, TaskType, PolicyType

\* The result of the ledger update and the route update of one authorization.
LEMMA AuthorizeEffect ==
  ASSUME TypeOK, NEW c \in Call, NEW q \in Quotes, NEW p \in DOMAIN ceiling,
         q.price > 0, Authorize(c, p, q)
  PROVE  /\ ledger' \in LedgerType
         /\ ledger'.taskId = ledger.taskId
         /\ ledger'.spent = ledger.spent + q.price
         /\ \A r \in Provider : ledger'.providerSpent[r] =
              IF r = p THEN ledger.providerSpent[r] + q.price
                       ELSE ledger.providerSpent[r]
         /\ routes' \in [DOMAIN ceiling -> [cumulative : Nat, spent : Nat]]
         /\ routes'[p].cumulative = routes[p].cumulative + q.price
         /\ routes'[p].spent = ledger.providerSpent[p] + q.price
         /\ \A r \in DOMAIN ceiling : r # p => routes'[r] = routes[r]
         /\ flows' \in [Call -> FlowType]
         /\ flows'[c].status = "authorized" /\ flows'[c].providerId = p
         /\ flows'[c].amount = q.price
         /\ flows'[c].prev = routes[p].cumulative
         /\ flows'[c].next = routes[p].cumulative + q.price
         /\ flows'[c].at = now /\ ~flows'[c].stamped
         /\ \A d \in Call : d # c => flows'[d] = flows[d]
<1>1. q.price \in Int /\ q.price \in Nat /\ p \in Provider
  BY RouteAssumption DEF QuoteType, TypeOK
<1>2. ledger.spent \in Nat /\ ledger.providerSpent \in [Provider -> Nat]
  BY DEF TypeOK, LedgerType
<1>3. routes[p].cumulative \in Nat
  BY DEF TypeOK
<1>4. ledger' =
        [taskId |-> ledger.taskId, spent |-> ledger.spent + q.price,
         providerSpent |->
           [ledger.providerSpent EXCEPT ![p] = @ + q.price]]
  BY DEF Authorize, ApplyApprovedSpend
<1>5. /\ ledger' \in LedgerType
      /\ ledger'.taskId = ledger.taskId
      /\ ledger'.spent = ledger.spent + q.price
      /\ \A r \in Provider : ledger'.providerSpent[r] =
           IF r = p THEN ledger.providerSpent[r] + q.price
                    ELSE ledger.providerSpent[r]
  <2>1. [ledger.providerSpent EXCEPT ![p] = @ + q.price] \in [Provider -> Nat]
    BY <1>1, <1>2
  <2> QED
    BY <1>1, <1>2, <1>4, <2>1 DEF TypeOK, LedgerType
<1>6. routes' = [routes EXCEPT ![p] =
         [cumulative |-> routes[p].cumulative + q.price,
          spent |-> ledger.providerSpent[p] + q.price]]
  BY DEF Authorize
<1>7. /\ routes' \in [DOMAIN ceiling -> [cumulative : Nat, spent : Nat]]
      /\ routes'[p].cumulative = routes[p].cumulative + q.price
      /\ routes'[p].spent = ledger.providerSpent[p] + q.price
      /\ \A r \in DOMAIN ceiling : r # p => routes'[r] = routes[r]
  BY <1>1, <1>2, <1>3, <1>6 DEF TypeOK
<1>8. flows' = [flows EXCEPT ![c] =
         [status |-> "authorized", providerId |-> p, code |-> "none",
          amount |-> q.price, prev |-> routes[p].cumulative,
          next |-> routes[p].cumulative + q.price,
          at |-> now, stamped |-> FALSE]]
  BY DEF Authorize
<1>9. flows' \in [Call -> FlowType]
  BY <1>1, <1>3, <1>8 DEF TypeOK, FlowType, FlowStatus, FlowCode
<1>10. /\ flows'[c].status = "authorized" /\ flows'[c].providerId = p
       /\ flows'[c].amount = q.price
       /\ flows'[c].prev = routes[p].cumulative
       /\ flows'[c].next = routes[p].cumulative + q.price
       /\ flows'[c].at = now /\ ~flows'[c].stamped
       /\ \A d \in Call : d # c => flows'[d] = flows[d]
  BY <1>8 DEF TypeOK
<1> QED
  BY <1>5, <1>7, <1>9, <1>10

\* Stamping changes nothing but the stamp, and only under its guard.
LEMMA StampEffect ==
  ASSUME TypeOK, NEW p, NEW amount
  PROVE  /\ Stamp(p, amount) \in [Call -> FlowType]
         /\ \A c \in Call :
              LET f == Stamp(p, amount)[c] IN
              /\ f.status = flows[c].status /\ f.providerId = flows[c].providerId
              /\ f.amount = flows[c].amount /\ f.prev = flows[c].prev
              /\ f.next = flows[c].next /\ f.at = flows[c].at
              /\ f.stamped => \/ flows[c].stamped
                              \/ /\ flows[c].status = "fulfilled"
                                 /\ flows[c].providerId = p
                                 /\ flows[c].next <= amount
<1>1. ASSUME NEW c \in Call
      PROVE  LET f == Stamp(p, amount)[c] IN
             /\ f \in FlowType
             /\ f.status = flows[c].status /\ f.providerId = flows[c].providerId
             /\ f.amount = flows[c].amount /\ f.prev = flows[c].prev
             /\ f.next = flows[c].next /\ f.at = flows[c].at
             /\ f.stamped => \/ flows[c].stamped
                             \/ /\ flows[c].status = "fulfilled"
                                /\ flows[c].providerId = p
                                /\ flows[c].next <= amount
  <2>1. flows[c] \in FlowType
    BY DEF TypeOK
  <2>2. CASE Stamp(p, amount)[c] = flows[c]
    BY <2>1, <2>2
  <2>3. CASE /\ flows[c].providerId = p /\ flows[c].status = "fulfilled"
             /\ flows[c].next <= amount
             /\ Stamp(p, amount)[c] = [flows[c] EXCEPT !.stamped = TRUE]
    BY <2>1, <2>3 DEF FlowType
  <2> QED
    BY <2>2, <2>3 DEF Stamp
<1> QED
  BY <1>1 DEF Stamp

\* The constructor sets every variable to a value of its type.
LEMMA InitTypeOK == Init => TypeOK
<1> SUFFICES ASSUME Init
             PROVE  TypeOK
  OBVIOUS
<1>1. task \in TaskType
  BY RouteAssumption DEF Init
<1>2. AcceptsReservations(task, ceiling) /\ ceiling \in Reservations(task)
  BY DEF Init
<1>3. PICK S \in SUBSET Provider : ceiling \in [S -> 1..task.total]
  BY <1>2 DEF Reservations
<1>4. ceiling \in [DOMAIN ceiling -> Nat] /\ DOMAIN ceiling \subseteq Provider
  BY <1>1, <1>3 DEF TaskType
<1>5. DOMAIN ceiling \subseteq Registered
  BY <1>2 DEF AcceptsReservations
<1>6. ledger \in LedgerType
  BY <1>1 DEF Init, LedgerType, TaskType
<1>7. NoFlow \in FlowType
  BY DEF NoFlow, FlowType, FlowStatus, FlowCode
<1>8. routes \in [DOMAIN ceiling -> [cumulative : Nat, spent : Nat]]
  BY DEF Init
<1>9. pc \in [Call -> PC]
  BY DEF Init, PC
<1>10. flows \in [Call -> FlowType]
  BY <1>7 DEF Init
<1> QED
  BY <1>4, <1>5, <1>6, <1>8, <1>9, <1>10 DEF Init, TypeOK

\* Each action keeps the types.  The last conjunct of the hypothesis is what
\* makes a quoting call's provider one of the reserved ones.
LEMMA NextTypeOK ==
  ASSUME TypeOK, FlowFollowsCall, [Next]_vars
  PROVE  TypeOK'
<1>1. ASSUME NEW c \in Call, NEW p \in Provider, Execute(c, p)
      PROVE  TypeOK'
  <2>1. CASE ImmediateRejection(c, p)
    <3>1. flows' \in [Call -> FlowType]
      BY <2>1 DEF ImmediateRejection, PushRejectedFlow, TypeOK, FlowType,
                  FlowStatus, FlowCode
    <3>2. pc' \in [Call -> PC]
      BY <2>1 DEF ImmediateRejection, PushRejectedFlow, TypeOK, PC
    <3> QED
      BY <1>1, <2>1, <3>1, <3>2
      DEF Execute, ImmediateRejection, PushRejectedFlow, TypeOK
  <2>2. CASE ~ImmediateRejection(c, p)
    <3>1. /\ pc' = [pc EXCEPT ![c] = "quoting"]
          /\ flows' = [flows EXCEPT ![c].providerId = p]
          /\ UNCHANGED <<ledger, routes>>
      BY <1>1, <2>2 DEF Execute
    <3>2. flows' \in [Call -> FlowType] /\ pc' \in [Call -> PC]
      BY <3>1 DEF TypeOK, FlowType, PC
    <3> QED
      BY <1>1, <3>1, <3>2 DEF Execute, TypeOK
  <2> QED
    BY <2>1, <2>2
<1>2. ASSUME NEW c \in Call, NEW q \in Quotes, QuoteArrives(c, q)
      PROVE  TypeOK'
  <2> DEFINE p == flows[c].providerId
  <2>1. p \in DOMAIN ceiling /\ p \in Provider
    BY <1>2 DEF QuoteArrives, FlowFollowsCall, TypeOK
  <2>2. q \in QuoteType
    BY RouteAssumption
  <2>3. CASE ~QuoteMatches(c, q)
    BY <1>2, <2>3 DEF QuoteArrives, TypeOK, PC
  <2>4. CASE QuoteMatches(c, q) /\ ~Decision(p, q).allowed
    <3>1. PushRejectedFlow(c, p, Decision(p, q).code, q.price,
                           routes[p].cumulative)
      BY <1>2, <2>4 DEF QuoteArrives
    <3>2. Decision(p, q).code \in FlowCode
      BY <2>4, RefusedQuote
    <3>3. q.price \in Int /\ routes[p].cumulative \in Nat
      BY <2>1, <2>2 DEF QuoteType, TypeOK
    <3>4. flows' \in [Call -> FlowType]
      BY <2>1, <3>1, <3>2, <3>3
      DEF PushRejectedFlow, TypeOK, FlowType, FlowStatus
    <3> QED
      BY <1>2, <3>1, <3>4 DEF QuoteArrives, PushRejectedFlow, TypeOK, PC
  <2>5. CASE QuoteMatches(c, q) /\ Decision(p, q).allowed
    <3>1. Authorize(c, p, q) /\ q.price > 0
      BY <1>2, <2>5 DEF QuoteArrives, QuoteMatches
    <3>2. /\ ledger' \in LedgerType
          /\ routes' \in [DOMAIN ceiling -> [cumulative : Nat, spent : Nat]]
          /\ flows' \in [Call -> FlowType]
      BY <2>1, <3>1, AuthorizeEffect
    <3>3. pc' \in [Call -> PC]
      BY <3>1 DEF Authorize, TypeOK, PC
    <3> QED
      BY <1>2, <3>2, <3>3 DEF QuoteArrives, TypeOK
  <2> QED
    BY <2>3, <2>4, <2>5
<1>3. ASSUME NEW c \in Call, QuoteFails(c)
      PROVE  TypeOK'
  BY <1>3 DEF QuoteFails, TypeOK, PC
<1>4. ASSUME NEW c \in Call, Fulfilled(c)
      PROVE  TypeOK'
  <2>1. flows' \in [Call -> FlowType]
    BY <1>4 DEF Fulfilled, TypeOK, FlowType, FlowStatus
  <2> QED
    BY <1>4, <2>1 DEF Fulfilled, TypeOK, PC
<1>5. ASSUME NEW c \in Call, FulfillmentFails(c)
      PROVE  TypeOK'
  <2>1. flows' \in [Call -> FlowType]
    BY <1>5 DEF FulfillmentFails, TypeOK, FlowType, FlowStatus
  <2> QED
    BY <1>5, <2>1 DEF FulfillmentFails, TypeOK, PC
<1>6. ASSUME NEW p \in Provider, NEW amount \in 0..task.total,
             RecordSettlement(p, amount)
      PROVE  TypeOK'
  <2>1. flows' \in [Call -> FlowType]
    BY <1>6, StampEffect DEF RecordSettlement
  <2>2. amount \in Nat
    BY <1>6, TaskFacts
  <2> QED
    BY <1>6, <2>1, <2>2 DEF RecordSettlement, TypeOK
<1>7. ASSUME Tick
      PROVE  TypeOK'
  BY <1>7 DEF Tick, TypeOK
<1>8. ASSUME UNCHANGED vars
      PROVE  TypeOK'
  BY <1>8 DEF vars, TypeOK
<1> QED
  BY <1>1, <1>2, <1>3, <1>4, <1>5, <1>6, <1>7, <1>8 DEF Next

\* A call's flow stays in step with where the call is.
LEMMA NextFlowFollowsCall ==
  ASSUME TypeOK, FlowFollowsCall, [Next]_vars
  PROVE  FlowFollowsCall'
<1>1. ASSUME NEW c \in Call, NEW p \in Provider, Execute(c, p)
      PROVE  FlowFollowsCall'
  BY <1>1 DEF Execute, ImmediateRejection, PushRejectedFlow, TypeOK, FlowType,
              FlowFollowsCall
<1>2. ASSUME NEW c \in Call, NEW q \in Quotes, QuoteArrives(c, q)
      PROVE  FlowFollowsCall'
  BY <1>2 DEF QuoteArrives, PushRejectedFlow, Authorize, TypeOK, FlowFollowsCall
<1>3. ASSUME NEW c \in Call, QuoteFails(c)
      PROVE  FlowFollowsCall'
  BY <1>3 DEF QuoteFails, TypeOK, FlowFollowsCall
<1>4. ASSUME NEW c \in Call, Fulfilled(c)
      PROVE  FlowFollowsCall'
  BY <1>4 DEF Fulfilled, TypeOK, FlowType, FlowFollowsCall
<1>5. ASSUME NEW c \in Call, FulfillmentFails(c)
      PROVE  FlowFollowsCall'
  BY <1>5 DEF FulfillmentFails, TypeOK, FlowType, FlowFollowsCall
<1>6. ASSUME NEW p \in Provider, NEW amount \in 0..task.total,
             RecordSettlement(p, amount)
      PROVE  FlowFollowsCall'
  BY <1>6, StampEffect DEF RecordSettlement, FlowFollowsCall
<1>7. ASSUME Tick
      PROVE  FlowFollowsCall'
  BY <1>7 DEF Tick, FlowFollowsCall
<1>8. ASSUME UNCHANGED vars
      PROVE  FlowFollowsCall'
  BY <1>8 DEF vars, FlowFollowsCall
<1> QED
  BY <1>1, <1>2, <1>3, <1>4, <1>5, <1>6, <1>7, <1>8 DEF Next

\* Every variable of the orchestrator keeps its type.
THEOREM TypeCorrect == Spec => [](TypeOK /\ FlowFollowsCall)
<1>1. Init => FlowFollowsCall
  BY DEF Init, FlowFollowsCall, NoFlow
<1>2. TypeOK /\ FlowFollowsCall /\ [Next]_vars => (TypeOK /\ FlowFollowsCall)'
  BY NextTypeOK, NextFlowFollowsCall
<1> QED
  BY <1>1, <1>2, InitTypeOK, PTL DEF Spec

-----------------------------------------------------------------------------
(* Safety.  Money moves in one branch of one action only; every other step   *)
(* leaves the books as they are.                                             *)

\* A step either authorizes one flow or leaves ledger and routes alone.
LEMMA StepAuthorizesOrKeepsBooks ==
  ASSUME TypeOK, FlowFollowsCall, [Next]_vars
  PROVE  \/ UNCHANGED <<task, ceiling, ledger, routes>>
         \/ /\ UNCHANGED <<task, ceiling, now, settlements>>
            /\ \E c \in Call, q \in Quotes :
                 LET p == flows[c].providerId IN
                 /\ p \in DOMAIN ceiling /\ flows[c].status = "none"
                 /\ q.price > 0 /\ pc[c] = "quoting"
                 /\ Decision(p, q).allowed
                 /\ Authorize(c, p, q)
<1>1. ASSUME NEW c \in Call, NEW q \in Quotes, QuoteArrives(c, q)
      PROVE  \/ UNCHANGED <<task, ceiling, ledger, routes>>
             \/ /\ UNCHANGED <<task, ceiling, now, settlements>>
                /\ LET p == flows[c].providerId IN
                   /\ p \in DOMAIN ceiling /\ flows[c].status = "none"
                   /\ q.price > 0 /\ pc[c] = "quoting"
                   /\ Decision(p, q).allowed
                   /\ Authorize(c, p, q)
  BY <1>1 DEF QuoteArrives, QuoteMatches, PushRejectedFlow, FlowFollowsCall
<1>2. ASSUME NEW c \in Call, NEW p \in Provider, Execute(c, p)
      PROVE  UNCHANGED <<task, ceiling, ledger, routes>>
  BY <1>2 DEF Execute, ImmediateRejection, PushRejectedFlow
<1>3. ASSUME NEW c \in Call, QuoteFails(c) \/ Fulfilled(c) \/ FulfillmentFails(c)
      PROVE  UNCHANGED <<task, ceiling, ledger, routes>>
  BY <1>3 DEF QuoteFails, Fulfilled, FulfillmentFails
<1>4. ASSUME NEW p \in Provider, NEW amount \in 0..task.total,
             RecordSettlement(p, amount)
      PROVE  UNCHANGED <<task, ceiling, ledger, routes>>
  BY <1>4 DEF RecordSettlement
<1>5. Tick \/ UNCHANGED vars => UNCHANGED <<task, ceiling, ledger, routes>>
  BY DEF Tick, vars
<1> QED
  BY <1>1, <1>2, <1>3, <1>4, <1>5 DEF Next

\* The constructor accepts only reservations within the mandate.
LEMMA InitWithinMandate == Init => WithinMandate
<1> SUFFICES ASSUME Init
             PROVE  WithinMandate
  OBVIOUS
<1>1. TypeOK
  BY InitTypeOK
<1>2. AcceptsReservations(task, ceiling)
  BY DEF Init
<1>3. \A p \in DOMAIN ceiling : ceiling[p] > 0 /\ p \in Provider /\ ceiling[p] \in Nat
  BY <1>1, <1>2 DEF AcceptsReservations, TypeOK
<1>4. \A p \in DOMAIN ceiling :
        /\ routes[p].cumulative = 0 /\ routes[p].spent = 0
        /\ ledger.providerSpent[p] = 0
  BY <1>3 DEF Init
<1>5. ledger.spent = 0 /\ task.total \in Nat
  BY <1>1, TaskFacts DEF Init
<1>6. \A p \in DOMAIN ceiling :
        \A cap \in task.policy.providerCaps[p] : ceiling[p] <= cap
  BY <1>2 DEF AcceptsReservations
<1> QED
  BY <1>3, <1>4, <1>5, <1>6 DEF WithinMandate

\* No step leaves the mandate.
LEMMA NextWithinMandate ==
  ASSUME TypeOK, FlowFollowsCall, WithinMandate, [Next]_vars
  PROVE  WithinMandate'
<1>1. CASE UNCHANGED <<task, ceiling, ledger, routes>>
  BY <1>1 DEF WithinMandate
<1>2. ASSUME UNCHANGED <<task, ceiling>>,
             NEW c \in Call, NEW q \in Quotes, NEW p \in DOMAIN ceiling,
             q.price > 0, Decision(p, q).allowed, Authorize(c, p, q)
      PROVE  WithinMandate'
  <2>1. /\ ~(routes[p].cumulative + q.price > ceiling[p])
        /\ ~(ledger.spent + q.price > task.total)
    BY <1>2, AcceptedQuote
  <2>2. /\ ledger'.spent = ledger.spent + q.price
        /\ \A r \in Provider : ledger'.providerSpent[r] =
             IF r = p THEN ledger.providerSpent[r] + q.price
                      ELSE ledger.providerSpent[r]
        /\ routes'[p].cumulative = routes[p].cumulative + q.price
        /\ routes'[p].spent = ledger.providerSpent[p] + q.price
        /\ \A r \in DOMAIN ceiling : r # p => routes'[r] = routes[r]
    BY <1>2, AuthorizeEffect
  <2>3. /\ q.price \in Int /\ ledger.spent \in Nat /\ task.total \in Nat
        /\ DOMAIN ceiling \subseteq Provider
        /\ \A r \in DOMAIN ceiling : ceiling[r] \in Nat /\ routes[r].cumulative \in Nat
    BY RouteAssumption, TaskFacts DEF QuoteType, TypeOK, LedgerType
  <2>4. ledger'.spent <= task.total
    BY <2>1, <2>2, <2>3
  <2>5. ASSUME NEW r \in DOMAIN ceiling
        PROVE  /\ routes'[r].cumulative <= ceiling[r]
               /\ routes'[r].spent = routes'[r].cumulative
               /\ ledger'.providerSpent[r] = routes'[r].cumulative
    BY <2>1, <2>2, <2>3 DEF WithinMandate
  <2> QED
    BY <1>2, <2>4, <2>5 DEF WithinMandate
<1> QED
  BY <1>1, <1>2, StepAuthorizesOrKeepsBooks

\* The owner's mandate holds in every reachable state: total, ceilings and caps
\* are respected and the two per-provider accounts never drift apart.
THEOREM MandateHolds == Spec => []WithinMandate
<1>1. TypeOK /\ FlowFollowsCall /\ WithinMandate /\ [Next]_vars => WithinMandate'
  BY NextWithinMandate
<1> QED
  BY <1>1, InitWithinMandate, TypeCorrect, PTL DEF Spec

-----------------------------------------------------------------------------
(* Flows.  A step changes the flow of one call at most, and a flow that      *)
(* holds an authorization keeps its voucher interval.                        *)

\* What a step other than an authorization may do to the flows.
LEMMA KeptVouchers ==
  ASSUME TypeOK, FlowFollowsCall, [Next]_vars
  PROVE  \/ \E c \in Call, q \in Quotes :
              LET p == flows[c].providerId IN
              /\ p \in DOMAIN ceiling /\ flows[c].status = "none"
              /\ q.price > 0 /\ pc[c] = "quoting"
              /\ Decision(p, q).allowed
              /\ Authorize(c, p, q)
              /\ UNCHANGED <<task, ceiling, now, settlements>>
         \/ /\ UNCHANGED <<task, ceiling, ledger, routes>>
            /\ \A c \in Call :
                 /\ flows'[c].status \in Accepted <=> flows[c].status \in Accepted
                 /\ flows[c].status \in Accepted =>
                      /\ flows'[c].providerId = flows[c].providerId
                      /\ flows'[c].amount = flows[c].amount
                      /\ flows'[c].prev = flows[c].prev
                      /\ flows'[c].next = flows[c].next
                      /\ flows'[c].at = flows[c].at
                      /\ \/ flows'[c].status = flows[c].status
                         \/ flows[c].status = "authorized"
<1> DEFINE
      Kept == \A c \in Call :
                /\ flows'[c].status \in Accepted <=> flows[c].status \in Accepted
                /\ flows[c].status \in Accepted =>
                     /\ flows'[c].providerId = flows[c].providerId
                     /\ flows'[c].amount = flows[c].amount
                     /\ flows'[c].prev = flows[c].prev
                     /\ flows'[c].next = flows[c].next
                     /\ flows'[c].at = flows[c].at
                     /\ \/ flows'[c].status = flows[c].status
                        \/ flows[c].status = "authorized"
      Books == UNCHANGED <<task, ceiling, ledger, routes>>
<1>1. ASSUME NEW c \in Call, NEW p \in Provider, Execute(c, p)
      PROVE  Books /\ Kept
  BY <1>1 DEF Execute, ImmediateRejection, PushRejectedFlow, TypeOK, FlowType,
              FlowFollowsCall, Accepted
<1>2. ASSUME NEW c \in Call, NEW q \in Quotes, QuoteArrives(c, q)
      PROVE  \/ LET p == flows[c].providerId IN
                /\ p \in DOMAIN ceiling /\ flows[c].status = "none"
                /\ q.price > 0 /\ pc[c] = "quoting"
                /\ Decision(p, q).allowed
                /\ Authorize(c, p, q)
                /\ UNCHANGED <<task, ceiling, now, settlements>>
             \/ Books /\ Kept
  BY <1>2 DEF QuoteArrives, QuoteMatches, PushRejectedFlow, TypeOK,
              FlowFollowsCall, Accepted
<1>3. ASSUME NEW c \in Call, QuoteFails(c)
      PROVE  Books /\ Kept
  BY <1>3 DEF QuoteFails
<1>4. ASSUME NEW c \in Call, Fulfilled(c) \/ FulfillmentFails(c)
      PROVE  Books /\ Kept
  BY <1>4 DEF Fulfilled, FulfillmentFails, TypeOK, FlowType, FlowFollowsCall,
              Accepted
<1>5. ASSUME NEW p \in Provider, NEW amount \in 0..task.total,
             RecordSettlement(p, amount)
      PROVE  Books /\ Kept
  BY <1>5, StampEffect DEF RecordSettlement
<1>6. Tick \/ UNCHANGED vars => Books /\ Kept
  BY DEF Tick, vars
<1> QED
  BY <1>1, <1>2, <1>3, <1>4, <1>5, <1>6 DEF Next

\* A new authorization takes the interval above the watermark.
LEMMA NextWatermarksTile ==
  ASSUME TypeOK, FlowFollowsCall, WatermarksTile, [Next]_vars
  PROVE  WatermarksTile'
<1>1. ASSUME NEW c \in Call, NEW q \in Quotes, NEW p \in DOMAIN ceiling,
             flows[c].status = "none", q.price > 0, Authorize(c, p, q),
             UNCHANGED ceiling
      PROVE  WatermarksTile'
  <2>1. /\ routes'[p].cumulative = routes[p].cumulative + q.price
        /\ \A r \in DOMAIN ceiling : r # p => routes'[r] = routes[r]
        /\ flows'[c].status = "authorized" /\ flows'[c].providerId = p
        /\ flows'[c].prev = routes[p].cumulative
        /\ flows'[c].next = routes[p].cumulative + q.price
        /\ \A d \in Call : d # c => flows'[d] = flows[d]
    BY <1>1, AuthorizeEffect
  <2>2. /\ q.price \in Nat
        /\ \A r \in DOMAIN ceiling : routes[r].cumulative \in Nat
        /\ \A d \in Call : flows[d].prev \in Nat /\ flows[d].next \in Int
    BY <1>1, RouteAssumption DEF QuoteType, TypeOK, FlowType
  <2>3. ASSUME NEW d \in Call, flows'[d].status \in Accepted
        PROVE  /\ flows'[d].providerId \in DOMAIN ceiling
               /\ flows'[d].prev < flows'[d].next
               /\ flows'[d].next <= routes'[flows'[d].providerId].cumulative
               /\ d # c => /\ flows'[d] = flows[d]
                           /\ flows[d].next <= routes[flows[d].providerId].cumulative
    BY <1>1, <2>1, <2>2, <2>3 DEF WatermarksTile
  <2>4. ASSUME NEW d \in Call, NEW e \in Call \ {d},
               flows'[d].status \in Accepted, flows'[e].status \in Accepted,
               flows'[e].providerId = flows'[d].providerId
        PROVE  \/ flows'[d].next <= flows'[e].prev
               \/ flows'[e].next <= flows'[d].prev
    <3>1. CASE d = c
      BY <2>1, <2>3, <2>4, <3>1
    <3>2. CASE e = c
      BY <2>1, <2>3, <2>4, <3>2
    <3>3. CASE d # c /\ e # c
      BY <2>3, <2>4, <3>3 DEF WatermarksTile
    <3> QED
      BY <3>1, <3>2, <3>3
  <2> QED
    BY <1>1, <2>3, <2>4 DEF WatermarksTile
<1>2. ASSUME UNCHANGED <<ceiling, routes>>,
             \A c \in Call :
               /\ flows'[c].status \in Accepted <=> flows[c].status \in Accepted
               /\ flows[c].status \in Accepted =>
                    /\ flows'[c].providerId = flows[c].providerId
                    /\ flows'[c].prev = flows[c].prev
                    /\ flows'[c].next = flows[c].next
      PROVE  WatermarksTile'
  BY <1>2 DEF WatermarksTile
<1> QED
  BY <1>1, <1>2, KeptVouchers

\* No two authorizations of a provider ever share a voucher amount: their
\* intervals are disjoint and end below the provider's watermark.
THEOREM VouchersAreDisjoint == Spec => []WatermarksTile
<1>1. Init => WatermarksTile
  BY DEF Init, WatermarksTile, NoFlow, Accepted
<1>2. TypeOK /\ FlowFollowsCall /\ WatermarksTile /\ [Next]_vars => WatermarksTile'
  BY NextWatermarksTile
<1> QED
  BY <1>1, <1>2, TypeCorrect, PTL DEF Spec

\* A call gets to the paid request only by an approved authorization.
LEMMA NextPaidWorkIsAuthorized ==
  ASSUME TypeOK, FlowFollowsCall, FlowFollowsCall', PaidWorkIsAuthorized,
         [Next]_vars, pc' \in [Call -> PC]
  PROVE  PaidWorkIsAuthorized'
<1>1. \A c \in Call : pc'[c] \in {"fulfilling", "returned"} <=>
                        flows'[c].status \in {"authorized", "fulfilled"}
  BY DEF FlowFollowsCall, PC
<1>2. ASSUME NEW c \in Call, NEW q \in Quotes, NEW p \in DOMAIN ceiling,
             flows[c].status = "none", q.price > 0, Decision(p, q).allowed,
             Authorize(c, p, q), UNCHANGED task
      PROVE  PaidWorkIsAuthorized'
  <2>1. /\ flows'[c].providerId = p /\ flows'[c].amount = q.price
        /\ flows'[c].at = now
        /\ \A d \in Call : d # c => flows'[d] = flows[d]
    BY <1>2, AuthorizeEffect
  <2>2. /\ task.status = "active" /\ Unexpired(task, now)
        /\ p \in task.policy.allowedProviderIds
        /\ p \notin task.policy.blockedProviderIds
        /\ \A cap \in task.policy.maxPerCall : ~(q.price > cap)
    BY <1>2, AcceptedQuote
  <2>3. \A cap \in task.policy.maxPerCall : q.price <= cap
    BY <2>2, TaskFacts, RouteAssumption DEF QuoteType
  <2> QED
    BY <1>1, <1>2, <2>1, <2>2, <2>3 DEF PaidWorkIsAuthorized, Unexpired
<1>3. ASSUME UNCHANGED task,
             \A c \in Call :
               /\ flows'[c].status \in Accepted <=> flows[c].status \in Accepted
               /\ flows[c].status \in Accepted =>
                    /\ flows'[c].providerId = flows[c].providerId
                    /\ flows'[c].amount = flows[c].amount
                    /\ flows'[c].at = flows[c].at
      PROVE  PaidWorkIsAuthorized'
  BY <1>1, <1>3 DEF PaidWorkIsAuthorized, Unexpired
<1> QED
  BY <1>2, <1>3, KeptVouchers

\* Paid work is only ever asked for under an authorization the policy allowed.
THEOREM PaidWorkHoldsAuthorization == Spec => []PaidWorkIsAuthorized
<1>1. Init => PaidWorkIsAuthorized
  BY DEF Init, PaidWorkIsAuthorized, NoFlow, Accepted
<1>2. ASSUME TypeOK, FlowFollowsCall, TypeOK', FlowFollowsCall',
             PaidWorkIsAuthorized, [Next]_vars
      PROVE  PaidWorkIsAuthorized'
  <2>1. pc' \in [Call -> PC]
    BY <1>2 DEF TypeOK
  <2> QED
    BY <1>2, <2>1, NextPaidWorkIsAuthorized
<1> QED
  BY <1>1, <1>2, TypeCorrect, PTL DEF Spec

\* Stamping covers no undelivered flow, and no more than was authorized.
LEMMA NextSettlementsCover ==
  ASSUME TypeOK, FlowFollowsCall, SettlementsCoverStampedFlows, [Next]_vars
  PROVE  SettlementsCoverStampedFlows'
<1>1. ASSUME NEW c \in Call, NEW p \in Provider, Execute(c, p)
      PROVE  SettlementsCoverStampedFlows'
  BY <1>1 DEF Execute, ImmediateRejection, PushRejectedFlow, TypeOK, FlowType,
              FlowFollowsCall, SettlementsCoverStampedFlows
<1>2. ASSUME NEW c \in Call, NEW q \in Quotes, QuoteArrives(c, q)
      PROVE  SettlementsCoverStampedFlows'
  <2> DEFINE p == flows[c].providerId
  <2>1. flows[c].status = "none" /\ p \in DOMAIN ceiling
    BY <1>2 DEF QuoteArrives, FlowFollowsCall
  <2>2. CASE UNCHANGED <<ledger, routes>>
    BY <1>2, <2>1, <2>2
    DEF QuoteArrives, QuoteMatches, PushRejectedFlow, Authorize, TypeOK,
        FlowType, SettlementsCoverStampedFlows
  <2>3. CASE Authorize(c, p, q) /\ q.price > 0
    <3>1. /\ routes'[p].cumulative = routes[p].cumulative + q.price
          /\ \A r \in DOMAIN ceiling : r # p => routes'[r] = routes[r]
          /\ ~flows'[c].stamped
          /\ \A d \in Call : d # c => flows'[d] = flows[d]
      BY <2>1, <2>3, AuthorizeEffect
    <3>2. /\ q.price \in Nat /\ \A r \in DOMAIN ceiling : routes[r].cumulative \in Nat
          /\ \A s \in settlements : s.amount \in Nat /\ s.providerId \in DOMAIN ceiling
      BY <2>3, RouteAssumption DEF QuoteType, TypeOK
    <3>3. settlements' = settlements
      BY <1>2 DEF QuoteArrives
    <3>4. \A s \in settlements : s.amount <= routes'[s.providerId].cumulative
      BY <3>1, <3>2 DEF SettlementsCoverStampedFlows
    <3> QED
      BY <3>1, <3>3, <3>4 DEF SettlementsCoverStampedFlows
  <2> QED
    BY <1>2, <2>2, <2>3 DEF QuoteArrives, QuoteMatches, PushRejectedFlow
<1>3. ASSUME NEW c \in Call, QuoteFails(c)
      PROVE  SettlementsCoverStampedFlows'
  BY <1>3 DEF QuoteFails, SettlementsCoverStampedFlows
<1>4. ASSUME NEW c \in Call, Fulfilled(c) \/ FulfillmentFails(c)
      PROVE  SettlementsCoverStampedFlows'
  <2>1. /\ flows[c].status = "authorized" /\ UNCHANGED <<routes, settlements>>
        /\ \A d \in Call :
             /\ flows'[d].stamped => flows[d].stamped
             /\ flows'[d].providerId = flows[d].providerId
             /\ flows'[d].next = flows[d].next
             /\ d # c => flows'[d].status = flows[d].status
    BY <1>4 DEF Fulfilled, FulfillmentFails, TypeOK, FlowType, FlowFollowsCall
  <2>2. ~flows[c].stamped
    BY <2>1 DEF SettlementsCoverStampedFlows
  <2>3. ASSUME NEW d \in Call, flows'[d].stamped
        PROVE  /\ flows'[d].status = "fulfilled"
               /\ \E s \in settlements' : /\ s.providerId = flows'[d].providerId
                                         /\ flows'[d].next <= s.amount
    <3>1. flows[d].stamped
      BY <2>1, <2>3, Zenon
    <3>2. d # c
      BY <2>2, <3>1, Zenon
    <3>3. /\ flows[d].status = "fulfilled"
          /\ \E s \in settlements : /\ s.providerId = flows[d].providerId
                                   /\ flows[d].next <= s.amount
      BY <3>1 DEF SettlementsCoverStampedFlows
    <3>4. /\ flows'[d].status = flows[d].status /\ flows'[d].next = flows[d].next
          /\ flows'[d].providerId = flows[d].providerId /\ settlements' = settlements
      BY <2>1, <3>2
    <3> QED
      BY <3>3, <3>4
  <2>4. \A s \in settlements' : s.amount <= routes'[s.providerId].cumulative
    BY <2>1 DEF SettlementsCoverStampedFlows
  <2> QED
    BY <2>3, <2>4 DEF SettlementsCoverStampedFlows
<1>5. ASSUME NEW p \in Provider, NEW amount \in 0..task.total,
             RecordSettlement(p, amount)
      PROVE  SettlementsCoverStampedFlows'
  <2>1. /\ amount <= routes[p].cumulative
        /\ settlements' = settlements \cup {[providerId |-> p, amount |-> amount]}
        /\ flows' = Stamp(p, amount) /\ routes' = routes
    BY <1>5 DEF RecordSettlement
  <2>2. \A s \in settlements' : s.amount <= routes'[s.providerId].cumulative
    BY <2>1 DEF SettlementsCoverStampedFlows
  <2>3. ASSUME NEW c \in Call, flows'[c].stamped
        PROVE  /\ flows'[c].status = "fulfilled"
               /\ \E s \in settlements' :
                    s.providerId = flows'[c].providerId /\ flows'[c].next <= s.amount
    <3>1. /\ flows'[c].status = flows[c].status
          /\ flows'[c].providerId = flows[c].providerId
          /\ flows'[c].next = flows[c].next
          /\ \/ flows[c].stamped
             \/ /\ flows[c].status = "fulfilled" /\ flows[c].providerId = p
                /\ flows[c].next <= amount
      BY <2>1, <2>3, StampEffect
    <3>2. CASE flows[c].stamped
      BY <2>1, <3>1, <3>2 DEF SettlementsCoverStampedFlows
    <3>3. CASE /\ flows[c].status = "fulfilled" /\ flows[c].providerId = p
               /\ flows[c].next <= amount
      <4>1. [providerId |-> p, amount |-> amount] \in settlements'
        BY <2>1
      <4> QED
        BY <3>1, <3>3, <4>1
    <3> QED
      BY <3>1, <3>2, <3>3
  <2> QED
    BY <2>2, <2>3 DEF SettlementsCoverStampedFlows
<1>6. CASE Tick \/ UNCHANGED vars
  BY <1>6 DEF Tick, vars, SettlementsCoverStampedFlows
<1> QED
  BY <1>1, <1>2, <1>3, <1>4, <1>5, <1>6 DEF Next

\* A settlement never exceeds what was authorized, and it is shown only on
\* delivered flows it pays for.
THEOREM SettlementsAreCovered == Spec => []SettlementsCoverStampedFlows
<1>1. Init => SettlementsCoverStampedFlows
  BY DEF Init, SettlementsCoverStampedFlows, NoFlow
<1>2. ASSUME TypeOK, FlowFollowsCall, SettlementsCoverStampedFlows, [Next]_vars
      PROVE  SettlementsCoverStampedFlows'
  BY <1>2, NextSettlementsCover
<1> QED
  BY <1>1, <1>2, TypeCorrect, PTL DEF Spec

-----------------------------------------------------------------------------
(* Refinement. *)

\* The orchestrator's steps are TaskBudget steps: an authorization is one of
\* its Authorize steps, everything else stutters.
LEMMA StepRefinesTaskBudget ==
  ASSUME TypeOK, FlowFollowsCall, WithinMandate, [Next]_vars
  PROVE  [Budget!Next]_(Budget!budgetVars)
<1> DEFINE paid == [p \in DOMAIN ceiling |-> routes[p].cumulative]
<1>1. CASE UNCHANGED <<task, ceiling, ledger, routes>>
  BY <1>1 DEF Budget!budgetVars
<1>2. ASSUME UNCHANGED <<task, ceiling>>,
             NEW c \in Call, NEW q \in Quotes, NEW p \in DOMAIN ceiling,
             q.price > 0, Decision(p, q).allowed, Authorize(c, p, q)
      PROVE  Budget!Next
  <2>1. /\ ~(routes[p].cumulative + q.price > ceiling[p])
        /\ ~(ledger.spent + q.price > task.total)
    BY <1>2, AcceptedQuote
  <2>2. /\ ledger'.spent = ledger.spent + q.price
        /\ routes'[p].cumulative = routes[p].cumulative + q.price
        /\ \A r \in DOMAIN ceiling : r # p => routes'[r] = routes[r]
    BY <1>2, AuthorizeEffect
  <2>3. /\ q.price \in Int /\ ledger.spent \in Nat /\ task.total \in Nat
        /\ \A r \in DOMAIN ceiling : ceiling[r] \in Nat /\ routes[r].cumulative \in Nat
    BY RouteAssumption, TaskFacts DEF QuoteType, TypeOK, LedgerType
  <2>4. q.price \in 1..task.total
    BY <1>2, <2>1, <2>3
  <2>5. paid' = [paid EXCEPT ![p] = @ + q.price]
    BY <1>2, <2>2
  <2>6. Budget!Authorize(p, q.price)
    BY <1>2, <2>1, <2>2, <2>3, <2>5 DEF Budget!Authorize
  <2> QED
    BY <2>4, <2>6 DEF Budget!Next
<1> QED
  BY <1>1, <1>2, StepAuthorizesOrKeepsBooks

\* The orchestrator implements TaskBudget under the mapping of Budget.
THEOREM ImplementsBudget == Spec => ImplementsTaskBudget
<1>1. Init => Budget!Init
  BY DEF Init, Budget!Init
<1>2. TypeOK /\ FlowFollowsCall /\ WithinMandate /\ [Next]_vars
        => [Budget!Next]_(Budget!budgetVars)
  BY StepRefinesTaskBudget
<1> QED
  BY <1>1, <1>2, TypeCorrect, MandateHolds, PTL
  DEF Spec, ImplementsTaskBudget, Budget!Spec

-----------------------------------------------------------------------------
(* Action property. *)

\* No step takes back or rewrites an authorization.
THEOREM AuthorizationsStay == Spec => AuthorizationsAreFinal
<1> DEFINE
      Final ==
        /\ \A p \in DOMAIN ceiling : routes'[p].cumulative >= routes[p].cumulative
        /\ \A c \in Call : flows[c].status \in Accepted =>
             /\ flows'[c].status = flows[c].status \/ flows[c].status = "authorized"
             /\ flows'[c].status \in Accepted
             /\ flows'[c].next = flows[c].next /\ flows'[c].at = flows[c].at
<1>1. ASSUME TypeOK, FlowFollowsCall, [Next]_vars
      PROVE  Final
  <2>1. ASSUME NEW c \in Call, NEW q \in Quotes, NEW p \in DOMAIN ceiling,
               flows[c].status = "none", q.price > 0, Authorize(c, p, q)
        PROVE  Final
    <3>1. /\ routes'[p].cumulative = routes[p].cumulative + q.price
          /\ \A r \in DOMAIN ceiling : r # p => routes'[r] = routes[r]
          /\ \A d \in Call : d # c => flows'[d] = flows[d]
      BY <1>1, <2>1, AuthorizeEffect
    <3>2. q.price \in Nat /\ \A r \in DOMAIN ceiling : routes[r].cumulative \in Nat
      BY <1>1, <2>1, RouteAssumption DEF QuoteType, TypeOK
    <3> QED
      BY <2>1, <3>1, <3>2 DEF Accepted
  <2>2. CASE /\ UNCHANGED <<task, ceiling, ledger, routes>>
             /\ \A c \in Call :
                  /\ flows'[c].status \in Accepted <=> flows[c].status \in Accepted
                  /\ flows[c].status \in Accepted =>
                       /\ flows'[c].next = flows[c].next
                       /\ flows'[c].at = flows[c].at
                       /\ \/ flows'[c].status = flows[c].status
                          \/ flows[c].status = "authorized"
    <3>1. \A p \in DOMAIN ceiling : routes'[p].cumulative >= routes[p].cumulative
      BY <1>1, <2>2 DEF TypeOK
    <3> QED
      BY <2>2, <3>1
  <2> QED
    BY <1>1, <2>1, <2>2, KeptVouchers
<1>2. TypeOK /\ FlowFollowsCall /\ [Next]_vars => [Final]_vars
  BY <1>1
<1> QED
  BY <1>2, TypeCorrect, PTL DEF Spec, AuthorizationsAreFinal

-----------------------------------------------------------------------------
(* Sums of functions over finite sets.  SumFunction takes the values in some *)
(* order; what it adds up to over every subset is a function of the subset,  *)
(* and well-founded induction over the subsets tells how it changes.         *)

\* Induction over the subsets of a finite set: a set of subsets that holds every one whose own
\* strict subsets it holds is all of them.
LEMMA SubsetInduction ==
  ASSUME NEW S, IsFiniteSet(S), NEW G,
         \A s \in SUBSET S : (\A t \in SUBSET s : t # s => t \in G) => s \in G
  PROVE  \A s \in SUBSET S : s \in G
<1> DEFINE B == {s \in SUBSET S : s \notin G}
           R == StrictSubsetOrdering(S)
           U == SUBSET S
<1>1. SUFFICES ASSUME B # {} PROVE FALSE
  OBVIOUS
<1>2. IsWellFoundedOn(R, U)
  <2>1. FiniteSubsetsOf(S) = SUBSET S
    BY FS_FiniteSubsetsOfFinite
  <2>2. IsWellFoundedOn(StrictSubsetOrdering(S), FiniteSubsetsOf(S))
    BY FS_StrictSubsetOrderingWellFounded, Zenon
  <2> QED
    BY <2>1, <2>2, Zenon
<1>3. PICK s \in B : \A t \in B : ~(<<t, s>> \in R)
  <2>1. IsWellFoundedOn(R, U) /\ B \subseteq U /\ B # {}
    BY <1>1, <1>2
  <2> HIDE DEF B, R, U
  <2>2. \E x \in B : \A y \in B : ~(<<y, x>> \in R)
    BY <2>1, WFMin
  <2> QED
    BY <2>2
<1>4. ASSUME NEW t \in SUBSET s, t # s PROVE t \in G
  <2>1. <<t, s>> \in R
    BY <1>3, <1>4 DEF StrictSubsetOrdering
  <2> QED
    BY <1>3, <1>4, <2>1
<1> QED
  BY <1>3, <1>4

\* The element a sum takes next, and the sums over all subsets of a set.
First(s) == CHOOSE x \in s : TRUE
Rest(s) == s \ {First(s)}
Sums(f, S, g) == g = [s \in SUBSET S |-> IF s = {} THEN 0 ELSE f[First(s)] + g[Rest(s)]]

\* The chosen element of a set, and the others.
LEMMA FirstRest ==
  ASSUME NEW s, s # {}
  PROVE  First(s) \in s /\ Rest(s) \in SUBSET s /\ Rest(s) # s /\ First(s) \notin Rest(s)
         /\ \A x \in s : x = First(s) \/ x \in Rest(s)
BY DEF First, Rest

\* Two sums of one function agree where both are defined.
LEMMA SumsAgree ==
  ASSUME NEW S, NEW T, NEW u \in SUBSET S, u \in SUBSET T, IsFiniteSet(u), NEW f, NEW g, NEW h,
         Sums(f, S, g), Sums(f, T, h)
  PROVE  g[u] = h[u]
<1> DEFINE G == {s \in SUBSET u : g[s] = h[s]}
<1>1. ASSUME NEW s \in SUBSET u, \A t \in SUBSET s : t # s => t \in G PROVE s \in G
  <2>1. /\ g[s] = IF s = {} THEN 0 ELSE f[First(s)] + g[Rest(s)]
        /\ h[s] = IF s = {} THEN 0 ELSE f[First(s)] + h[Rest(s)]
    <3>1. s \in SUBSET S /\ s \in SUBSET T
      OBVIOUS
    <3> QED
      BY <3>1 DEF Sums
  <2>2. s # {} => g[Rest(s)] = h[Rest(s)]
    BY <1>1, FirstRest
  <2> QED
    BY <2>1, <2>2
<1> HIDE DEF G
<1>2. u \in G
  BY <1>1, SubsetInduction
<1> QED
  BY <1>2 DEF G

\* The sums exist, and are integers.
LEMMA SumsExist ==
  ASSUME NEW S, IsFiniteSet(S), NEW f \in [S -> Int]
  PROVE  \E g \in [SUBSET S -> Int] : Sums(f, S, g)
<1> DEFINE Has(T) == \E g \in [SUBSET T -> Int] : Sums(f, T, g)
           G == {T \in SUBSET S : Has(T)}
<1>1. ASSUME NEW T \in SUBSET S, \A t \in SUBSET T : t # T => t \in G PROVE T \in G
  <2> DEFINE h(t) == CHOOSE g \in [SUBSET t -> Int] : Sums(f, t, g)
             v(s) == IF s = {} THEN 0 ELSE f[First(s)] + h(Rest(s))[Rest(s)]
             g == [s \in SUBSET T |-> v(s)]
  <2>1. ASSUME NEW t \in SUBSET T, t # T
        PROVE  h(t) \in [SUBSET t -> Int] /\ Sums(f, t, h(t))
    <3>1. Has(t)
      BY <1>1, <2>1
    <3> QED
      BY <3>1
  <2> HIDE DEF h
  <2>2. ASSUME NEW s \in SUBSET T, s # {} PROVE h(Rest(s))[Rest(s)] = v(Rest(s)) /\ v(s) \in Int
    <3> DEFINE t == Rest(s)
    <3>1. t \in SUBSET T /\ t # T /\ First(s) \in S
      BY <2>2, FirstRest
    <3>2. h(t) \in [SUBSET t -> Int] /\ Sums(f, t, h(t)) /\ t \in SUBSET t
      BY <2>1, <3>1
    <3>3. h(t)[t] = IF t = {} THEN 0 ELSE f[First(t)] + h(t)[Rest(t)]
      BY <3>2 DEF Sums
    <3>4. t # {} => h(t)[Rest(t)] = h(Rest(t))[Rest(t)]
      <4>1. SUFFICES ASSUME t # {} PROVE h(t)[Rest(t)] = h(Rest(t))[Rest(t)]
        OBVIOUS
      <4>2. Rest(t) \in SUBSET t /\ Rest(t) \in SUBSET T /\ Rest(t) # T
            /\ Rest(t) \in SUBSET Rest(t)
        BY <3>1, <4>1, FirstRest
      <4>3. Sums(f, Rest(t), h(Rest(t)))
        BY <2>1, <4>2
      <4>4. IsFiniteSet(Rest(t))
        BY <4>2, FS_Subset
      <4> HIDE DEF t
      <4> QED
        BY <3>2, <4>2, <4>3, <4>4, SumsAgree
    <3>5. h(t)[t] \in Int /\ f[First(s)] \in Int
      BY <3>1, <3>2
    <3> QED
      BY <2>2, <3>3, <3>4, <3>5
  <2>3. g \in [SUBSET T -> Int]
    <3>1. v({}) = 0
      OBVIOUS
    <3> HIDE DEF v
    <3> QED
      BY <2>2, <3>1
  <2>4. Sums(f, T, g)
    <3>1. ASSUME NEW s \in SUBSET T
          PROVE  v(s) = IF s = {} THEN 0 ELSE f[First(s)] + g[Rest(s)]
      <4>1. CASE s = {}
        BY <4>1
      <4>2. CASE s # {}
        <5>1. Rest(s) \in SUBSET T
          BY <4>2, FirstRest
        <5>2. g[Rest(s)] = v(Rest(s))
          BY <5>1
        <5>3. v(s) = f[First(s)] + h(Rest(s))[Rest(s)]
          BY <4>2
        <5> HIDE DEF v, g
        <5> QED
          BY <2>2, <4>2, <5>2, <5>3
      <4> QED
        BY <4>1, <4>2
    <3> DEFINE e(s) == IF s = {} THEN 0 ELSE f[First(s)] + g[Rest(s)]
    <3>2. g = [s \in SUBSET T |-> e(s)]
      <4>1. \A s \in SUBSET T : v(s) = e(s)
        BY <3>1
      <4>2. g = [s \in SUBSET T |-> v(s)]
        OBVIOUS
      <4> HIDE DEF v, e, g
      <4> QED
        BY <4>1, <4>2
    <3> HIDE DEF g
    <3> QED
      BY <3>2 DEF Sums
  <2> QED
    BY <2>3, <2>4
<1> HIDE DEF G
<1>2. S \in G
  BY <1>1, SubsetInduction
<1> QED
  BY <1>2 DEF G

\* The sum of a function is its sum over its whole domain.
LEMMA SumIs ==
  ASSUME NEW S, IsFiniteSet(S), NEW f \in [S -> Int], NEW g, Sums(f, S, g)
  PROVE  SumFunction(f) = g[S]
<1> DEFINE h == CHOOSE x : Sums(f, S, x)
<1>1. SumFunction(f) = h[S]
  BY DEF SumFunction, SumFunctionOnSet, FoldFunctionOnSet, MapThenFoldSet, Sums, First, Rest
<1>2. Sums(f, S, h)
  BY DEF h
<1> HIDE DEF h
<1> QED
  BY <1>1, <1>2, SumsAgree

\* Raising one value raises the sum by as much.
LEMMA SumRaised ==
  ASSUME NEW S, IsFiniteSet(S), NEW f \in [S -> Int], NEW k \in [S -> Int],
         NEW x \in S, NEW d \in Int, k[x] = f[x] + d, \A y \in S : y # x => k[y] = f[y]
  PROVE  SumFunction(k) = SumFunction(f) + d
<1>1. \A y \in S : k[y] = IF y = x THEN f[y] + d ELSE f[y]
  OBVIOUS
<1>2. PICK g \in [SUBSET S -> Int] : Sums(f, S, g)
  BY SumsExist
<1>3. PICK h \in [SUBSET S -> Int] : Sums(k, S, h)
  BY SumsExist
<1> DEFINE G == {s \in SUBSET S : h[s] = g[s] + (IF x \in s THEN d ELSE 0)}
<1>4. ASSUME NEW s \in SUBSET S, \A t \in SUBSET s : t # s => t \in G PROVE s \in G
  <2>1. /\ g[s] = IF s = {} THEN 0 ELSE f[First(s)] + g[Rest(s)]
        /\ h[s] = IF s = {} THEN 0 ELSE k[First(s)] + h[Rest(s)]
    BY <1>2, <1>3 DEF Sums
  <2>2. CASE s = {}
    BY <2>1, <2>2
  <2>3. CASE s # {}
    <3>1. /\ First(s) \in S /\ Rest(s) \in SUBSET S /\ Rest(s) \in G
          /\ (x \in s <=> (x = First(s) \/ x \in Rest(s))) /\ First(s) \notin Rest(s)
      BY <1>4, <2>3, FirstRest
    <3>2. h[Rest(s)] = g[Rest(s)] + (IF x \in Rest(s) THEN d ELSE 0)
      BY <3>1
    <3>3. k[First(s)] = IF First(s) = x THEN f[First(s)] + d ELSE f[First(s)]
      BY <1>1, <3>1
    <3>4. g[Rest(s)] \in Int /\ f[First(s)] \in Int /\ d \in Int
      BY <3>1
    <3> QED
      BY <2>1, <2>3, <3>1, <3>2, <3>3, <3>4
  <2> QED
    BY <2>2, <2>3
<1> HIDE DEF G
<1>5. S \in G
  BY <1>4, SubsetInduction
<1>6. h[S] = g[S] + d
  BY <1>5 DEF G
<1>7. SumFunction(f) = g[S] /\ SumFunction(k) = h[S]
  BY <1>2, <1>3, SumIs
<1> QED
  BY <1>6, <1>7

\* A sum of zeros is zero.
LEMMA SumOfZeros ==
  ASSUME NEW S, IsFiniteSet(S)
  PROVE  SumFunction([x \in S |-> 0]) = 0
<1> DEFINE f == [x \in S |-> 0]
<1>1. f \in [S -> Int] /\ \A x \in S : f[x] = 0
  OBVIOUS
<1> HIDE DEF f
<1>2. PICK g \in [SUBSET S -> Int] : Sums(f, S, g)
  BY <1>1, SumsExist
<1> DEFINE G == {s \in SUBSET S : g[s] = 0}
<1>3. ASSUME NEW s \in SUBSET S, \A t \in SUBSET s : t # s => t \in G PROVE s \in G
  <2>1. g[s] = IF s = {} THEN 0 ELSE f[First(s)] + g[Rest(s)]
    BY <1>2 DEF Sums
  <2>2. s # {} => f[First(s)] = 0 /\ g[Rest(s)] = 0
    BY <1>1, <1>3, FirstRest
  <2> QED
    BY <2>1, <2>2
<1> HIDE DEF G
<1>4. S \in G
  BY <1>3, SubsetInduction
<1>5. g[S] = 0
  BY <1>4 DEF G
<1> QED
  BY <1>1, <1>2, <1>5, SumIs DEF f

-----------------------------------------------------------------------------
(* The accounts agree. *)

\* An authorization raises one watermark, and the charge of one flow.
LEMMA AuthorizeRaises ==
  ASSUME TypeOK, NEW c \in Call, NEW q \in Quotes, NEW p \in DOMAIN ceiling,
         flows[c].status = "none", q.price > 0, Authorize(c, p, q)
  PROVE  /\ Charged(p)' \in [Call -> Int] /\ Charged(p)'[c] = Charged(p)[c] + q.price
         /\ \A d \in Call : d # c => Charged(p)'[d] = Charged(p)[d]
         /\ \A r \in DOMAIN ceiling : r # p => Charged(r)' = Charged(r)
<1>1. /\ flows'[c].status = "authorized" /\ flows'[c].providerId = p
      /\ flows'[c].amount = q.price /\ flows' \in [Call -> FlowType]
      /\ \A d \in Call : d # c => flows'[d] = flows[d]
  BY AuthorizeEffect
<1>2. q.price \in Int
  BY RouteAssumption DEF QuoteType
<1>3. "none" \notin Accepted /\ "authorized" \in Accepted
  BY DEF Accepted
<1>4. ASSUME NEW r \in DOMAIN ceiling, NEW d \in Call
      PROVE  Charged(r)'[d] = IF d = c /\ r = p THEN Charged(r)[d] + q.price ELSE Charged(r)[d]
  <2>1. CASE d = c
    BY <1>1, <1>2, <1>3, <2>1 DEF Charged
  <2>2. CASE d # c
    BY <1>1, <2>2 DEF Charged
  <2> QED
    BY <2>1, <2>2
<1>5. Charged(p)' \in [Call -> Int]
  BY <1>1 DEF Charged, FlowType
<1>6. ASSUME NEW r \in DOMAIN ceiling, r # p PROVE Charged(r)' = Charged(r)
  <2>1. \A d \in Call : Charged(r)'[d] = Charged(r)[d]
    BY <1>4, <1>6
  <2>2. Charged(r) = [d \in Call |-> Charged(r)[d]] /\ Charged(r)' = [d \in Call |-> Charged(r)'[d]]
    BY DEF Charged
  <2> QED
    BY <2>1, <2>2
<1> QED
  BY <1>4, <1>5, <1>6

\* An authorization adds its price to the ledger, to one watermark and to one sum of flows.
LEMMA NextLedgerIsSumOfFlows ==
  ASSUME TypeOK, FlowFollowsCall, LedgerIsSumOfFlows, [Next]_vars
  PROVE  LedgerIsSumOfFlows'
<1> DEFINE paid == [r \in DOMAIN ceiling |-> routes[r].cumulative]
<1>1. ASSUME NEW c \in Call, NEW q \in Quotes, NEW p \in DOMAIN ceiling,
             flows[c].status = "none", q.price > 0, Authorize(c, p, q), UNCHANGED ceiling
      PROVE  LedgerIsSumOfFlows'
  <2>1. /\ q.price \in Int /\ IsFiniteSet(Call) /\ IsFiniteSet(DOMAIN ceiling)
        /\ paid \in [DOMAIN ceiling -> Int] /\ paid[p] = routes[p].cumulative
    <3>1. IsFiniteSet(DOMAIN ceiling)
      BY RouteAssumption, FS_Subset DEF TypeOK
    <3> QED
      BY <1>1, <3>1, RouteAssumption DEF QuoteType, TypeOK
  <2>2. \A r \in DOMAIN ceiling : Charged(r) \in [Call -> Int]
    BY DEF Charged, TypeOK, FlowType
  <2>3. /\ ledger'.spent = ledger.spent + q.price
        /\ routes'[p].cumulative = routes[p].cumulative + q.price
        /\ \A r \in DOMAIN ceiling : r # p => routes'[r] = routes[r]
    BY <1>1, AuthorizeEffect
  <2>4. /\ paid' \in [DOMAIN ceiling -> Int] /\ paid'[p] = paid[p] + q.price
        /\ \A r \in DOMAIN ceiling : r # p => paid'[r] = paid[r]
    BY <1>1, <2>1, <2>3 DEF TypeOK
  <2>5. ledger.spent = SumFunction(paid)
        /\ \A r \in DOMAIN ceiling : routes[r].cumulative = SumFunction(Charged(r))
    BY DEF LedgerIsSumOfFlows
  <2> HIDE DEF paid
  <2>6. SumFunction(paid') = SumFunction(paid) + q.price
    BY <2>1, <2>4, SumRaised
  <2>7. /\ SumFunction(Charged(p)') = SumFunction(Charged(p)) + q.price
        /\ \A r \in DOMAIN ceiling : r # p => Charged(r)' = Charged(r)
    <3>1. /\ Charged(p)' \in [Call -> Int] /\ Charged(p)'[c] = Charged(p)[c] + q.price
          /\ \A d \in Call : d # c => Charged(p)'[d] = Charged(p)[d]
          /\ \A r \in DOMAIN ceiling : r # p => Charged(r)' = Charged(r)
      BY <1>1, AuthorizeRaises
    <3> QED
      BY <2>1, <2>2, <3>1, SumRaised
  <2>8. ledger'.spent = SumFunction(paid')
    BY <2>3, <2>5, <2>6
  <2>9. \A r \in DOMAIN ceiling : routes'[r].cumulative = SumFunction(Charged(r)')
    BY <2>3, <2>5, <2>7
  <2> QED
    BY <1>1, <2>8, <2>9 DEF LedgerIsSumOfFlows, paid
<1>2. CASE /\ UNCHANGED <<task, ceiling, ledger, routes>>
           /\ \A c \in Call :
                /\ flows'[c].status \in Accepted <=> flows[c].status \in Accepted
                /\ flows[c].status \in Accepted =>
                     /\ flows'[c].providerId = flows[c].providerId
                     /\ flows'[c].amount = flows[c].amount
  <2>1. \A p \in DOMAIN ceiling : Charged(p)' = Charged(p)
    BY <1>2 DEF Charged
  <2> QED
    BY <1>2, <2>1 DEF LedgerIsSumOfFlows
<1> QED
  BY <1>1, <1>2, KeptVouchers

\* The ledger, the watermarks and the flows add up to one spend, whatever the
\* interleaving of the calls and whichever of them fail.
THEOREM AccountsAgree == Spec => []LedgerIsSumOfFlows
<1>1. Init => LedgerIsSumOfFlows
  <2> SUFFICES ASSUME Init PROVE LedgerIsSumOfFlows
    OBVIOUS
  <2>1. IsFiniteSet(Call) /\ IsFiniteSet(DOMAIN ceiling)
    BY InitTypeOK, RouteAssumption, FS_Subset DEF TypeOK
  <2>2. [p \in DOMAIN ceiling |-> routes[p].cumulative] = [p \in DOMAIN ceiling |-> 0]
    BY DEF Init
  <2>3. \A p \in DOMAIN ceiling : Charged(p) = [c \in Call |-> 0]
    BY DEF Init, Charged, NoFlow, Accepted
  <2> QED
    BY <2>1, <2>2, <2>3, SumOfZeros DEF LedgerIsSumOfFlows, Init
<1>2. TypeOK /\ FlowFollowsCall /\ LedgerIsSumOfFlows /\ [Next]_vars => LedgerIsSumOfFlows'
  BY NextLedgerIsSumOfFlows
<1> QED
  BY <1>1, <1>2, TypeCorrect, PTL DEF Spec

-----------------------------------------------------------------------------
(* The split of the budget (Reservations), which makes the ceilings that the *)
(* orchestrator is given.                                                    *)

\* While the budget is split nothing is lost.  In a round, the providers still to be served have room,
\* the first of them gets something, and their shares exceed what remains by less than one each.
AllocationInv ==
  /\ AllocationTypeOK /\ NothingLost
  /\ place \in {"while", "for", "done"} => Acceptable
  /\ place = "for" =>
       /\ share >= 1 /\ \A i \in eligible : HasRoom(providers[i])
       /\ progressed = TRUE \/ (eligible # {} /\ remaining > 0)
       /\ share * Cardinality(eligible) <= remaining + Count - 1
       /\ remaining < 0 => share * Cardinality(eligible) <= remaining + Count - 2
  /\ place \in {"while", "done"} => remaining >= 0 \/ remaining >= 2 - Count
  /\ place = "done" => remaining <= 0
  /\ place # "stuck"

\* A sum of ones counts.
LEMMA SumOfOnes ==
  ASSUME NEW S, IsFiniteSet(S)
  PROVE  SumFunction([x \in S |-> 1]) = Cardinality(S)
<1> DEFINE f == [x \in S |-> 1]
<1>1. f \in [S -> Int] /\ \A x \in S : f[x] = 1
  OBVIOUS
<1> HIDE DEF f
<1>2. PICK g \in [SUBSET S -> Int] : Sums(f, S, g)
  BY <1>1, SumsExist
<1> DEFINE G == {s \in SUBSET S : g[s] = Cardinality(s)}
<1>3. ASSUME NEW s \in SUBSET S, \A t \in SUBSET s : t # s => t \in G PROVE s \in G
  <2>1. g[s] = IF s = {} THEN 0 ELSE f[First(s)] + g[Rest(s)]
    BY <1>2 DEF Sums
  <2>2. CASE s = {}
    BY <2>1, <2>2, FS_EmptySet
  <2>3. CASE s # {}
    <3>1. First(s) \in s /\ Rest(s) \in SUBSET s /\ Rest(s) # s /\ First(s) \in S
      BY <2>3, FirstRest
    <3>2. f[First(s)] = 1 /\ g[Rest(s)] = Cardinality(Rest(s))
      BY <1>1, <1>3, <3>1
    <3>3. IsFiniteSet(s)
      BY FS_Subset
    <3>4. Cardinality(Rest(s)) = Cardinality(s) - 1 /\ Cardinality(s) \in Nat
      BY <3>1, <3>3, FS_RemoveElement, FS_CardinalityType DEF Rest
    <3> QED
      BY <2>1, <2>3, <3>2, <3>4
  <2> QED
    BY <2>2, <2>3
<1> HIDE DEF G
<1>4. S \in G
  BY <1>3, SubsetInduction
<1>5. g[S] = Cardinality(S)
  BY <1>4 DEF G
<1> QED
  BY <1>1, <1>2, <1>5, SumIs DEF f

\* A sum of integers is one.
LEMMA SumIsInt ==
  ASSUME NEW S, IsFiniteSet(S), NEW f \in [S -> Int]
  PROVE  SumFunction(f) \in Int
<1>1. PICK g \in [SUBSET S -> Int] : Sums(f, S, g)
  BY SumsExist
<1> QED
  BY <1>1, SumIs

\* The providers of a request are as many as its list is long.
LEMMA ChosenAreCounted ==
  ASSUME providers \in Seq(ProviderId), IsInjective(providers)
  PROVE  /\ Chosen \subseteq ProviderId /\ IsFiniteSet(Chosen) /\ Cardinality(Chosen) = Count
         /\ Count \in Nat /\ \A i \in 1..Count : providers[i] \in Chosen
         /\ \A p \in Chosen : \E i \in 1..Count : providers[i] = p
<1>1. Count \in Nat /\ providers \in [1..Count -> ProviderId] /\ DOMAIN providers = 1..Count
  BY DEF Count
<1>2. Chosen = {providers[i] : i \in 1..Count}
  BY <1>1 DEF Chosen, Range
<1>3. providers \in Bijection(1..Count, Chosen)
  BY <1>1, <1>2 DEF Bijection, Injection, Surjection, IsInjective, IsInjective
<1>4. ExistsBijection(1..Count, Chosen)
  BY <1>3 DEF ExistsBijection
<1>5. IsFiniteSet(Chosen) /\ Cardinality(Chosen) = Count
  <2>1. IsFiniteSet(1..Count) /\ Cardinality(1..Count) = Count
    BY <1>1, FS_Interval
  <2> QED
    BY <1>4, <2>1, FS_Bijection
<1> QED
  BY <1>1, <1>2, <1>5

\* What the types say, with the positions of the request and its providers.
LEMMA AllocationTypes ==
  ASSUME AllocationTypeOK
  PROVE  /\ Chosen \subseteq ProviderId /\ IsFiniteSet(Chosen) /\ Cardinality(Chosen) = Count /\ Count \in Nat
         /\ \A i \in 1..Count : providers[i] \in Chosen
         /\ \A p \in Chosen : \E i \in 1..Count : providers[i] = p
         /\ DOMAIN providers = 1..Count /\ IsInjective(providers)
         /\ MaxBudget \in Nat /\ budget \in 1..MaxBudget /\ share \in Nat
         /\ remaining \in Int /\ remaining <= MaxBudget /\ eligible \subseteq 1..Count
         /\ caps \in [ProviderId -> 0..MaxBudget] /\ alloc \in [ProviderId -> 0..MaxBudget]
         /\ \A p \in Chosen : caps[p] \in Nat /\ alloc[p] \in Nat
<1>1. /\ Chosen \subseteq ProviderId /\ IsFiniteSet(Chosen) /\ Cardinality(Chosen) = Count /\ Count \in Nat
      /\ \A i \in 1..Count : providers[i] \in Chosen
      /\ \A p \in Chosen : \E i \in 1..Count : providers[i] = p
  BY ChosenAreCounted DEF AllocationTypeOK
<1>2. DOMAIN providers = 1..Count /\ IsInjective(providers)
  BY DEF AllocationTypeOK, Count
<1>3. /\ MaxBudget \in Nat /\ budget \in 1..MaxBudget /\ share \in 0..MaxBudget
      /\ remaining \in Int /\ remaining <= MaxBudget /\ eligible \subseteq 1..Count
      /\ caps \in [ProviderId -> 0..MaxBudget] /\ alloc \in [ProviderId -> 0..MaxBudget]
  BY ReservationsAssumption DEF AllocationTypeOK
<1>4. \A p \in Chosen : caps[p] \in Nat /\ alloc[p] \in Nat
  BY <1>1, <1>3
<1> QED
  BY <1>1, <1>2, <1>3, <1>4

\* A share is rounded up: it is positive, no more than what remains, and all of them together are
\* over that by less than one each.
LEMMA ShareIsPositive ==
  ASSUME NEW r \in Nat, NEW n \in Nat, r >= 1, n >= 1
  PROVE  (r + n - 1) \div n \in 1..r /\ ((r + n - 1) \div n) * n <= r + n - 1
<1> DEFINE q == (r + n - 1) \div n
<1>1. q \in Int
  OBVIOUS
<1>2. n * q <= r + n - 1 /\ r + n - 1 < n * q + n
  OBVIOUS
<1>3. q >= 1
  <2>1. ASSUME q <= 0 PROVE n * q <= 0
    BY <1>1, <2>1
  <2> QED
    BY <1>1, <1>2, <2>1
<1>4. q <= r
  <2>1. ASSUME q >= r + 1 PROVE n * q >= r + n
    <3>1. PICK k \in Nat : q = r + 1 + k
      <4>1. q - r - 1 \in Nat /\ q = r + 1 + (q - r - 1)
        BY <1>1, <2>1
      <4> QED
        BY <4>1
    <3>2. n * q = n * r + n + n * k /\ n * r >= r /\ n * k >= 0
      BY <3>1
    <3> QED
      BY <1>1, <3>2
  <2> QED
    BY <1>1, <1>2, <2>1
<1>5. q * n = n * q
  BY <1>1
<1> QED
  BY <1>1, <1>2, <1>3, <1>4, <1>5

\* Nothing is allocated at first.
LEMMA AllocationStarts == AllocationInit => AllocationInv
<1> SUFFICES ASSUME AllocationInit PROVE AllocationInv
  OBVIOUS
<1> USE ReservationsAssumption
<1>1. Cardinality(ProviderId) \in Nat
  BY FS_CardinalityType
<1>2. providers \in Seq(ProviderId) /\ IsInjective(providers)
  BY <1>1 DEF AllocationInit, SeqOf
<1>3. PICK given \in [ProviderId -> Cap] : caps = Completed(given, budget)
  BY DEF AllocationInit
<1>4. ASSUME NEW p \in ProviderId PROVE caps[p] \in 0..MaxBudget
  <2> DEFINE c == CHOOSE n \in given[p] \cup {budget} : given[p] # NoCap => n \in given[p]
  <2>1. given[p] \in Cap /\ budget \in 0..MaxBudget
    BY DEF AllocationInit
  <2>2. \E n \in given[p] \cup {budget} : given[p] # NoCap => n \in given[p]
    BY <2>1 DEF Cap, NoCap
  <2>3. c \in given[p] \cup {budget}
    BY <2>2
  <2>4. caps[p] = c
    BY <1>3 DEF Completed
  <2> QED
    BY <2>1, <2>3, <2>4 DEF Cap, NoCap
<1>5. caps \in [ProviderId -> 0..MaxBudget]
  BY <1>3, <1>4 DEF Completed
<1>6. /\ budget \in 1..MaxBudget /\ alloc = [p \in ProviderId |-> 0] /\ remaining = 0 /\ eligible = {}
      /\ share = 0 /\ progressed = FALSE /\ place = "check" /\ MaxBudget \in Nat
  BY DEF AllocationInit
<1>7. AllocationTypeOK
  <2>1. /\ alloc \in [ProviderId -> 0..MaxBudget] /\ \A p \in ProviderId \ Chosen : alloc[p] = 0
        /\ remaining \in Int /\ remaining <= MaxBudget /\ share \in 0..MaxBudget
    BY <1>6
  <2>2. progressed \in BOOLEAN /\ eligible \subseteq 1..Count /\ place \in Place
    BY <1>6 DEF Place
  <2> QED
    BY <1>2, <1>5, <1>6, <2>1, <2>2 DEF AllocationTypeOK
<1> QED
  BY <1>6, <1>7 DEF AllocationInv, NothingLost

\* Every provider of an acceptable request gets one unit.
LEMMA CheckKeeps ==
  ASSUME AllocationInv, Check
  PROVE  AllocationInv'
<1> USE ReservationsAssumption
<1>1. /\ Chosen \subseteq ProviderId /\ IsFiniteSet(Chosen) /\ Cardinality(Chosen) = Count /\ Count \in Nat
      /\ budget \in 1..MaxBudget /\ caps \in [ProviderId -> 0..MaxBudget]
  BY AllocationTypes DEF AllocationInv
<1>2. UNCHANGED <<budget, providers, caps, eligible, share, progressed, Chosen, Count, Capacity>>
  BY DEF Check, Chosen, Count, Capacity
<1>3. CASE Acceptable /\ alloc' = [p \in ProviderId |-> IF p \in Chosen THEN 1 ELSE 0]
           /\ remaining' = budget - Count /\ place' = "while"
  <2>1. Allocated' = Count
    <3>1. Allocated' = SumFunction([p \in Chosen |-> alloc'[p]])
      BY <1>2 DEF Allocated
    <3>2. [p \in Chosen |-> alloc'[p]] = [p \in Chosen |-> 1]
      BY <1>1, <1>3
    <3> QED
      BY <1>1, <3>1, <3>2, SumOfOnes
  <2>2. \A p \in Chosen : caps[p] > 0 /\ caps[p] \in Int /\ alloc'[p] = 1
    BY <1>1, <1>3 DEF Acceptable
  <2>3. budget >= Count /\ remaining' \in 0..MaxBudget /\ alloc' \in [ProviderId -> 0..MaxBudget]
    BY <1>1, <1>3 DEF Acceptable
  <2>4. NothingLost'
    BY <1>1, <1>2, <1>3, <2>1, <2>2, <2>3 DEF NothingLost
  <2>5. Acceptable'
    BY <1>2, <1>3 DEF Acceptable
  <2>6. AllocationTypeOK'
    BY <1>2, <1>3, <2>3 DEF AllocationInv, AllocationTypeOK, Place
  <2> QED
    BY <1>3, <2>3, <2>4, <2>5, <2>6 DEF AllocationInv
<1>4. CASE place' = "rejected" /\ UNCHANGED <<alloc, remaining>>
  BY <1>2, <1>4 DEF AllocationInv, AllocationTypeOK, NothingLost, Place
<1> QED
  BY <1>3, <1>4 DEF Check

\* While something remains, some provider has room: the caps add up to the budget, or more.
LEMMA SomeoneHasRoom ==
  ASSUME AllocationInv, place = "while", remaining > 0
  PROVE  \E i \in 1..Count : HasRoom(providers[i])
<1>1. /\ Chosen \subseteq ProviderId /\ IsFiniteSet(Chosen) /\ Count \in Nat
      /\ \A p \in Chosen : \E i \in 1..Count : providers[i] = p
      /\ remaining \in Int /\ budget \in Nat
      /\ caps \in [ProviderId -> 0..MaxBudget] /\ alloc \in [ProviderId -> 0..MaxBudget]
      /\ \A p \in Chosen : caps[p] \in Nat /\ alloc[p] \in Nat
  BY AllocationTypes DEF AllocationInv
<1>2. SUFFICES ASSUME \A i \in 1..Count : ~HasRoom(providers[i]) PROVE FALSE
  OBVIOUS
<1>3. ASSUME NEW p \in Chosen PROVE alloc[p] = caps[p]
  <2>1. ~(alloc[p] < caps[p])
    BY <1>1, <1>2 DEF HasRoom
  <2>2. alloc[p] <= caps[p]
    BY DEF AllocationInv, NothingLost
  <2>3. alloc[p] \in Int /\ caps[p] \in Int
    BY <1>1
  <2> QED
    BY <2>1, <2>2, <2>3
<1>4. Allocated = Capacity
  <2>1. [p \in Chosen |-> alloc[p]] = [p \in Chosen |-> caps[p]]
    BY <1>3
  <2> QED
    BY <2>1 DEF Allocated, Capacity
<1>5. Allocated + remaining = budget /\ Capacity >= budget
  BY DEF AllocationInv, NothingLost, Acceptable
<1>6. Capacity \in Int
  <2>1. [p \in Chosen |-> caps[p]] \in [Chosen -> Int]
    BY <1>1
  <2> QED
    BY <1>1, <2>1, SumIsInt DEF Capacity
<1> QED
  BY <1>1, <1>4, <1>5, <1>6

\* A round begins with the providers that have room, and a positive share.
LEMMA RoundKeeps ==
  ASSUME AllocationInv, Round
  PROVE  AllocationInv'
<1> USE ReservationsAssumption
<1> DEFINE open == {i \in 1..Count : HasRoom(providers[i])}
<1>1. Count \in Nat /\ remaining \in Int /\ remaining <= MaxBudget
  BY AllocationTypes DEF AllocationInv
<1>2. /\ UNCHANGED <<budget, providers, caps, alloc, remaining, Chosen, Count, Capacity, Allocated>>
      /\ place = "while" /\ \A i \in 1..Count : HasRoom(providers[i])' = HasRoom(providers[i])
  BY DEF Round, Chosen, Count, Capacity, Allocated, HasRoom
<1>3. /\ place' = IF remaining <= 0 THEN "done" ELSE IF open = {} THEN "stuck" ELSE "for"
      /\ IF place' = "for" THEN eligible' = open /\ share' = ShareOf(Cardinality(open)) /\ progressed' = FALSE
                           ELSE UNCHANGED <<eligible, share, progressed>>
  BY DEF Round
<1>4. NothingLost' /\ (place' # "stuck" => Acceptable')
  BY <1>2, <1>3 DEF AllocationInv, NothingLost, Acceptable
<1>5. CASE remaining <= 0
  BY <1>2, <1>3, <1>4, <1>5 DEF AllocationInv, AllocationTypeOK, Place
<1>6. CASE remaining > 0
  <2>1. open # {}
    BY <1>2, <1>6, SomeoneHasRoom
  <2>2. place' = "for" /\ eligible' = open /\ share' = ShareOf(Cardinality(open)) /\ progressed' = FALSE
    BY <1>1, <1>3, <1>6, <2>1
  <2> DEFINE n == Cardinality(open)
  <2>3. n \in 1..Count
    <3>1. IsFiniteSet(1..Count) /\ Cardinality(1..Count) = Count
      BY <1>1, FS_Interval
    <3>2. IsFiniteSet(open) /\ n <= Count
      BY <3>1, FS_Subset
    <3>3. n \in Nat /\ n # 0
      BY <2>1, <3>2, FS_CardinalityType, FS_EmptySet
    <3> QED
      BY <1>1, <3>2, <3>3
  <2> HIDE DEF open
  <2>4. share' \in 1..remaining /\ share' * n <= remaining + n - 1
    <3> HIDE DEF n
    <3>1. share' = (remaining + n - 1) \div n
      BY <2>2 DEF ShareOf, n
    <3>2. remaining \in Nat /\ n \in Nat /\ remaining >= 1 /\ n >= 1
      BY <1>1, <1>6, <2>3
    <3>3. (remaining + n - 1) \div n \in 1..remaining /\ ((remaining + n - 1) \div n) * n <= remaining + n - 1
      BY <3>2, ShareIsPositive
    <3> QED
      BY <3>1, <3>3
  <2>5. share' \in 0..MaxBudget /\ share' >= 1
    BY <1>1, <2>4
  <2>6. eligible' \subseteq 1..Count /\ \A i \in eligible' : HasRoom(providers[i])
    BY <2>2 DEF open
  <2>7. AllocationTypeOK'
    BY <1>2, <2>2, <2>5, <2>6 DEF AllocationInv, AllocationTypeOK, Place
  <2>8. share' * Cardinality(eligible') <= remaining' + Count' - 1
    <3>1. share' * Cardinality(eligible') = share' * n /\ remaining' = remaining /\ Count' = Count
      BY <1>2, <2>2
    <3>2. remaining + n - 1 <= remaining + Count - 1
      BY <1>1, <2>3
    <3> HIDE DEF n
    <3> DEFINE m == share' * n
    <3>3. m \in Int /\ m <= remaining + n - 1
      <4>1. share' \in Int /\ n \in Int
        BY <1>1, <2>3, <2>4
      <4> QED
        BY <2>4, <4>1
    <3>4. n \in Int /\ share' * Cardinality(eligible') = m
      BY <2>3, <3>1
    <3> HIDE DEF m
    <3> QED
      BY <1>1, <3>1, <3>2, <3>3, <3>4
  <2>9. \A i \in eligible' : HasRoom(providers[i])'
    BY <1>2, <2>6
  <2>10. remaining' > 0 /\ ~(remaining' < 0) /\ eligible' # {}
    BY <1>1, <1>2, <1>6, <2>1, <2>2
  <2> QED
    BY <1>4, <2>2, <2>5, <2>7, <2>8, <2>9, <2>10 DEF AllocationInv
<1> QED
  BY <1>1, <1>5, <1>6

\* A provider that is served gets no more than it has room for, nor than a share; and something, as
\* long as something remains.
LEMMA GivenIsBounded ==
  ASSUME NEW p, alloc[p] \in Nat, caps[p] \in Nat, alloc[p] < caps[p], share \in Nat, share >= 1,
         remaining \in Int, remaining # 0
  PROVE  /\ Given(p) \in Nat /\ Given(p) <= caps[p] - alloc[p] /\ Given(p) <= share
         /\ remaining > 0 => Given(p) > 0
         /\ remaining > 0 /\ Given(p) > remaining => Given(p) < share
BY DEF Given, Add

\* What a round gives, it takes from what remains.
LEMMA GiveKeeps ==
  ASSUME AllocationInv, Give
  PROVE  AllocationInv'
<1> USE ReservationsAssumption
<1>1. /\ Chosen \subseteq ProviderId /\ IsFiniteSet(Chosen) /\ Count \in Nat
      /\ \A i \in 1..Count : providers[i] \in Chosen
      /\ IsInjective(providers) /\ DOMAIN providers = 1..Count
      /\ remaining \in Int /\ remaining <= MaxBudget /\ share \in Nat /\ budget \in Nat
      /\ caps \in [ProviderId -> 0..MaxBudget] /\ alloc \in [ProviderId -> 0..MaxBudget]
      /\ eligible \subseteq 1..Count
  BY AllocationTypes DEF AllocationInv
<1>2. UNCHANGED <<budget, providers, caps, share, Chosen, Count, Capacity>> /\ place = "for"
  BY DEF Give, Chosen, Count, Capacity
<1>3. /\ share >= 1 /\ \A i \in eligible : HasRoom(providers[i])
      /\ progressed = TRUE \/ (eligible # {} /\ remaining > 0)
      /\ share * Cardinality(eligible) <= remaining + Count - 1
      /\ remaining < 0 => share * Cardinality(eligible) <= remaining + Count - 2
      /\ Allocated + remaining = budget
  BY <1>2 DEF AllocationInv, NothingLost
<1>4. Acceptable'
  BY <1>2 DEF AllocationInv, Acceptable
<1>5. CASE /\ eligible # {} /\ remaining # 0
           /\ LET p == providers[Min(eligible)] IN
              /\ alloc' = [alloc EXCEPT ![p] = @ + Given(p)]
              /\ remaining' = remaining - Given(p)
              /\ progressed' = (progressed \/ Given(p) > 0)
           /\ eligible' = eligible \ {Min(eligible)} /\ UNCHANGED place
  <2> DEFINE i == Min(eligible)
             p == providers[i]
             d == Given(p)
             c == Cardinality(eligible)
  <2>1. i \in eligible /\ i \in 1..Count
    <3>1. eligible \subseteq Nat
      BY <1>1
    <3> QED
      BY <1>1, <1>5, <3>1, LeastElement
  <2>2. p \in Chosen /\ p \in ProviderId /\ alloc[p] \in Nat /\ caps[p] \in Nat /\ alloc[p] < caps[p]
    BY <1>1, <1>3, <2>1 DEF HasRoom
  <2>3. /\ alloc' = [alloc EXCEPT ![p] = @ + d] /\ remaining' = remaining - d
        /\ progressed' = (progressed \/ d > 0) /\ eligible' = eligible \ {i} /\ place' = "for"
    BY <1>2, <1>5
  <2> HIDE DEF i, p
  <2>4. /\ d \in Nat /\ d <= caps[p] - alloc[p] /\ d <= share
        /\ remaining > 0 => d > 0
        /\ remaining > 0 /\ d > remaining => d < share
    BY <1>1, <1>3, <1>5, <2>2, GivenIsBounded
  <2> HIDE DEF d
  <2>5. Allocated' = Allocated + d
    <3> DEFINE f == [q \in Chosen |-> alloc[q]]
               k == [q \in Chosen |-> alloc'[q]]
    <3>1. f \in [Chosen -> Int] /\ k \in [Chosen -> Int]
      BY <1>1, <2>2, <2>3, <2>4
    <3>2. k[p] = f[p] + d /\ \A q \in Chosen : q # p => k[q] = f[q]
      BY <1>1, <2>2, <2>3
    <3>3. Allocated = SumFunction(f) /\ Allocated' = SumFunction(k)
      BY <1>2 DEF Allocated
    <3> HIDE DEF f, k
    <3>4. d \in Int /\ p \in Chosen /\ IsFiniteSet(Chosen)
      BY <1>1, <2>2, <2>4
    <3> QED
      BY <3>1, <3>2, <3>3, <3>4, SumRaised
  <2>6. Allocated \in Int
    <3>1. [q \in Chosen |-> alloc[q]] \in [Chosen -> Int]
      BY <1>1
    <3> QED
      BY <1>1, <3>1, SumIsInt DEF Allocated
  <2>7. NothingLost'
    <3>1. Allocated' + remaining' = budget'
      BY <1>1, <1>2, <1>3, <2>3, <2>4, <2>5, <2>6
    <3>2. ASSUME NEW q \in Chosen PROVE 1 <= alloc'[q] /\ alloc'[q] <= caps'[q]
      <4>1. 1 <= alloc[q] /\ alloc[q] <= caps[q] /\ alloc[q] \in Nat /\ caps[q] \in Nat /\ q \in ProviderId
        BY <1>1, <1>2 DEF AllocationInv, NothingLost
      <4>2. alloc'[q] = IF q = p THEN alloc[q] + d ELSE alloc[q]
        BY <1>1, <2>2, <2>3, <4>1
      <4> QED
        BY <1>2, <2>4, <4>1, <4>2
    <3> QED
      BY <1>2, <3>1, <3>2 DEF NothingLost
  <2>8. AllocationTypeOK'
    <3>1. alloc'[p] \in 0..MaxBudget
      BY <1>1, <2>2, <2>3, <2>4
    <3>2. alloc' \in [ProviderId -> 0..MaxBudget]
      BY <1>1, <2>2, <2>3, <3>1
    <3>3. remaining' \in Int /\ remaining' <= MaxBudget
      BY <1>1, <2>3, <2>4
    <3>4. \A q \in ProviderId \ Chosen : alloc'[q] = 0
      BY <1>1, <2>2, <2>3 DEF AllocationInv, AllocationTypeOK
    <3>5. progressed' \in BOOLEAN
      BY <2>3
    <3> QED
      BY <1>1, <1>2, <2>3, <3>2, <3>3, <3>4, <3>5 DEF AllocationInv, AllocationTypeOK, Place
  <2>9. \A j \in eligible' : HasRoom(providers[j])'
    <3>1. SUFFICES ASSUME NEW j \in eligible, j # i PROVE HasRoom(providers[j])'
      BY <2>3
    <3>2. providers[j] # p /\ providers[j] \in ProviderId /\ HasRoom(providers[j])
      BY <1>1, <1>3, <2>1, <3>1 DEF IsInjective, p
    <3> QED
      BY <1>1, <1>2, <2>3, <3>2 DEF HasRoom
  <2>10. progressed' = TRUE \/ (eligible' # {} /\ remaining' > 0)
    BY <1>3, <2>3, <2>4
  <2>11. Cardinality(eligible') = c - 1 /\ c \in Nat
    <3>1. IsFiniteSet(eligible)
      <4>1. IsFiniteSet(1..Count)
        BY <1>1, FS_Interval
      <4> QED
        BY <1>1, <4>1, FS_Subset
    <3> QED
      BY <2>1, <2>3, <3>1, FS_RemoveElement, FS_CardinalityType
  <2>12. share' * Cardinality(eligible') = share * c - share /\ share * c \in Int
    <3> HIDE DEF c
    <3>1. share' * Cardinality(eligible') = share * (c - 1)
      BY <1>2, <2>11
    <3> QED
      BY <1>1, <2>11, <3>1
  <2> HIDE DEF c
  <2>13. /\ share' * Cardinality(eligible') <= remaining' + Count' - 1
         /\ remaining' < 0 => share' * Cardinality(eligible') <= remaining' + Count' - 2
    <3>1. share * c <= remaining + Count - 1 /\ (remaining < 0 => share * c <= remaining + Count - 2)
      BY <1>3 DEF c
    <3> DEFINE m == share * c
    <3>2. m \in Int /\ share' * Cardinality(eligible') = m - share /\ m <= remaining + Count - 1
          /\ (remaining < 0 => m <= remaining + Count - 2) /\ Count' = Count /\ remaining' = remaining - d
      BY <1>2, <2>3, <2>12, <3>1
    <3> HIDE DEF m
    <3> QED
      BY <1>1, <1>5, <2>4, <3>2
  <2> QED
    BY <1>2, <1>3, <1>4, <2>3, <2>7, <2>8, <2>9, <2>10, <2>13 DEF AllocationInv
<1>6. CASE /\ eligible = {} \/ remaining = 0
           /\ place' = IF progressed THEN "while" ELSE "stuck"
           /\ eligible' = {} /\ UNCHANGED <<alloc, remaining, progressed>>
  <2>1. place' = "while"
    BY <1>3, <1>6
  <2>2. Allocated' = Allocated
    BY <1>2, <1>6 DEF Allocated
  <2>3. NothingLost'
    BY <1>2, <1>6, <2>2 DEF AllocationInv, NothingLost
  <2>4. AllocationTypeOK'
    BY <1>2, <1>6, <2>1 DEF AllocationInv, AllocationTypeOK, Place
  <2>5. remaining >= 0 \/ remaining >= 2 - Count
    <3>1. CASE eligible = {}
      <4>1. Cardinality(eligible) = 0 /\ share * 0 = 0
        BY <1>1, <3>1, FS_EmptySet
      <4>2. remaining < 0 => 0 <= remaining + Count - 2
        BY <1>3, <4>1
      <4> QED
        BY <1>1, <4>2
    <3>2. CASE remaining = 0
      BY <3>2
    <3> QED
      BY <1>6, <3>1, <3>2
  <2> QED
    BY <1>2, <1>4, <1>6, <2>1, <2>3, <2>4, <2>5 DEF AllocationInv
<1> QED
  BY <1>5, <1>6 DEF Give

\* No step loses the invariant.
LEMMA AllocationKeeps == AllocationInv /\ [AllocationNext]_allocation => AllocationInv'
<1> SUFFICES ASSUME AllocationInv, [AllocationNext]_allocation PROVE AllocationInv'
  OBVIOUS
<1>1. CASE UNCHANGED allocation
  BY <1>1 DEF allocation, AllocationInv, AllocationTypeOK, NothingLost, Acceptable, HasRoom, Chosen, Count,
              Capacity, Allocated
<1>2. CASE AllocationNext
  BY <1>2, CheckKeeps, RoundKeeps, GiveKeeps DEF AllocationNext
<1> QED
  BY <1>1, <1>2

\* THE BUDGET IS SPLIT: the inductive invariant of allocateReservations, for any providers, budgets and
\* caps.  It includes that the throws inside its loop are never reached.
THEOREM AllocationInvariant == AllocationSpec => []AllocationInv
<1> QED
  BY AllocationStarts, AllocationKeeps, PTL DEF AllocationSpec

\* What allocateReservations returns gives every provider a positive ceiling within its cap, and covers
\* the budget; it exceeds the budget by less than one unit per provider after the first.
LEMMA PlanOfInv == AllocationInv => PlanCoversBudget
<1> SUFFICES ASSUME AllocationInv, place = "done" PROVE PlanCoversBudget
  BY DEF PlanCoversBudget
<1>1. /\ Allocated + remaining = budget /\ \A p \in Chosen : 1 <= alloc[p] /\ alloc[p] <= caps[p]
      /\ remaining <= 0 /\ (remaining >= 0 \/ remaining >= 2 - Count)
  BY DEF AllocationInv, NothingLost
<1>2. /\ Chosen \subseteq ProviderId /\ IsFiniteSet(Chosen) /\ Count \in Nat
      /\ remaining \in Int /\ budget \in Nat
      /\ caps \in [ProviderId -> 0..MaxBudget] /\ alloc \in [ProviderId -> 0..MaxBudget]
      /\ \A p \in Chosen : caps[p] \in Nat /\ alloc[p] \in Nat
  BY AllocationTypes DEF AllocationInv
<1>3. Allocated \in Int
  <2>1. [q \in Chosen |-> alloc[q]] \in [Chosen -> Int]
    BY <1>2, ReservationsAssumption
  <2> QED
    BY <1>2, <2>1, SumIsInt DEF Allocated
<1>4. \A p \in Chosen : alloc[p] \in 1..caps[p]
  BY <1>1, <1>2, ReservationsAssumption
<1> QED
  BY <1>1, <1>2, <1>3, <1>4 DEF PlanCoversBudget

\* NOTHING IS LOST IN THE SPLIT: while the budget is split, what is allocated and what remains make the
\* budget, and every provider has at least one unit and at most its cap.
THEOREM NothingIsLost == AllocationSpec => []NothingLost
<1>1. AllocationInv => NothingLost
  BY DEF AllocationInv
<1> QED
  BY <1>1, AllocationInvariant, PTL

\* A unit less to give makes up for any change of place.
LEMMA LapsCount ==
  ASSUME NEW n \in Nat, NEW l \in Nat, NEW m \in Nat, m < l
  PROVE  /\ l * (2 * n + 4) \in Nat /\ m * (2 * n + 4) \in Nat
         /\ m * (2 * n + 4) + 2 * n + 4 <= l * (2 * n + 4)
<1> DEFINE lap == 2 * n + 4
           k == l - m - 1
<1>1. lap \in Nat /\ k \in Nat /\ l = m + 1 + k
  OBVIOUS
<1> HIDE DEF lap, k
<1>2. l * lap = m * lap + lap + k * lap /\ k * lap \in Nat /\ m * lap \in Nat
  BY <1>1
<1>3. l * lap \in Nat /\ m * lap + lap <= l * lap
  BY <1>1, <1>2
<1> QED
  BY <1>2, <1>3 DEF lap

\* What remains to be given, as the distance counts it.
Left == IF remaining > 0 THEN remaining ELSE 0

\* The distance, place by place.
DistanceByPlace ==
  /\ Count \in Nat /\ budget \in Nat /\ Left \in Nat /\ Cardinality(eligible) \in 0..Count
  /\ Left * (2 * Count + 4) \in Nat /\ budget * (2 * Count + 4) \in Nat
  /\ Distance \in Nat
  /\ place = "check" => Distance = budget * (2 * Count + 4) + Count + 2
  /\ place = "while" => Distance = Left * (2 * Count + 4) + Count + 1
  /\ place = "for" /\ progressed = TRUE => Distance = Left * (2 * Count + 4) + Count + 2 + Cardinality(eligible)
  /\ place = "for" /\ progressed = FALSE => Distance = Left * (2 * Count + 4) + Cardinality(eligible)
  /\ place \in {"done", "rejected", "stuck"} => Distance = 0

\* This follows from the types.
LEMMA DistanceIs == AllocationTypeOK => DistanceByPlace
<1> SUFFICES ASSUME AllocationTypeOK PROVE DistanceByPlace
  OBVIOUS
<1>1. /\ Count \in Nat /\ budget \in Nat /\ Left \in Nat /\ Cardinality(eligible) \in 0..Count
      /\ progressed \in BOOLEAN /\ place \in Place
  <2>1. /\ Count \in Nat /\ budget \in 1..MaxBudget /\ MaxBudget \in Nat /\ remaining \in Int
        /\ eligible \subseteq 1..Count
    BY AllocationTypes
  <2>2. IsFiniteSet(1..Count) /\ Cardinality(1..Count) = Count
    BY <2>1, FS_Interval
  <2>3. IsFiniteSet(eligible) /\ Cardinality(eligible) <= Count
    BY <2>1, <2>2, FS_Subset
  <2>4. Cardinality(eligible) \in Nat
    BY <2>3, FS_CardinalityType
  <2>5. progressed \in BOOLEAN /\ place \in Place
    BY DEF AllocationTypeOK
  <2> QED
    BY <2>1, <2>3, <2>4, <2>5 DEF Left
<1>2. Left * (2 * Count + 4) \in Nat /\ budget * (2 * Count + 4) \in Nat
  BY <1>1
<1> DEFINE a == Left * (2 * Count + 4)
           b == budget * (2 * Count + 4)
           c == Cardinality(eligible)
<1>3. Distance = CASE place = "check" -> b + Count + 2
                   [] place = "for" /\ progressed -> a + Count + 2 + c
                   [] place = "while" -> a + Count + 1
                   [] place = "for" /\ ~progressed -> a + c
                   [] OTHER -> 0
  BY DEF Distance, Left
<1>4. a \in Nat /\ b \in Nat /\ c \in 0..Count
  BY <1>1, <1>2
<1> HIDE DEF a, b, c
<1>5. /\ place = "check" => Distance = b + Count + 2
      /\ place = "while" => Distance = a + Count + 1
      /\ place = "for" /\ progressed = TRUE => Distance = a + Count + 2 + c
      /\ place = "for" /\ progressed = FALSE => Distance = a + c
      /\ place \in {"done", "rejected", "stuck"} => Distance = 0
  BY <1>3
<1>6. Distance \in Nat
  BY <1>1, <1>4, <1>5 DEF Place
<1> QED
  BY <1>1, <1>2, <1>5, <1>6 DEF DistanceByPlace, a, b, c

\* And so it does after a step.
LEMMA DistanceIsNext == AllocationTypeOK' => DistanceByPlace'
<1> QED
  BY DistanceIs, PTL

\* The first two tests of allocateReservations leave less than the budget to give.
LEMMA CheckIsCloser ==
  ASSUME AllocationInv, AllocationTypeOK', Check
  PROVE  Distance' < Distance
<1>1. Count' = Count /\ budget' = budget /\ place = "check"
  BY DEF Check, Count
<1>2. /\ Count \in Nat /\ budget \in Nat /\ Left' \in Nat
      /\ Left' * (2 * Count + 4) \in Nat /\ budget * (2 * Count + 4) \in Nat
      /\ Distance = budget * (2 * Count + 4) + Count + 2
      /\ place' = "while" => Distance' = Left' * (2 * Count + 4) + Count + 1
      /\ place' = "rejected" => Distance' = 0
  BY <1>1, DistanceIs, DistanceIsNext DEF AllocationInv, DistanceByPlace
<1>3. CASE place' = "rejected"
  BY <1>2, <1>3
<1>4. CASE place' = "while" /\ remaining' = budget - Count /\ budget >= Count
  <2>1. Left' <= budget
    BY <1>2, <1>4 DEF Left
  <2> DEFINE a == Left' * (2 * Count + 4)
             b == budget * (2 * Count + 4)
  <2>2. a \in Nat /\ b \in Nat /\ Distance = b + Count + 2 /\ Distance' = a + Count + 1
    BY <1>2, <1>4
  <2>3. Left' = budget => a = b
    OBVIOUS
  <2>4. Left' < budget => a + 2 * Count + 4 <= b
    BY <1>2, LapsCount
  <2> HIDE DEF a, b
  <2>5. a <= b
    BY <1>2, <2>1, <2>2, <2>3, <2>4
  <2> QED
    BY <1>2, <2>2, <2>5
<1> QED
  BY <1>3, <1>4 DEF Check, Acceptable

\* A new round has at most all providers to serve.
LEMMA RoundIsCloser ==
  ASSUME AllocationInv, AllocationInv', Round
  PROVE  Distance' < Distance
<1>1. Count' = Count /\ budget' = budget /\ place = "while" /\ Left' = Left
  BY DEF Round, Count, Left
<1> DEFINE a == Left * (2 * Count + 4)
<1>2. /\ Count \in Nat /\ a \in Nat /\ Cardinality(eligible') \in 0..Count
      /\ Distance = a + Count + 1
      /\ place' = "for" /\ progressed' = FALSE => Distance' = a + Cardinality(eligible')
      /\ place' = "done" => Distance' = 0
  BY <1>1, DistanceIs, DistanceIsNext DEF AllocationInv, DistanceByPlace
<1> HIDE DEF a
<1>3. (place' = "for" /\ progressed' = FALSE) \/ place' = "done"
  <2>1. place' \in {"done", "stuck", "for"} /\ (place' = "for" => progressed' = FALSE)
    BY DEF Round
  <2>2. place' # "stuck"
    BY DEF AllocationInv
  <2> QED
    BY <2>1, <2>2
<1> QED
  BY <1>2, <1>3

\* A provider that is served either leaves less to give or one less to serve.
LEMMA GiveIsCloser ==
  ASSUME AllocationInv, AllocationInv', Give
  PROVE  Distance' < Distance
<1>1. Count' = Count /\ budget' = budget /\ place = "for"
  BY DEF Give, Count
<1> DEFINE a == Left * (2 * Count + 4)
           b == Left' * (2 * Count + 4)
           c == Cardinality(eligible)
           d == Cardinality(eligible')
<1>2. /\ Count \in Nat /\ a \in Nat /\ b \in Nat /\ c \in 0..Count /\ d \in 0..Count
      /\ Left \in Nat /\ Left' \in Nat
      /\ progressed = TRUE => Distance = a + Count + 2 + c
      /\ progressed = FALSE => Distance = a + c
      /\ place' = "for" /\ progressed' = TRUE => Distance' = b + Count + 2 + d
      /\ place' = "while" => Distance' = b + Count + 1
  BY <1>1, DistanceIs, DistanceIsNext DEF AllocationInv, DistanceByPlace
<1>3. progressed \in BOOLEAN /\ remaining \in Int
  BY DEF AllocationInv, AllocationTypeOK
<1>4. progressed = TRUE \/ (eligible # {} /\ remaining > 0)
  BY <1>1 DEF AllocationInv
<1>5. CASE /\ eligible = {} \/ remaining = 0
           /\ place' = IF progressed THEN "while" ELSE "stuck"
           /\ eligible' = {} /\ UNCHANGED <<alloc, remaining, progressed>>
  <2>1. progressed = TRUE /\ place' = "while"
    BY <1>3, <1>4, <1>5
  <2>2. Left' = Left
    BY <1>5 DEF Left
  <2>3. b = a
    BY <2>2
  <2> HIDE DEF a, b, c, d
  <2> QED
    BY <1>2, <2>1, <2>3
<1>6. CASE /\ eligible # {} /\ remaining # 0
           /\ LET p == providers[Min(eligible)] IN
              /\ alloc' = [alloc EXCEPT ![p] = @ + Given(p)]
              /\ remaining' = remaining - Given(p)
              /\ progressed' = (progressed \/ Given(p) > 0)
           /\ eligible' = eligible \ {Min(eligible)} /\ UNCHANGED place
  <2> DEFINE i == Min(eligible)
             p == providers[i]
  <2>1. /\ i \in eligible /\ IsFiniteSet(eligible)
        /\ alloc[p] \in Nat /\ caps[p] \in Nat /\ alloc[p] < caps[p] /\ share \in Nat /\ share >= 1
    <3>1. /\ Count \in Nat /\ eligible \subseteq 1..Count /\ share \in Nat
          /\ \A j \in 1..Count : providers[j] \in Chosen
          /\ \A q \in Chosen : caps[q] \in Nat /\ alloc[q] \in Nat
      BY AllocationTypes DEF AllocationInv
    <3>2. eligible \subseteq Nat /\ IsFiniteSet(1..Count)
      BY <3>1, FS_Interval
    <3>3. i \in eligible /\ IsFiniteSet(eligible)
      BY <1>6, <3>1, <3>2, LeastElement, FS_Subset
    <3>4. share >= 1 /\ HasRoom(p)
      BY <1>1, <3>3 DEF AllocationInv
    <3> HIDE DEF i
    <3> QED
      BY <3>1, <3>3, <3>4 DEF HasRoom
  <2>2. d = c - 1 /\ c \in Nat
    BY <1>6, <2>1, FS_RemoveElement, FS_CardinalityType
  <2> DEFINE g == Given(p)
  <2>3. /\ remaining' = remaining - g /\ progressed' = (progressed \/ g > 0) /\ place' = "for"
    BY <1>1, <1>6
  <2> HIDE DEF i, p
  <2>4. g \in Nat /\ (remaining > 0 => g > 0)
    BY <1>3, <1>6, <2>1, GivenIsBounded
  <2> HIDE DEF g
  <2>5. progressed' = TRUE
    BY <1>4, <2>3, <2>4
  <2>6. CASE remaining > 0
    <3>1. Left' < Left
      BY <1>3, <2>3, <2>4, <2>6 DEF Left
    <3>2. b + 2 * Count + 4 <= a
      BY <1>2, <3>1, LapsCount
    <3> HIDE DEF a, b, c, d
    <3> QED
      BY <1>2, <1>3, <2>2, <2>3, <2>5, <3>2
  <2>7. CASE remaining < 0
    <3>1. Left' = Left /\ progressed = TRUE
      BY <1>3, <1>4, <2>3, <2>4, <2>7 DEF Left
    <3>2. a = b
      BY <3>1
    <3> HIDE DEF a, b, c, d
    <3> QED
      BY <1>2, <2>2, <2>3, <2>5, <3>1, <3>2
  <2> QED
    BY <1>3, <1>6, <2>6, <2>7
<1> QED
  BY <1>5, <1>6 DEF Give

\* THE SPLIT ENDS IN A PLAN: every step of allocateReservations is closer to its end by a natural number,
\* so that it ends; its inner throws are never reached, and what it returns gives every provider a positive
\* ceiling within its cap, covers the budget, and exceeds it by at most one unit per provider but two.
THEOREM SplitEndsInPlan == AllocationSpec => EndsInPlan
<1>1. AllocationInv => Distance \in Nat /\ place # "stuck" /\ PlanCoversBudget
  BY DistanceIs, PlanOfInv DEF AllocationInv, DistanceByPlace
<1>2. AllocationInv /\ AllocationInv' /\ [AllocationNext]_allocation => [Distance' < Distance]_allocation
  BY CheckIsCloser, RoundIsCloser, GiveIsCloser DEF AllocationNext, AllocationInv
<1> QED
  BY <1>1, <1>2, AllocationInvariant, PTL DEF AllocationSpec, EndsInPlan

\* The reservations that createTask stores and executeTask hands to the orchestrator.
Plan == [p \in Chosen |-> alloc[p]]

\* The tasks that createTask splits the budget for: their providers are in the registry and allowed by
\* their policy, and it is their caps that bound the split.
SplitFor(t) ==
  /\ t.total = budget
  /\ Chosen \subseteq (Registered \cap t.policy.allowedProviderIds) \ t.policy.blockedProviderIds
  /\ \A p \in Chosen :
       IF t.policy.providerCaps[p] = {} THEN caps[p] = budget ELSE t.policy.providerCaps[p] = {caps[p]}

\* The two sums of a function over its domain are the same.
LEMMA SumsAreOne ==
  ASSUME NEW S, NEW f, DOMAIN f = S
  PROVE  MapThenSumSet(LAMBDA p : f[p], S) = SumFunction(f)
BY DEF MapThenSumSet, SumFunction, SumFunctionOnSet, FoldFunctionOnSet, MapThenFoldSet

\* The orchestrator accepts a plan unless the sum is over the budget, as it can be from three providers.
LEMMA PlanIsAccepted ==
  ASSUME AllocationInv, place = "done", NEW t, SplitFor(t)
  PROVE  /\ AcceptsReservations(t, Plan) <=> Allocated = budget
         /\ Count <= 2 => AcceptsReservations(t, Plan)
<1>1. /\ \A p \in Chosen : alloc[p] \in 1..caps[p]
      /\ Allocated # budget => Allocated \in budget + 1 .. budget + Count - 2
  BY PlanOfInv DEF PlanCoversBudget
<1>2. /\ IsFiniteSet(Chosen) /\ Count \in Nat /\ budget \in Nat
      /\ \A p \in Chosen : caps[p] \in Nat /\ alloc[p] \in Nat
  BY AllocationTypes DEF AllocationInv
<1>3. MapThenSumSet(LAMBDA p : Plan[p], DOMAIN Plan) = Allocated
  <2>1. DOMAIN Plan = Chosen
    BY DEF Plan
  <2>2. MapThenSumSet(LAMBDA p : Plan[p], DOMAIN Plan) = SumFunction(Plan)
    BY SumsAreOne
  <2> QED
    BY <2>2 DEF Plan, Allocated
<1>4. ASSUME NEW p \in DOMAIN Plan
      PROVE  /\ Plan[p] > 0 /\ p \in Registered
             /\ p \notin t.policy.blockedProviderIds /\ p \in t.policy.allowedProviderIds
             /\ \A cap \in t.policy.providerCaps[p] : Plan[p] <= cap
  <2>1. p \in Chosen /\ Plan[p] = alloc[p]
    BY DEF Plan
  <2>2. Plan[p] > 0 /\ Plan[p] <= caps[p]
    BY <1>1, <1>2, <2>1
  <2>3. t.policy.providerCaps[p] = {} \/ t.policy.providerCaps[p] = {caps[p]}
    BY <2>1 DEF SplitFor
  <2> QED
    BY <2>1, <2>2, <2>3 DEF SplitFor
<1>5. AcceptsReservations(t, Plan) <=> Allocated <= budget
  <2>1. t.total = budget
    BY DEF SplitFor
  <2> QED
    BY <1>3, <1>4, <2>1 DEF AcceptsReservations
<1> QED
  BY <1>1, <1>2, <1>5

\* WHAT THE ORCHESTRATOR MAKES OF A PLAN: the constructor that executeTask calls (service.ts:275) accepts
\* the reservations of a task exactly if they make up the budget, so always with two providers or fewer;
\* the task whose plan is over the budget can never be executed.
THEOREM PlansAreAcceptedUnlessOver ==
  AllocationSpec => [](place = "done" => \A t \in TaskType : SplitFor(t) =>
                         /\ AcceptsReservations(t, Plan) <=> Allocated = budget
                         /\ Count <= 2 => AcceptsReservations(t, Plan))
<1>1. AllocationInv => (place = "done" => \A t \in TaskType : SplitFor(t) =>
                         /\ AcceptsReservations(t, Plan) <=> Allocated = budget
                         /\ Count <= 2 => AcceptsReservations(t, Plan))
  BY PlanIsAccepted
<1> QED
  BY <1>1, AllocationInvariant, PTL
=============================================================================
