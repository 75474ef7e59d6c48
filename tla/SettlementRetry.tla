--------------------------- MODULE SettlementRetry ---------------------------
(***************************************************************************)
(* DevnetX402ChannelGateway (packages/solana/src/live-x402.ts): how a      *)
(* deposit or a claim is settled through the facilitator while a public    *)
(* RPC may answer 429 to anything, and how the gateway initializes itself  *)
(* once for all of its callers.  External: the facilitator and the chain.  *)
(* The facilitator broadcasts at most one transaction per settle; an       *)
(* answer that carries no signature means that it broadcast none.          *)
(***************************************************************************)
EXTENDS Integers, Sequences, FiniteSets

CONSTANTS
  Caller,        \* calls of deposit or claim, each for a payment of its own
  MaxRetries,    \* how often settleWithSafeRetry settles again
  MaxPolls,      \* how often recoverRateLimitedBroadcast asks for a status
  MaxInits       \* bound on failing initializations

ASSUME SettlementRetryAssumption ==
  MaxRetries \in Nat /\ MaxPolls \in Nat \ {0} /\ MaxInits \in Nat

VARIABLES
  ready,      \* the gateway's memoized initialization
  inits,      \* initializations that failed so far
  pc,         \* where each caller awaits
  retry,      \* settles repeated so far
  poll,       \* status requests made for the current result
  result,     \* the SettleResponse the caller holds
  sent        \* the transactions broadcast for the caller, in order

gateway == <<ready, inits, pc, retry, poll, result, sent>>

Ready == {"undefined", "pending", "resolved"}
CallPlace == {"start", "initialize", "settle", "poll", "answered", "thrown"}

(* A transaction as the chain has it.  "dropped" will never land.          *)
TxStatus == {"pending", "landed", "failed", "dropped"}

(* SettleResponse: success, whether it has a transaction signature, and     *)
(* whether its error message mentions 429.                                  *)
Result == [success : BOOLEAN, signature : BOOLEAN, limited : BOOLEAN]
NoResult == [success |-> FALSE, signature |-> FALSE, limited |-> FALSE]
Confirmed == [success |-> TRUE, signature |-> TRUE, limited |-> FALSE]

GatewayInit ==
  /\ ready = "undefined" /\ inits = 0
  /\ pc = [c \in Caller |-> "start"]
  /\ retry = [c \in Caller |-> 0] /\ poll = [c \in Caller |-> 0]
  /\ result = [c \in Caller |-> NoResult]
  /\ sent = [c \in Caller |-> <<>>]

Goto(c, place) == pc' = [pc EXCEPT ![c] = place]

-----------------------------------------------------------------------------
(* initialize: the first caller starts it, later ones await the same        *)
(* promise, and a failure is forgotten so that the next call starts over.   *)
CallInitialize(c) ==
  /\ pc[c] = "start"
  /\ ready' = IF ready = "undefined" THEN "pending" ELSE ready
  /\ Goto(c, "initialize")
  /\ UNCHANGED <<inits, retry, poll, result, sent>>

InitializeResolves ==
  /\ ready = "pending" /\ ready' = "resolved"
  /\ UNCHANGED <<inits, pc, retry, poll, result, sent>>

\* Mutant of InitializeRejects: only later calls notice.
InitializeRejectsSilently ==
  /\ ready = "pending" /\ inits < MaxInits
  /\ ready' = "undefined" /\ inits' = inits + 1
  /\ UNCHANGED <<pc, retry, poll, result, sent>>

InitializeRejects ==
  /\ ready = "pending" /\ inits < MaxInits
  /\ ready' = "undefined" /\ inits' = inits + 1
  /\ pc' = [c \in Caller |-> IF pc[c] = "initialize" THEN "thrown" ELSE pc[c]]
  /\ UNCHANGED <<retry, poll, result, sent>>

(* The payload is validated after initialize; one that fails throws.       *)
Validated(c) ==
  /\ pc[c] = "initialize" /\ ready = "resolved"
  /\ Goto(c, "settle") \/ Goto(c, "thrown")
  /\ UNCHANGED <<ready, inits, retry, poll, result, sent>>

-----------------------------------------------------------------------------
\* Mutant of IsTransientRpcRateLimit: the signature is not looked at.
TransientWheneverLimited(r) == ~r.success /\ r.limited

(* Nothing was broadcast and the RPC limited the rate: settle again.       *)
IsTransientRpcRateLimit(r) == ~r.success /\ ~r.signature /\ r.limited

(* A transaction was broadcast and only its confirmation was limited.      *)
NeedsPolling(r) == ~r.success /\ r.signature /\ r.limited

\* Mutant of Recovered: a signature is taken for a confirmation.
RecoveredBySignature(c, r) ==
  /\ result' = [result EXCEPT ![c] = r]
  /\ poll' = [poll EXCEPT ![c] = 0]
  /\ \/ /\ IsTransientRpcRateLimit(r) /\ retry[c] < MaxRetries
        /\ retry' = [retry EXCEPT ![c] = @ + 1]
        /\ Goto(c, "settle")
     \/ /\ ~(IsTransientRpcRateLimit(r) /\ retry[c] < MaxRetries)
        /\ Goto(c, IF r.signature THEN "answered" ELSE "thrown")
        /\ UNCHANGED retry

(* settleWithSafeRetry once recoverRateLimitedBroadcast returned r: settle  *)
(* again, or let settlementTransaction judge the result.                    *)
Recovered(c, r) ==
  /\ result' = [result EXCEPT ![c] = r]
  /\ poll' = [poll EXCEPT ![c] = 0]
  /\ \/ /\ IsTransientRpcRateLimit(r) /\ retry[c] < MaxRetries
        /\ retry' = [retry EXCEPT ![c] = @ + 1]
        /\ Goto(c, "settle")
     \/ /\ ~(IsTransientRpcRateLimit(r) /\ retry[c] < MaxRetries)
        /\ Goto(c, IF r.success /\ r.signature THEN "answered" ELSE "thrown")
        /\ UNCHANGED retry

SettleReturned(c, r) ==
  \/ /\ NeedsPolling(r)
     /\ result' = [result EXCEPT ![c] = r] /\ poll' = [poll EXCEPT ![c] = 0]
     /\ Goto(c, "poll")
     /\ UNCHANGED retry
  \/ ~NeedsPolling(r) /\ Recovered(c, r)

Broadcast(c, status) == sent' = [sent EXCEPT ![c] = Append(@, status)]

(* facilitator.settle: confirmed, refused before a broadcast, broadcast     *)
(* without a confirmation, or thrown with or without a broadcast.           *)
Settle(c) ==
  /\ pc[c] = "settle"
  /\ \/ Broadcast(c, "landed") /\ SettleReturned(c, Confirmed)
     \/ \E limited \in BOOLEAN :
          UNCHANGED sent /\ SettleReturned(c, [NoResult EXCEPT !.limited = limited])
     \/ \E limited \in BOOLEAN, status \in {"pending", "failed"} :
          /\ Broadcast(c, status)
          /\ SettleReturned(c, [success |-> FALSE, signature |-> TRUE, limited |-> limited])
     \/ /\ UNCHANGED sent \/ Broadcast(c, "pending")
        /\ Goto(c, "thrown") /\ UNCHANGED <<retry, poll, result>>
  /\ UNCHANGED <<ready, inits>>

-----------------------------------------------------------------------------
LastStatus(c) == sent[c][Len(sent[c])]

(* One round of the loop in recoverRateLimitedBroadcast.  A transaction     *)
(* that failed on chain, and any error but another 429, throws.             *)
PollAgain(c) ==
  \/ /\ poll[c] + 1 < MaxPolls
     /\ poll' = [poll EXCEPT ![c] = @ + 1]
     /\ UNCHANGED <<pc, retry, result>>
  \/ poll[c] + 1 = MaxPolls /\ Recovered(c, result[c])

Poll(c) ==
  /\ pc[c] = "poll"
  /\ \/ LastStatus(c) = "landed" /\ Recovered(c, Confirmed)
     \/ LastStatus(c) = "failed" /\ Goto(c, "thrown") /\ UNCHANGED <<retry, poll, result>>
     \/ LastStatus(c) \in {"pending", "dropped"} /\ PollAgain(c)
  /\ UNCHANGED <<ready, inits, sent>>

PollLimited(c) ==
  /\ pc[c] = "poll" /\ PollAgain(c)
  /\ UNCHANGED <<ready, inits, sent>>

PollThrows(c) ==
  /\ pc[c] = "poll" /\ Goto(c, "thrown")
  /\ UNCHANGED <<ready, inits, retry, poll, result, sent>>

(* The chain decides on a transaction, also long after the call has ended. *)
Decide(c) ==
  /\ \E i \in DOMAIN sent[c], status \in {"landed", "failed", "dropped"} :
       sent[c][i] = "pending" /\ sent' = [sent EXCEPT ![c][i] = status]
  /\ UNCHANGED <<ready, inits, pc, retry, poll, result>>

Run(c) ==
  \/ CallInitialize(c) \/ Validated(c)
  \/ Settle(c) \/ Poll(c) \/ PollLimited(c) \/ PollThrows(c)

GatewayNext ==
  \/ InitializeResolves \/ InitializeRejects
  \/ \E c \in Caller : Run(c) \/ Decide(c)

GatewaySpec == GatewayInit /\ [][GatewayNext]_gateway

(* A caller's awaits settle, and so does the initialization.               *)
FairGateway ==
  /\ GatewaySpec
  /\ \A c \in Caller : WF_gateway(Run(c))
  /\ WF_gateway(InitializeResolves)

-----------------------------------------------------------------------------
(* Every variable has its type, and the loops keep their bounds.           *)
GatewayTypeOK ==
  /\ ready \in Ready /\ inits \in 0..MaxInits
  /\ pc \in [Caller -> CallPlace]
  /\ retry \in [Caller -> 0..MaxRetries] /\ poll \in [Caller -> 0..MaxPolls - 1]
  /\ result \in [Caller -> Result]
  /\ sent \in [Caller -> Seq(TxStatus)]

(* No retry runs into an earlier broadcast (live-x402.ts:108-114): at most  *)
(* one transaction is ever broadcast for a payment, however the RPC mixes   *)
(* 429s into settling and confirming.                                       *)
NeverRebroadcasts == \A c \in Caller : Len(sent[c]) <= 1

(* The calls implement ClaimPromise: one payment at most lands, an answer   *)
(* is only given for one that did, and throwing leaves it open.             *)
Landed(c) == Cardinality({i \in DOMAIN sent[c] : sent[c][i] = "landed"})

Promise == INSTANCE ClaimPromise WITH
  landed <- [c \in Caller |-> Landed(c)],
  outcome <- [c \in Caller |->
                IF pc[c] \in {"answered", "thrown"} THEN pc[c] ELSE "running"]

ImplementsClaimPromise == Promise!Spec

(* Every call answers or throws, even if the RPC limits every request and   *)
(* the transaction it polls for is never decided (live-x402.ts:135-168,     *)
(* 287-296).                                                                *)
CallsEnd == \A c \in Caller : pc[c] # "start" ~> pc[c] \in {"answered", "thrown"}
=============================================================================
