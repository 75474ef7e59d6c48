------------------------- MODULE ChannelFinalization -------------------------
(***************************************************************************)
(* The settlement coordinator of @canalis/solana (src/finalization.ts):    *)
(* finalizeTaskChannels inspects, seals and distributes the channels of a  *)
(* task one after the other and sums the outcome up.  Each finalizer is    *)
(* one call of it; a retry is a later call, and two calls may overlap.     *)
(* The PaymentChannelAdapter and the program behind it are external: a     *)
(* call either lands or throws, and may land although it throws.           *)
(***************************************************************************)
EXTENDS Integers, Sequences, Functions

CONSTANTS
  Channel,       \* the provider channels of the task (one per provider)
  Finalizer,     \* callers of finalizeTaskChannels, one call each at a time
  Ceiling,       \* depositCeilingAtomic of every channel
  Budget,        \* taskBudgetAtomic
  Request,       \* the inputs callers send
  InitialState,  \* the lifecycle states a channel may start in
  Deposit,       \* the on-chain deposits a channel may start with
  Settled,       \* the settled watermarks a channel may start with
  LostReply,     \* the adapter calls that may land although they throw
  Misreports,    \* whether distribute may report wrong amounts
  Disturbed,     \* the channels where vouchers settle and the payer closes meanwhile
  MaxFaults      \* bound on adapter calls that throw or misreport

LifecycleState == {"opening", "open", "closing", "sealed", "distributed", "reclaimed"}
TerminalState == {"distributed", "reclaimed"}

(* One entry of FinalizeTaskChannelsInput.channels.                        *)
Entry == [channel : Channel, authorized : Nat, voucher : BOOLEAN]

ASSUME ChannelFinalizationAssumption ==
  /\ Ceiling \in Nat /\ Budget \in Nat /\ MaxFaults \in Nat
  /\ Request \subseteq Seq(Entry)
  /\ InitialState \subseteq LifecycleState
  /\ Deposit \subseteq Nat /\ Settled \subseteq Nat
  /\ LostReply \subseteq {"seal", "distribute"}
  /\ Misreports \in BOOLEAN /\ Disturbed \subseteq Channel

VARIABLES
  chain,     \* the escrows on Solana
  call,      \* the call each finalizer is executing
  summary,   \* what each finalizer's last call returned, once it has
  faults     \* adapter calls that threw or misreported so far

vars == <<chain, call, summary, faults>>

-----------------------------------------------------------------------------
Escrow == [state : LifecycleState, deposit : Nat, settled : Nat, paid : Nat, refunded : Nat]

Phase == {"inspect", "settle-and-seal", "distribute", "reconcile"}
RecoveryAction == {"inspect-channel", "retry-settle-and-seal", "retry-distribute",
                   "wait-for-forced-close"}

(* ChannelFinalizationRecord.  A finalized record has neither a failed      *)
(* phase nor a recovery action.                                             *)
Record == [entry : Entry, finalized : BOOLEAN, provider : Nat, refund : Nat,
           phase : Phase \cup {"none"}, action : RecoveryAction \cup {"none"}]

\* Mutant of RecoveryRecord: the expected refund is recorded as received.
RecoveryRecordRefunded(e, phase, action) ==
  [entry |-> e, finalized |-> FALSE, provider |-> 0, refund |-> Ceiling - e.authorized,
   phase |-> phase, action |-> action]

RecoveryRecord(e, phase, action) ==
  [entry |-> e, finalized |-> FALSE, provider |-> 0, refund |-> 0,
   phase |-> phase, action |-> action]

(* A call in progress: where it awaits, its input, the descriptor getChannel *)
(* returned for the current channel, and the records written so far.         *)
PC == {"idle", "inspect", "seal", "distribute"}
Descriptor == [state : LifecycleState, settled : Nat]
NoDescriptor == [state |-> "opening", settled |-> 0]
Idle == [pc |-> "idle", input |-> <<>>, seen |-> NoDescriptor, records |-> <<>>]
Call == [pc : PC, input : Seq(Entry), seen : Descriptor, records : Seq(Record)]

(* A channel finalization may find: nothing settles before it is open, and  *)
(* a terminal one has paid its watermark out.                               *)
Found(state, deposit, settled) ==
  LET done == state \in TerminalState
  IN  [state |-> state, deposit |-> deposit,
       settled |-> IF state = "opening" THEN 0 ELSE settled,
       paid |-> IF done THEN settled ELSE 0,
       refunded |-> IF done THEN deposit - settled ELSE 0]

Init ==
  /\ chain \in [Channel -> {Found(s, d, w) : s \in InitialState, d \in Deposit,
                                             w \in {x \in Settled : \A y \in Deposit : x <= y}}]
  /\ call = [f \in Finalizer |-> Idle]
  /\ summary = [f \in Finalizer |-> <<>>]
  /\ faults = 0

-----------------------------------------------------------------------------
(* The checks made before any channel is touched.                          *)
AssertInput(e) == e.authorized <= Ceiling

Reserved(input) == Ceiling * Len(input)

AcceptsRequest(input) ==
  /\ \A i \in DOMAIN input : AssertInput(input[i])
  /\ \A i, j \in DOMAIN input : input[i].channel = input[j].channel => i = j
  /\ Reserved(input) <= Budget

Entered(f) == call[f].input[Len(call[f].records) + 1]
EscrowOf(f) == chain[Entered(f).channel]

(* The current channel is done: go on to the next one, or return.          *)
Push(f, record) ==
  LET records == Append(call[f].records, record)
  IN  IF Len(records) = Len(call[f].input)
      THEN /\ call' = [call EXCEPT ![f] = Idle]
           /\ summary' = [summary EXCEPT ![f] = records]
      ELSE /\ call' = [call EXCEPT ![f] = [@ EXCEPT !.pc = "inspect",
                                             !.seen = NoDescriptor, !.records = records]]
           /\ UNCHANGED summary

Recover(f, phase, action) == Push(f, RecoveryRecord(Entered(f), phase, action))

Fault == faults < MaxFaults /\ faults' = faults + 1

(* finalizeTaskChannels is called; a rejected input throws and changes      *)
(* nothing.                                                                 *)
Begin(f) ==
  /\ call[f].pc = "idle"
  /\ \E input \in Request :
       /\ input /= <<>> /\ AcceptsRequest(input)
       /\ call' = [call EXCEPT ![f] = [Idle EXCEPT !.pc = "inspect", !.input = input]]
  /\ summary' = [summary EXCEPT ![f] = <<>>]
  /\ UNCHANGED <<chain, faults>>

-----------------------------------------------------------------------------
(* await adapter.getChannel.  A missing account gives the same record as a  *)
(* terminal one.                                                            *)
InspectThrows(f) ==
  /\ call[f].pc = "inspect"
  /\ Fault
  /\ Recover(f, "inspect", "inspect-channel")
  /\ UNCHANGED chain

MatchesInput(x, e) == x.deposit = Ceiling /\ x.settled <= e.authorized

Inspect(f) ==
  /\ call[f].pc = "inspect"
  /\ LET x == EscrowOf(f) IN
     \/ /\ ~MatchesInput(x, Entered(f)) \/ x.state \in TerminalState
        /\ Recover(f, "inspect", "inspect-channel")
     \/ /\ MatchesInput(x, Entered(f)) /\ x.state = "closing"
        /\ Recover(f, "settle-and-seal", "wait-for-forced-close")
     \/ /\ MatchesInput(x, Entered(f)) /\ x.state \notin TerminalState \cup {"closing"}
        /\ call' = [call EXCEPT ![f] = [@ EXCEPT !.pc = "seal",
                     !.seen = [state |-> x.state, settled |-> x.settled]]]
        /\ UNCHANGED summary
  /\ UNCHANGED <<chain, faults>>

\* Mutant of AlreadySealed: a sealed channel is sealed again.
NeverSealed(f) == FALSE

(* sealAtAuthorizedWatermark decides on the descriptor read by Inspect,    *)
(* which may be stale by now.                                              *)
AlreadySealed(f) == call[f].seen.state = "sealed"
NoNewVoucher(f) == call[f].seen.settled = Entered(f).authorized
CannotSeal(f) ==
  \/ call[f].seen.state = "opening"
  \/ call[f].seen.state = "open" /\ ~NoNewVoucher(f) /\ ~Entered(f).voucher
Seals(f) == ~AlreadySealed(f) /\ ~CannotSeal(f)

GoDistribute(f) ==
  /\ call' = [call EXCEPT ![f].pc = "distribute"]
  /\ UNCHANGED summary

RetrySeal(f) == Recover(f, "settle-and-seal", "retry-settle-and-seal")

(* The branches of sealAtAuthorizedWatermark that call nothing.            *)
SkipSeal(f) ==
  /\ call[f].pc = "seal"
  /\ \/ AlreadySealed(f) /\ NoNewVoucher(f) /\ GoDistribute(f)
     \/ AlreadySealed(f) /\ ~NoNewVoucher(f)
        /\ Recover(f, "settle-and-seal", "inspect-channel")
     \/ CannotSeal(f) /\ RetrySeal(f)
  /\ UNCHANGED <<chain, faults>>

(* The watermark a seal that lands leaves on chain: sealCurrent keeps the   *)
(* present one, settleAndSeal applies the voucher.                          *)
SealedAt(f) == IF NoNewVoucher(f) THEN EscrowOf(f).settled ELSE Entered(f).authorized

SealAccepted(f) ==
  /\ EscrowOf(f).state = "open"
  /\ EscrowOf(f).settled <= SealedAt(f) /\ SealedAt(f) <= EscrowOf(f).deposit

SealLands(f) ==
  /\ SealAccepted(f)
  /\ chain' = [chain EXCEPT ![Entered(f).channel] =
                 [@ EXCEPT !.state = "sealed", !.settled = SealedAt(f)]]

\* Mutant of VerifySettlement: any answer will do.
AnySettlement(settled, e) == TRUE

VerifySettlement(settled, e) == settled = e.authorized

Seal(f) ==
  /\ call[f].pc = "seal" /\ Seals(f)
  /\ SealLands(f)
  /\ \/ VerifySettlement(SealedAt(f), Entered(f)) /\ GoDistribute(f)
     \/ ~VerifySettlement(SealedAt(f), Entered(f)) /\ RetrySeal(f)
  /\ UNCHANGED faults

SealThrows(f) ==
  /\ call[f].pc = "seal" /\ Seals(f)
  /\ \/ ~SealAccepted(f) /\ UNCHANGED <<chain, faults>>
     \/ Fault /\ UNCHANGED chain
     \/ "seal" \in LostReply /\ Fault /\ SealLands(f)
  /\ RetrySeal(f)

-----------------------------------------------------------------------------
(* await adapter.distribute: pays the watermark out and refunds the rest.  *)
DistributionLands(f) ==
  /\ EscrowOf(f).state = "sealed"
  /\ LET x == EscrowOf(f) IN
     chain' = [chain EXCEPT ![Entered(f).channel] =
                 [x EXCEPT !.state = "distributed", !.paid = x.settled,
                           !.refunded = x.deposit - x.settled]]

VerifyDistribution(provider, refund, e) ==
  /\ provider = e.authorized
  /\ refund = Ceiling - e.authorized
  /\ provider + refund = Ceiling

(* The distribution is reported with the amounts provider and refund.      *)
Reported(f, provider, refund) ==
  LET e == Entered(f)
      ok == VerifyDistribution(provider, refund, e)
  IN  Push(f, [entry |-> e, finalized |-> ok, provider |-> provider, refund |-> refund,
               phase |-> IF ok THEN "none" ELSE "reconcile",
               action |-> IF ok THEN "none" ELSE "inspect-channel"])

Distribute(f) ==
  /\ call[f].pc = "distribute"
  /\ DistributionLands(f)
  /\ \/ /\ Reported(f, EscrowOf(f).settled, EscrowOf(f).deposit - EscrowOf(f).settled)
        /\ UNCHANGED faults
     \/ /\ Misreports /\ Fault
        /\ \E provider, refund \in 0..Ceiling : Reported(f, provider, refund)

DistributeThrows(f) ==
  /\ call[f].pc = "distribute"
  /\ \/ EscrowOf(f).state # "sealed" /\ UNCHANGED <<chain, faults>>
     \/ Fault /\ UNCHANGED chain
     \/ "distribute" \in LostReply /\ Fault /\ DistributionLands(f)
  /\ Recover(f, "distribute", "retry-distribute")

-----------------------------------------------------------------------------
(* What happens to a channel behind the coordinator's back: its opening is  *)
(* confirmed, a voucher is settled, the payer forces a close whose grace    *)
(* period then ends, a distributed account is reclaimed.                    *)
Move(c, from, to) ==
  /\ chain[c].state = from
  /\ chain' = [chain EXCEPT ![c].state = to]

SettleVoucher(c) ==
  /\ chain[c].state = "open"
  /\ \E settled \in chain[c].settled + 1 .. chain[c].deposit :
       chain' = [chain EXCEPT ![c].settled = settled]

Environment ==
  /\ \E c \in Channel :
       \/ Move(c, "opening", "open")
       \/ c \in Disturbed /\ SettleVoucher(c)
       \/ c \in Disturbed /\ Move(c, "open", "closing")
       \/ Move(c, "closing", "sealed")
       \/ Move(c, "distributed", "reclaimed")
  /\ UNCHANGED <<call, summary, faults>>

Step(f) ==
  \/ Begin(f)
  \/ InspectThrows(f) \/ Inspect(f)
  \/ SkipSeal(f) \/ Seal(f) \/ SealThrows(f)
  \/ Distribute(f) \/ DistributeThrows(f)

Next == Environment \/ \E f \in Finalizer : Step(f)

Spec == Init /\ [][Next]_vars

(* Callers keep retrying, and channels that are opening open in the end.   *)
FairSpec ==
  /\ Spec
  /\ \A f \in Finalizer : WF_vars(Step(f))
  /\ WF_vars(\E c \in Channel : Move(c, "opening", "open") /\ UNCHANGED <<call, summary, faults>>)

-----------------------------------------------------------------------------
(* The amounts of a TaskFinalizationSummary: sums over its records.        *)
Total(amounts) ==
  LET upTo[i \in 0..Len(amounts)] == IF i = 0 THEN 0 ELSE upTo[i - 1] + amounts[i]
  IN  upTo[Len(amounts)]

ProviderPaid(records) == Total([i \in DOMAIN records |-> records[i].provider])
ChannelRefund(records) == Total([i \in DOMAIN records |-> records[i].refund])
AuthorizedSpend(records) == Total([i \in DOMAIN records |-> records[i].entry.authorized])
UnresolvedEscrow(records) ==
  Total([i \in DOMAIN records |-> IF records[i].finalized THEN 0 ELSE Ceiling])
TotalRecovered(records) == ChannelRefund(records) + (Budget - Reserved(records))
Reconciled(records) == ProviderPaid(records) + TotalRecovered(records)

IsFullyFinalized(records) == \A r \in Range(records) : r.finalized

IsReconciled(records) ==
  /\ IsFullyFinalized(records)
  /\ ProviderPaid(records) = AuthorizedSpend(records)
  /\ Reconciled(records) = Budget

-----------------------------------------------------------------------------
(* Every variable has its type, and a call in progress has a channel left.  *)
TypeOK ==
  /\ chain \in [Channel -> Escrow]
  /\ call \in [Finalizer -> Call]
  /\ summary \in [Finalizer -> Seq(Record)]
  /\ faults \in 0..MaxFaults
  /\ \A f \in Finalizer : call[f].pc # "idle" => Len(call[f].records) < Len(call[f].input)

(* A call about to distribute (finalization.ts:285) has the channel sealed  *)
(* for good at exactly the spend it was told was authorized, over exactly   *)
(* the deposit Canalis reserved, whatever vouchers, closes and other calls  *)
(* came between the inspection and the seal.                                *)
DistributesAuthorized ==
  \A f \in Finalizer :
    call[f].pc = "distribute" =>
      /\ EscrowOf(f).state \in {"sealed"} \cup TerminalState
      /\ EscrowOf(f).settled = Entered(f).authorized
      /\ EscrowOf(f).deposit = Ceiling

(* A record marked finalized (finalization.ts:318-338), also of a call that *)
(* is still running and also while another call works on the same channel,  *)
(* carries the amounts the chain really paid out and refunded.              *)
FinalizedIsPaid ==
  \A f \in Finalizer : \A r \in Range(call[f].records) \cup Range(summary[f]) :
    r.finalized =>
      LET x == chain[r.entry.channel]
      IN  /\ x.state \in TerminalState
          /\ r.provider = x.paid /\ x.paid = r.entry.authorized
          /\ r.refund = x.refunded /\ x.refunded = Ceiling - r.entry.authorized

(* A summary says where every atomic unit of the budget is: paid, recovered *)
(* or in an escrow that still needs an operator (finalization.ts:376-389),  *)
(* unless a distribution was reported with the wrong amounts, whose channel *)
(* is counted both ways.  It says reconciled (395-398) only when the chain  *)
(* has paid the authorized spend and returned the rest of the escrows.      *)
EveryAtomicAccounted ==
  \A f \in Finalizer : summary[f] # <<>> =>
    LET records == summary[f]
        Paid == Total([i \in DOMAIN records |-> chain[records[i].entry.channel].paid])
        Refunded == Total([i \in DOMAIN records |-> chain[records[i].entry.channel].refunded])
    IN  /\ (\A r \in Range(records) : r.phase # "reconcile")
           => Reconciled(records) + UnresolvedEscrow(records) = Budget
        /\ IsReconciled(records)
           => /\ Paid = AuthorizedSpend(records)
              /\ Paid + Refunded = Reserved(records)

(* What callers are told is true of the chain, record by record and in sum. *)
SummariesAreTrue == FinalizedIsPaid /\ EveryAtomicAccounted

(* With callers that retry, a channel sealed at what the task owes it, over  *)
(* the reserved deposit, is distributed in the end, whichever call sealed   *)
(* it, whether its answer was lost, and whatever was tried before: a retry  *)
(* finds it sealed and only distributes (finalization.ts:159-168).          *)
Owed(c) == {e.authorized : e \in {x \in UNION {Range(q) : q \in Request} : x.channel = c}}

SealedIsDistributed ==
  \A c \in Channel :
    /\ chain[c].state = "sealed"
    /\ chain[c].deposit = Ceiling
    /\ chain[c].settled \in Owed(c)
    ~> chain[c].state \in TerminalState
=============================================================================
