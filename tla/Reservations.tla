---------------------------- MODULE Reservations ----------------------------
(***************************************************************************)
(* allocateReservations (packages/application/src/service.ts): how a task's *)
(* budget is split over the payment channels of its providers.  Shares are  *)
(* rounded up and clipped at provider caps, round after round.              *)
(***************************************************************************)
EXTENDS Integers, Sequences, SequencesExt, Functions, FiniteSetsExt

CONSTANTS
  ProviderId,  \* provider ids
  MaxBudget    \* bound on budgetAtomic and on the caps of a request

ASSUME ReservationsAssumption == IsFiniteSet(ProviderId) /\ MaxBudget \in Nat

VARIABLES
  budget,      \* budgetAtomic
  providers,   \* providerIds, free of duplicates, in the order requested
  caps,        \* caps: the provider's cap, or the budget if it has none
  alloc,       \* allocations
  remaining,   \* what is still to be allocated
  eligible,    \* the positions of the providers still to be served in the running round
  share,       \* what each of them gets at most in this round
  progressed,  \* whether one of them got something
  place        \* where the function is

allocation == <<budget, providers, caps, alloc, remaining, eligible, share, progressed, place>>

Place == {"check", "while", "for", "done", "rejected", "stuck"}

(* A cap, if there is one.                                                  *)
NoCap == {}
Cap == {NoCap} \cup {{n} : n \in 0..MaxBudget}

(* caps as the code completes them from providerCapsAtomic.                 *)
Completed(given, b) == [p \in ProviderId |-> CHOOSE n \in given[p] \cup {b} : given[p] # NoCap => n \in given[p]]

AllocationInit ==
  /\ budget \in 1..MaxBudget
  /\ providers \in {s \in SeqOf(ProviderId, Cardinality(ProviderId)) : s # <<>> /\ IsInjective(s)}
  /\ \E given \in [ProviderId -> Cap] :
       /\ \A p \in ProviderId : p \notin Range(providers) => given[p] = NoCap
       /\ caps = Completed(given, budget)
  /\ alloc = [p \in ProviderId |-> 0]
  /\ remaining = 0 /\ eligible = {} /\ share = 0 /\ progressed = FALSE
  /\ place = "check"

-----------------------------------------------------------------------------
Chosen == Range(providers)
Count == Len(providers)
Capacity == SumFunction([p \in Chosen |-> caps[p]])
Allocated == SumFunction([p \in Chosen |-> alloc[p]])

(* The three checks made before anything is allocated.                      *)
Acceptable ==
  /\ budget >= Count
  /\ \A p \in Chosen : caps[p] > 0
  /\ Capacity >= budget

Check ==
  /\ place = "check"
  /\ \/ /\ Acceptable
        /\ alloc' = [p \in ProviderId |-> IF p \in Chosen THEN 1 ELSE 0]
        /\ remaining' = budget - Count
        /\ place' = "while"
     \/ /\ ~Acceptable
        /\ place' = "rejected" /\ UNCHANGED <<alloc, remaining>>
  /\ UNCHANGED <<budget, providers, caps, eligible, share, progressed>>

(* The head of the while loop: done, out of providers, or a new round.      *)
HasRoom(p) == alloc[p] < caps[p]

\* Mutant of ShareOf: rounded down.
ShareRoundedDown(n) == remaining \div n

ShareOf(n) == (remaining + n - 1) \div n

Round ==
  /\ place = "while"
  /\ LET open == {i \in 1..Count : HasRoom(providers[i])} IN
     /\ place' = IF remaining <= 0 THEN "done" ELSE IF open = {} THEN "stuck" ELSE "for"
     /\ IF place' = "for"
        THEN eligible' = open /\ share' = ShareOf(Cardinality(open)) /\ progressed' = FALSE
        ELSE UNCHANGED <<eligible, share, progressed>>
  /\ UNCHANGED <<budget, providers, caps, alloc, remaining>>

(* What the next eligible provider gets, if that is positive: what it has   *)
(* room for, if that is less than a share, also when still less remains.    *)
Add(p) ==
  LET available == caps[p] - alloc[p]
  IN  IF available < share THEN available
      ELSE IF share < remaining THEN share ELSE remaining

Given(p) == IF Add(p) > 0 THEN Add(p) ELSE 0

(* The for loop breaks as soon as nothing remains; a round that gave nothing *)
(* throws.                                                                   *)
Give ==
  /\ place = "for"
  /\ \/ /\ eligible # {} /\ remaining # 0
        /\ LET p == providers[Min(eligible)] IN
           /\ alloc' = [alloc EXCEPT ![p] = @ + Given(p)]
           /\ remaining' = remaining - Given(p)
           /\ progressed' = (progressed \/ Given(p) > 0)
        /\ eligible' = eligible \ {Min(eligible)}
        /\ UNCHANGED place
     \/ /\ eligible = {} \/ remaining = 0
        /\ place' = IF progressed THEN "while" ELSE "stuck"
        /\ eligible' = {}
        /\ UNCHANGED <<alloc, remaining, progressed>>
  /\ UNCHANGED <<budget, providers, caps, share>>

AllocationNext == Check \/ Round \/ Give

AllocationSpec == AllocationInit /\ [][AllocationNext]_allocation

-----------------------------------------------------------------------------
(* Types; a provider that was not asked for never gets a reservation.       *)
AllocationTypeOK ==
  /\ budget \in 1..MaxBudget
  /\ providers \in Seq(ProviderId) /\ IsInjective(providers)
  /\ caps \in [ProviderId -> 0..MaxBudget] /\ alloc \in [ProviderId -> 0..MaxBudget]
  /\ remaining \in Int /\ remaining <= MaxBudget /\ share \in 0..MaxBudget
  /\ eligible \subseteq 1..Count /\ progressed \in BOOLEAN /\ place \in Place
  /\ \A p \in ProviderId \ Chosen : alloc[p] = 0

(* No unit of the budget is lost or made up on the way, and nobody gets     *)
(* nothing or more than its cap.                                            *)
NothingLost ==
  place \in {"while", "for", "done"} =>
    /\ Allocated + remaining = budget
    /\ \A p \in Chosen : 1 <= alloc[p] /\ alloc[p] <= caps[p]

(* A plan gives every provider a positive ceiling within its cap, and the   *)
(* whole budget to all of them together.  With three providers or more it   *)
(* may be over the budget, by up to one unit per provider but two: who has  *)
(* less room than a share is filled up, even if less remains (service.ts:82). *)
PlanCoversBudget ==
  place = "done" =>
    /\ \A p \in Chosen : alloc[p] \in 1..caps[p]
    /\ Allocated # budget => Allocated \in budget + 1 .. budget + Count - 2

(* How far the function is from its end: what remains counts more than where *)
(* it is, and a round that gave something leaves less than it found.         *)
Distance ==
  LET lap == 2 * Count + 4
      left == IF remaining > 0 THEN remaining ELSE 0
  IN  CASE place = "check" -> budget * lap + Count + 2
        [] place = "for" /\ progressed -> left * lap + Count + 2 + Cardinality(eligible)
        [] place = "while" -> left * lap + Count + 1
        [] place = "for" /\ ~progressed -> left * lap + Cardinality(eligible)
        [] OTHER -> 0

(* Every request ends, since each step is closer to the end, and an accepted *)
(* one in such a plan, which createTask stores as the channels of the task:  *)
(* the throws inside the loop (service.ts:74, 90) are dead code.             *)
EndsInPlan ==
  /\ [](Distance \in Nat /\ place # "stuck" /\ PlanCoversBudget)
  /\ [][Distance' < Distance]_allocation

(* What the orchestrator asks of the plan before anything is executed:      *)
(* "aggregate channel reservations exceed task budget" (route.ts:157).      *)
PlanWithinBudget == place = "done" => Allocated <= budget
=============================================================================
