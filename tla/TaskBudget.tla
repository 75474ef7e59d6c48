----------------------------- MODULE TaskBudget -----------------------------
(***************************************************************************)
(* What the route orchestrator promises a task's owner, without calls,     *)
(* quotes, policies or time: spend is authorized one provider at a time,   *)
(* by a positive amount, within that provider's channel ceiling and within *)
(* the total the owner approved, and an authorization is never taken back. *)
(* (src/docs/ARCHITECTURE.md:163.)                                         *)
(***************************************************************************)
EXTENDS Integers

VARIABLES
  total,       \* the budget the owner approved
  ceiling,     \* channel ceiling of each reserved provider
  authorized,  \* cumulative amount authorized to each reserved provider
  spent        \* amount authorized to all providers together

budgetVars == <<total, ceiling, authorized, spent>>

Init ==
  /\ authorized = [p \in DOMAIN ceiling |-> 0]
  /\ spent = 0

Authorize(p, amount) ==
  /\ amount > 0
  /\ authorized[p] + amount <= ceiling[p]
  /\ spent + amount <= total
  /\ authorized' = [authorized EXCEPT ![p] = @ + amount]
  /\ spent' = spent + amount
  /\ UNCHANGED <<total, ceiling>>

Next == \E p \in DOMAIN ceiling, amount \in 1..total : Authorize(p, amount)

Spec == Init /\ [][Next]_budgetVars
=============================================================================
