---------------------------- MODULE ClaimPromise ----------------------------
(***************************************************************************)
(* What a call of the settlement gateway promises the handlers above it    *)
(* (live/finalize and the action routes, modelled by LiveChannel): the     *)
(* payment reaches the chain at most once, a call that answers has reached *)
(* it, and a call that throws may have reached it, or may still do so.     *)
(***************************************************************************)
EXTENDS Integers

CONSTANT Caller

VARIABLES
  landed,    \* how often the payment of a caller reached the chain
  outcome    \* what its call came to

Init ==
  /\ landed = [c \in Caller |-> 0]
  /\ outcome = [c \in Caller |-> "running"]

(* A payment lands now or never did; a call ends once.  An initialization   *)
(* that fails ends several calls in one step.                               *)
Next ==
  /\ landed' \in [Caller -> 0..1]
  /\ outcome' \in [Caller -> {"running", "answered", "thrown"}]
  /\ \A c \in Caller :
       /\ landed[c] <= landed'[c]
       /\ outcome[c] # "running" => outcome'[c] = outcome[c]
       /\ outcome'[c] = "answered" => landed'[c] = 1

Spec == Init /\ [][Next]_<<landed, outcome>>
=============================================================================
