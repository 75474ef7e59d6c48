--------------------------- MODULE ChannelPromise ---------------------------
(***************************************************************************)
(* What Canalis promises of a live payment channel (docs/                  *)
(* CHANNELS_WORKSPACE.md): it is opened once, claimed at most once and only *)
(* under a lease, and what happened to it is never forgotten.  A channel    *)
(* in doubt stays in doubt: only an operator could take it further.        *)
(***************************************************************************)
EXTENDS Naturals

CONSTANTS Provider, Ceiling

VARIABLES phase, claims, paid

vars == <<phase, claims, paid>>

Init ==
  /\ phase = [p \in Provider |-> "reserved"]
  /\ claims = [p \in Provider |-> 0]
  /\ paid = [p \in Provider |-> {}]

Move(p, from, to) ==
  /\ phase[p] \in from
  /\ phase' = [phase EXCEPT ![p] = to]
  /\ UNCHANGED <<claims, paid>>

Open(p) == Move(p, {"reserved"}, "open")
Lease(p) == Move(p, {"open"}, "leased")
Close(p) == paid[p] # {} /\ Move(p, {"leased"}, "closed")
Doubt(p) == Move(p, {"leased", "closed"}, "doubtful")

\* The one claim of a channel is broadcast; it may pay the provider or get lost.
Claim(p) ==
  /\ phase[p] = "leased" /\ claims[p] = 0
  /\ claims' = [claims EXCEPT ![p] = 1]
  /\ \/ \E amount \in 0..Ceiling : paid' = [paid EXCEPT ![p] = {amount}]
     \/ UNCHANGED paid
  /\ UNCHANGED phase

Next == \E p \in Provider : Open(p) \/ Lease(p) \/ Claim(p) \/ Close(p) \/ Doubt(p)

Spec == Init /\ [][Next]_vars
=============================================================================
