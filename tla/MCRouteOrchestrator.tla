------------------------ MODULE MCRouteOrchestrator ------------------------
(***************************************************************************)
(* Small instances of RouteOrchestrator and of Reservations, the split of  *)
(* a budget that gives an orchestrator its ceilings.                       *)
(***************************************************************************)
EXTENDS RouteOrchestrator, Reservations, TLC

Symmetry == Permutations(Call)

MCPolicy(allowed, blocked, networks, perCall, cap) ==
  [allowedProviderIds |-> allowed, blockedProviderIds |-> blocked,
   allowedMints |-> {"usdc"}, allowedProtocols |-> {"x402"},
   allowedNetworks |-> networks, maxPerCall |-> perCall,
   providerCaps |-> [p \in Provider |-> IF p = "search" THEN cap ELSE {}]]

MCTask(status, expires, policy) ==
  [id |-> "task", status |-> status, expiresAt |-> expires, total |-> 3,
   mint |-> "usdc", policy |-> policy]

\* An unrestricted task without expiry; one that expires, caps calls and a
\* provider, and allows one that is not registered; one bound to a network with
\* a blocked provider; and one that is over.
MCTasks ==
  { MCTask("active", 0, MCPolicy({"search", "data"}, {}, {}, {}, {})),
    MCTask("active", 1, MCPolicy({"search", "data", "rogue"}, {}, {}, {1}, {2})),
    MCTask("active", 0, MCPolicy({"search", "data"}, {"data"}, {"devnet"}, {2}, {})),
    MCTask("completed", 0, MCPolicy({"search"}, {}, {}, {}, {})) }

MCQuote(p, own, price, mint, protocol, network) ==
  [providerId |-> p, forRequest |-> own, price |-> price, mint |-> mint,
   protocol |-> protocol, network |-> network]

\* Good quotes of one and two units, and one quote for each way in
\* which a provider's answer can be wrong.
MCQuotes ==
  { MCQuote(p, TRUE, n, "usdc", "x402", "devnet") : p \in {"search", "data"}, n \in 1..2 }
  \cup { MCQuote("search", FALSE, 1, "usdc", "x402", "devnet"),
         MCQuote("search", TRUE, 0, "usdc", "x402", "devnet"),
         MCQuote("search", TRUE, 1, "wsol", "x402", "devnet"),
         MCQuote("search", TRUE, 1, "usdc", "mpp", "devnet"),
         MCQuote("search", TRUE, 1, "usdc", "x402", NoNetwork) }

-----------------------------------------------------------------------------
VARIABLE part  \* what a behaviour is about: the split of a budget, or an orchestrator

(* A split runs by itself.  An orchestrator runs on any reservations that its *)
(* constructor accepts, whether a split makes them or not.                    *)
TaskInit ==
  \/ /\ part = "split"
     /\ task = CHOOSE t \in Tasks : TRUE
     /\ ceiling = [p \in {} |-> 0]
     /\ Init /\ AllocationInit
  \/ /\ part = "route"
     /\ budget = 1 /\ providers = <<"search">> /\ caps = [p \in ProviderId |-> 1]
     /\ Init /\ AllocationInit

TaskNext ==
  \/ part = "split" /\ AllocationNext /\ UNCHANGED <<vars, part>>
  \/ part = "route" /\ Next /\ UNCHANGED <<allocation, part>>

TaskSpec == TaskInit /\ [][TaskNext]_<<vars, allocation, part>>
=============================================================================
