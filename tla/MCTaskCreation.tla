--------------------------- MODULE MCTaskCreation ---------------------------
(* Small instances of TaskCreation: one provider with a runtime and one     *)
(* without, two rule sets, and creation requests of each interesting shape. *)
EXTENDS TaskCreation

MCProvider == {"search", "external"}
MCBuiltin == {"search"}

MCRule(providers, networks, mints) ==
  [providers |-> providers, networks |-> networks, mints |-> mints,
   protocols |-> {"demo", "x402"}]
MCRules == {MCRule({"search"}, {}, {"USDC"}), MCRule({"external"}, {}, {})}

MCRequest(policyVersion, mode, providers, override, draft) ==
  [policy |-> policyVersion, mode |-> mode, providers |-> providers,
   override |-> override, draft |-> draft]

\* One plain request, for the run about reruns.
MCPlainInput == {MCRequest(0, "deterministic", {"search"}, {}, FALSE)}

\* A draft by the latest version with an override, and a plain request.
MCInput == {MCRequest(-1, "x402", {}, {"search"}, TRUE)} \cup MCPlainInput

\* The settings move on to mainnet, and back.
MCProfiles == {[environment |-> "devnet", mint |-> TRUE], [environment |-> "mainnet", mint |-> FALSE]}
=============================================================================
