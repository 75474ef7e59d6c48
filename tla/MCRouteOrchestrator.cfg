\* Three concurrent calls on two reserved providers, and the splits of up to ten
\* units over up to three providers.
CONSTANTS
  TaskId = {"task"}
  Provider = {"search", "data", "rogue"}
  Mint = {"usdc", "wsol"}
  Protocol = {"x402", "mpp"}
  Network = {"devnet"}
  NoNetwork = "undeclared"
  Registered = {"search", "data"}
  Call = {c1, c2, c3}
  Tasks <- MCTasks
  Quotes <- MCQuotes
  MaxTime = 1
  MaxSettlements = 1
  ProviderId = {"search", "data", "rogue"}
  MaxBudget = 10
SPECIFICATION TaskSpec
SYMMETRY Symmetry
INVARIANTS
  TypeOK
  WithinMandate
  LedgerIsSumOfFlows
  WatermarksTile
  PaidWorkIsAuthorized
  SettlementsCoverStampedFlows
PROPERTIES
  ImplementsTaskBudget
  EndsInPlan
CHECK_DEADLOCK FALSE
