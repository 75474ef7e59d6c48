\* Two finalizers race on two channels, the first of them disturbed meanwhile.
SPECIFICATION FairSpec
CONSTANTS
  c1 = c1
  c2 = c2
  Channel = {c1, c2}
  Finalizer = {f1, f2}
  Ceiling = 2
  Budget = 5
  Request <- WholeTask
  InitialState <- SomeStates
  Deposit = {2, 3}
  Settled = {1}
  LostReply = {"seal", "distribute"}
  Misreports = TRUE
  Disturbed = {c1}
  MaxFaults = 1
INVARIANTS
  DistributesAuthorized
  SummariesAreTrue
PROPERTIES
  SealedIsDistributed
