\* Two callers share the initialization.  Liveness: no symmetry.
SPECIFICATION FairGateway
CONSTANTS
  k1 = k1
  k2 = k2
  Caller = {k1, k2}
  MaxRetries = 3
  MaxPolls = 5
  MaxInits = 1
CHECK_DEADLOCK FALSE
INVARIANTS
  NeverRebroadcasts
PROPERTIES
  ImplementsClaimPromise
  CallsEnd
