\* Liveness; no symmetry.  Nothing throws and nobody dies.
CONSTANTS
  Provider = {p1}
  Worker = {w1, w2}
  Ceiling = 1
  Op = {"prepare", "deposit", "action", "finalize"}
  Faulty = FALSE
  MaxClaims = 2
SPECIFICATION FairSpec
PROPERTIES
  LeasesResolve
