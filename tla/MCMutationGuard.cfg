\* Statements throw, workers die, leases and locks are taken over.
CONSTANTS
  Worker = {w1, w2}
  Key = {k1, k2}
  Hash = {h1, h2}
  Creation = h2
  Resource = {r1}
  ResourceOf <- MCResourceOf
  TTL = 2
  RecordTTL = 3
  MaxRun = 1
  MaxTime = 4
  Faulty = TRUE
SPECIFICATION GuardSpec
SYMMETRY Symmetry
INVARIANTS
  MutualExclusion
  OneAnswerPerKey
  AnsweredRequestsDoNotRunAgain
