\* Two workers race on one channel; statements throw and workers die.
CONSTANTS
  Provider = {p1}
  Worker = {w1, w2}
  Ceiling = 1
  Op = {"prepare", "deposit", "execute", "v1action", "finalize"}
  Faulty = TRUE
  MaxClaims = 2
SPECIFICATION Spec
SYMMETRY Symmetry
INVARIANTS
  ClaimIsNeverReoffered
  TerminalRowsArePaid
  SettlementsArePayouts
  OpenRowsHaveEvidence
PROPERTIES
  ImplementsChannelPromise
