\* Keys and their tokens; publishing with retries; edits and rotations.
CONSTANTS
  o1 = o1
  o2 = o2
  k1 = k1
  k2 = k2
  c1 = c1
  s1 = s1
  s2 = s2
  t1 = t1
  t2 = t2
  Owner = {o1, o2}
  Key = {k1, k2}
  Sub = {s1, s2}
  Client = {c1}
  Tab = {t1, t2}
  TabOwner <- MCTabOwner
  Scenes <- MCScenes
  MaxToken = 3
  MaxSecret = 2
  MaxEvent = 2
  MaxTries = 3
SPECIFICATION Spec
CHECK_DEADLOCK FALSE
INVARIANTS
  DeadTokensAreRefused
  SucceededWasAccepted
  DeliveriesStayWithTheirOwner
PROPERTIES
  NothingIsUndone
