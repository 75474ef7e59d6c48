SPECIFICATION Spec
CONSTANTS
  l1 = l1
  l2 = l2
  Loads <- MCLoads
  Ceiling = 2
  PageSize = 2
  Scenes <- MCScenes
INVARIANTS ViewsAgree FeedIsRight
PROPERTIES BellCatchesUp
CHECK_DEADLOCK FALSE
