SPECIFICATION PaneSpec
CONSTANTS
  t1 = t1
  t2 = t2
  NoPath = NoPath
  Targets <- TwoTargets
  Paths <- NoPaths
  Tags <- NoTags
  Cap = 1
  MaxGen = 0
  MaxPane = 11
  MaxUser = 5
INVARIANTS PaneFollowsFocus
CHECK_DEADLOCK FALSE
