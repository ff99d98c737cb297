SPECIFICATION SessionSpec
CONSTANTS
  a = a
  b = b
  t1 = t1
  t2 = t2
  NoPath = NoPath
  Targets <- TwoTargets
  Paths <- TwoPaths
  Tags <- AllTags
  Cap = 2
  MaxGen = 4
  MaxPane = 7
  MaxUser = 3
INVARIANTS PaneSettled WriteGate
PROPERTIES CollectEnds ImplementsStatusCollect PaneCatchesUp LaneOrder LocalDrains
CHECK_DEADLOCK FALSE
