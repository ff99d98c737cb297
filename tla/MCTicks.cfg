SPECIFICATION TicksSpec
CONSTANTS
  a = a
  b = b
  Nobody = Nobody
  Instances <- Two
  Workspaces <- OneWorkspace
  WorkspaceOf <- InOne
  Interval <- Intervals
  Tolerance = 1
  MaxTime = 2
  MaxTick = 2
  Heads <- MovingHeads
  Texts <- MovingTexts
  RowsAt <- MovingRows
  Folder = Folder
  Watched = Watched
  NoPath = NoPath
  LocalCap = 2
  MaxProbes = 1
  MaxTabEvents = 3
INVARIANTS ClaimMatchesWork FetchDue OutcomeShown CompareSettled
PROPERTIES OthersFollow CompareCatchesUp
CHECK_DEADLOCK FALSE
