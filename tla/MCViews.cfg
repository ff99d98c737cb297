SPECIFICATION ViewsSpec
CONSTANTS
  A = A
  B = B
  x = x
  y = y
  p1 = p1
  p2 = p2
  p3 = p3
  Rows = 5
  Unloaded = 1
  MaxParents = 2
  MaxStashes = 2
  NoRepo = NoRepo
  FileRow = FileRow
  EmptyRow = EmptyRow
  Repos <- TwoRepos
  Versions = 2
  History <- Logs
  Stashed <- Stashes
  Page = 2
  MaxPages = 1
  MaxPageInput = 4
  Clones <- TwoClones
  Remotes <- RemoteMaps
  Branches <- OneBranch
  Gone = Gone
  Facts <- TwoFacts
  PrMax = 1
  MaxPrInput = 3
  Kinds <- FourKinds
  Serial <- SerialKinds
  Viewed <- ViewKinds
  Filtered <- StaleKinds
  Tags <- ThreeTags
  TagOf <- TheirTag
  Rank <- TheirRank
  Plain <- PlainTags
  Keys = 2
  MaxAsk = 4
  Threads <- ThreeThreads
  Total = 4
INVARIANTS PictureIsHistory OlderEndsInSight GraphIsHistory LookupsInSight HostIsJudged DetailNotOlder SlotPerWaiting MapKeepsOrder
PROPERTIES RevealEnds BadgeStays LookupsEnd RequestsEnd MapEnds
CHECK_DEADLOCK FALSE
