SPECIFICATION StatusesSpec
CONSTANTS
  a = a
  b = b
  c = c
  Paths <- ThreePaths
  MaxGen = 4
  Root = ""
  Dirs <- TwoDirs
  Files <- TwoFiles
  Parent <- Folders
  InOrder <- Tree
  Disk <- Edits
  Workers = 2
  MaxInput = 4
SYMMETRY Symmetry
INVARIANTS CollectWaitsForLiveJobs ExplorerSettled ExplorerCatchesUp
PROPERTIES NewestStatusWins
CHECK_DEADLOCK FALSE
