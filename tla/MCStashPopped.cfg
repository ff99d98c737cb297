SPECIFICATION RemotesSpec
CONSTANTS
  main = main
  linked = linked
  other = other
  NoCheckout = NoCheckout
  Checkouts <- LinkedPair
  Gitdirs <- OneGitdir
  GitdirOf <- PairGitdir
  Kinds <- AllKinds
  Cap = 1
  v1 = v1
  v2 = v2
  Workers <- TwoWorkers
  JobsOf <- MixedJobs
  NSlots = 1
  NoGroup = NoGroup
INVARIANT StashedIsSaved
CHECK_DEADLOCK FALSE
