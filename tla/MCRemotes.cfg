SPECIFICATION RemotesSpec
CONSTANTS
  main = main
  linked = linked
  other = other
  NoCheckout = NoCheckout
  Checkouts <- ThreeCheckouts
  Gitdirs <- TwoGitdirs
  GitdirOf <- LinkedGitdir
  Kinds <- FetchAndPull
  Cap = 2
  v1 = v1
  v2 = v2
  Workers <- TwoWorkers
  JobsOf <- MixedJobs
  NSlots = 1
  NoGroup = NoGroup
INVARIANTS OccupyMatchesWork OneWorkerPerGitdir QueueInOrder StopIsExact PullRestores RunsEnd
CHECK_DEADLOCK FALSE
