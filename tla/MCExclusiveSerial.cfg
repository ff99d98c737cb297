SPECIFICATION Safe
CONSTANTS
  main = main
  linked = linked
  other = other
  NoCheckout = NoCheckout
  Checkouts <- ThreeCheckouts
  Gitdirs <- TwoGitdirs
  GitdirOf <- LinkedGitdir
  Kinds <- FetchAndPull
  Cap = 2
INVARIANTS ExclusiveSerial
CHECK_DEADLOCK FALSE
