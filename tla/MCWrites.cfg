SPECIFICATION WritesSpec
CONSTANTS
  main = main
  linked = linked
  other = other
  NoCheckout = NoCheckout
  Checkouts <- LinkedPair
  Gitdirs <- OneGitdir
  GitdirOf <- PairGitdir
  Kinds <- AllKinds
  Cap = 1
  a = a
  b = b
  c = c
  Nobody = Nobody
  Absent = Absent
  Processes <- Three
  Keys <- Places
  KeyOf <- PlaceOf
  Buckets <- Contents2
INVARIANT MergeCurrent
PROPERTIES PendingStarts ImplementsAtomicStore LockFreed
CHECK_DEADLOCK FALSE
