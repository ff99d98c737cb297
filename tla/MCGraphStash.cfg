SPECIFICATION GraphSpec
CONSTANTS
  Rows = 4
  Unloaded = 1
  MaxParents = 2
  MaxStashes = 2
INVARIANT StashJoinKeepsRails
CHECK_DEADLOCK FALSE
