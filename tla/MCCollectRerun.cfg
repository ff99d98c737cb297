SPECIFICATION Spec
CONSTANTS
  a = a
  b = b
  NoPath = NoPath
  Paths <- TwoPaths
  Tags <- NoTags
  Cap = 1
  MaxGen = 3
  MaxPane = 0
  MaxUser = 0
PROPERTIES LatchedTickReruns
CHECK_DEADLOCK FALSE
