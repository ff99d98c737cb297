SPECIFICATION PagesSpec
CONSTANTS
  A = A
  B = B
  NoRepo = NoRepo
  FileRow = FileRow
  EmptyRow = EmptyRow
  Repos <- TwoRepos
  Versions = 2
  History <- Logs
  Stashed <- Stashes
  Page = 2
  MaxPages = 1
  MaxPageInput = 5
INVARIANT FocusShown
CHECK_DEADLOCK FALSE
