SPECIFICATION FairSpec
CONSTANTS
  MaxStarts = 2
  MaxAttempts = 1
  Lossy = TRUE
INVARIANTS
  SessionInv
  QuietWhenIdle
  RowsOfLastRun
PROPERTIES
  PollersEnd
  LoadingEnds
CHECK_DEADLOCK FALSE
