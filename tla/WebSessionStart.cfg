SPECIFICATION Spec
CONSTANTS
  MaxStarts = 2
  MaxAttempts = 0
  Lossy = TRUE
INVARIANTS
  StartStopsOnlyIfConnectionFails
CHECK_DEADLOCK FALSE
