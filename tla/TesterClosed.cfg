SPECIFICATION Spec
CONSTANTS
  Count = 2
  Concurrency = 1
  Modes = {"all"}
INVARIANTS
  NeverSendsOnClosed
CHECK_DEADLOCK FALSE
