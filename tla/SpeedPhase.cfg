SPECIFICATION FairSpec
CONSTANTS
  Threads = {t1, t2}
  Directions = {"download", "upload"}
  Timeout = 3
  DeadAfter = 2
  MaxBytes = 3
INVARIANTS
  IndInv
  BytesConserved
  FailureMeansNoBytes
  DrainedUnlessCancelled
  DeadNodeGivenUp
PROPERTIES
  SumsSettled
  PhaseEnds
CHECK_DEADLOCK FALSE
