SPECIFICATION FairSpec
CONSTANTS
  LinksCount = 3
  Concurrency = 2
  MaxSamples = 1
  Jobs <- MCJobs
INVARIANTS
  IndInv
  CollectNeverStarves
  SendNeverBlocks
  ReportFaithful
PROPERTIES
  QuietAfterEof
  KeepsPromise
  RunReturns
  GoroutinesEnd
CHECK_DEADLOCK FALSE
