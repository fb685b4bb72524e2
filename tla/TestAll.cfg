SPECIFICATION FairSpec
CONSTANTS
  LinksCount = 3
  Concurrency = 2
  MaxSamples = 1
  Jobs <- MCJobs
INVARIANTS
  IndInv
  RepliesFaithful
  StrandedOnlyByLoss
PROPERTIES
  StreamsAsPromised
  CallEnds
  GoroutinesEnd
CHECK_DEADLOCK FALSE
