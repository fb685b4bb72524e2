SPECIFICATION FairSpec
CONSTANTS
  LinksCount = 2
  Concurrency = 1
  MaxSamples = 1
  Jobs <- MCCommandLineJobs
PROPERTIES
  AlwaysReturns
CHECK_DEADLOCK FALSE
