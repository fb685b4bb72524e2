SPECIFICATION Spec
CONSTANTS
  LinksCount = 2
  Concurrency = 1
  MaxSamples = 1
  Jobs <- MCPingOnlyJobs
INVARIANTS
  LinesPrinted
CHECK_DEADLOCK FALSE
