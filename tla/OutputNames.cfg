SPECIFICATION OutSpec
CONSTANTS
  Plans <- MCPlans
  Results <- MCResults
  PingRank <- MCPingRank
INVARIANT NamesDiffer
CHECK_DEADLOCK FALSE
