SPECIFICATION NetSpec
CONSTANTS
  Count = 3
  Concurrency = 2
  Modes = {"all", "pingonly", "speedonly"}
  DnsCallers <- MCDnsCallers
  DnsCalls <- MCDnsCalls
  DnsConfigs <- MCDnsConfigs
  XThreads = {"t1", "t2", "t3"}
  DrMaxParts = 2
  DrMaxLength = 3
  Providers = {1, 2}
INVARIANTS
  TesterSafe
  DialSafe
  DnsSafe
  XraySafe
  DrSafe
  IpSafe
PROPERTIES
  ResolvesAsPromised
  NetEnds
CHECK_DEADLOCK FALSE
