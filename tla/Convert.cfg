SPECIFICATION ConvertSpec
CONSTANTS
  LruKeys = {k1, k2, k3}
  LruReaders = {p1}
  LruMaxSize = 2
  LruMaxTime = 1
  NodeSources <- MCNodes
  Requests <- MCRequests
  Commands <- MCCommands
  LinksOf <- MCLinksOf
  KeyOf <- MCKeyOf
  Texts <- MCTexts
  Web <- MCWeb
  Disk <- MCDisk
  Plans <- MCPlans
  Results <- MCResults
  PingRank <- MCPingRank
  LinkCounts <- MCLinkCounts
  Pings = {0, 7}
  Sums = {0, 1}
  Times = {0, 2000}
INVARIANTS
  LruSafe
  LinkSafe
  OptionSafe
  SubscriptionSafe
  OutputSafe
  MessageSafe
CHECK_DEADLOCK FALSE
