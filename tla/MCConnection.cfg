SPECIFICATION FairSpec
CONSTANTS
  NServers = 2
  ByName = {0}
  IPv6 = TRUE
  DnsUp = TRUE
  Timeout = 2
  QueryLife = 1
  SilentPeers = TRUE
INVARIANTS
  OneSocket
  TalksToChosenServer
  NoOrphanedQuery
PROPERTIES
  ComesBack
  TriesEveryServer
