SPECIFICATION FairSpec
CONSTANTS
  a = a
  b = b
  query = query
  server = server
  other = other
  g1 = g1
  g2 = g2
  g3 = g3
  Goroutines = {g1, g2, g3}
  Questions = {query, server}
  Asked = {query}
  Transports = {a, b}
  Configs <- MCConfigs
  MaxDepth = 2
  Nil = nil
INVARIANTS
  LocksServed
  WaitersShareAnswer
  CachesIndependent
  
PROPERTY
  ExchangeEnds
