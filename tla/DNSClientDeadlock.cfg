SPECIFICATION FairSpec
CONSTANTS
  a = a
  b = b
  query = query
  server = server
  other = other
  g1 = g1
  g2 = g2
  g3 = g3
  Goroutines = {g1, g2}
  Questions = {query, server, other}
  Asked = {query, server}
  Transports = {a, b}
  Configs <- ChainConfigs
  MaxDepth = 4
  Nil = nil
PROPERTY
  ExchangeEnds
