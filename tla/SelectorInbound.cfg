SPECIFICATION Spec
CONSTANTS
  a = a
  b = b
  c = c
  Tags = {a, b, c}
  NoTag = none
  Configs <- SwitchingConfigs
  Clients = {p, q}
  Dialers = {d, e}
  UseCacheFile = TRUE
INVARIANT
  InboundInterrupted
