SPECIFICATION FairSpec
CONSTANTS
  m1 = m1
  g = g
  Outbounds <- MCOutbounds
  Tags = {m1, g, t1, empty}
  Known = {m1, g, t1}
  Configs <- MCConfigs
  Tolerance = 50
  Dialers = {d}
  MaxForeign = 1
  Nil = nil
INVARIANT
  TypeOK
PROPERTIES
  WithinTolerance
  NoFlapping
  UpdateInterrupts
  RoundEnds
