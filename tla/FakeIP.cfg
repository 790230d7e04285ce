SPECIFICATION MCSpec
CONSTANTS
  RangeSize = 5
  Addr = 1
  Domains = {d1, d2, d3}
  Creators = {p, q}
  FileDomains = {e1, e2}
  Families = {"inet4", "inet6"}
  MaxWrites = 2
  Nil = nil
SYMMETRY Symmetry
INVARIANTS
  DomainMapSound
  AnswersInRange
  DatabaseSound
  GivenHasRecord
PROPERTY
  ReusedOnlyWhenFull
