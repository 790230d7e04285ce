SPECIFICATION Spec
CONSTANTS
  a = a
  b = b
  Tags = {a, b, fallback}
  DefaultTags = {a, b, nil}
  FallbackTag = fallback
  Endpoint = endpoint
  MaxInstances = 3
  MaxDependencies = 1
  Nil = nil
SYMMETRY Symmetry
INVARIANTS
  ListMatchesTags
  DependenciesRecorded
  RunningIsListed
  FinalIsDefault
CHECK_DEADLOCK FALSE
