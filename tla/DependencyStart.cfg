SPECIFICATION FairSpec
CONSTANTS
  a = a
  b = b
  c = c
  x = x
  Services <- ThreeServices
  Missing = {x}
INVARIANTS
  DependenciesFirst
  SuccessRight
  ProblemRight
PROPERTY
  StartEnds
