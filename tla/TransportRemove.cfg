SPECIFICATION Spec
CONSTANTS
  Tags = {a, local}
  DefaultTags = {Nil}
  LocalTag = local
  MaxInstances = 3
  MaxDependencies = 1
  Nil = Nil
INVARIANT
  DefaultNotFakeIP
CHECK_DEADLOCK FALSE
