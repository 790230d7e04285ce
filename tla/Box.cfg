SPECIFICATION Spec
CONSTANTS
  Closers = {c1, c2}
INVARIANTS
  ServedWhenOpen
  StagesInStep
  
  EndsRight
CHECK_DEADLOCK FALSE
