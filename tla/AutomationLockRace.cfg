SPECIFICATION Spec
CONSTANTS
  Callers = {c1, c2, c3}
  MaxTries = 3
  MaxToken = 3
  Faults = FALSE
CHECK_DEADLOCK FALSE
INVARIANT
  MutualExclusion
