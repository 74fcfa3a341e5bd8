SPECIFICATION Spec
CONSTANTS
  Callers = {c1}
  Ids <- MCIds
  NoId = 0
  Instructions = {t1}
  MaxIterations = 2
  MaxSubIterations = 1
  MaxPolls = 2
INVARIANTS
  PausedAppendInjected
