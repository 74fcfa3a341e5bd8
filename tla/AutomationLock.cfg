SPECIFICATION Spec
CONSTANTS
  Callers = {c1, c2, c3}
  MaxTries = 3
  MaxToken = 3
  Faults = TRUE
SYMMETRY Symmetry
CHECK_DEADLOCK FALSE
INVARIANTS
  TypeOK
  ExclusionUnlessMoved
  LockNotLeftBehind
PROPERTY
  FirstLossIsReclaimOrUnread
