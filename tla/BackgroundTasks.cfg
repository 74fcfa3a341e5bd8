SPECIFICATION FairSpec
CONSTANTS
  Calls = {c1}
  Killers = {k1}
  Watchdog = watchdog
  NoCall = NoCall
CHECK_DEADLOCK FALSE
INVARIANTS
  TypeOK
  SurvivorIsListed
  DeclaredSurvivesCancel
  KilledKeptIsNoted
PROPERTY
  NothingRunsForever
