SPECIFICATION FairSpec
CONSTANTS
  MaxSpawns = 2
  IterLimit = 1
  LifeLimit = 2
  Signals = {"fatal"}
INVARIANTS
  TypeOK
  SingleTracee
  ReportIsOfCrashed
PROPERTIES
  KillsOnlyLate
  JoinReturns
CHECK_DEADLOCK FALSE
