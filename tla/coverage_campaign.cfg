SPECIFICATION Spec
CONSTANTS
  Main = main
  Procs = {p1, p2}
  NumFlags = 2
  MaxLaunches = 3
  MaxInvalid = 1
  MaxCrashes = 1
  MaxKills = 1
SYMMETRY Symmetry
CHECK_DEADLOCK FALSE
INVARIANTS
  TypeOK
  SharedHashMatches
  HashIsKnown
  StaleIsNoticed
  ReportedIsShared
  CorpusSpeaksOfAll
