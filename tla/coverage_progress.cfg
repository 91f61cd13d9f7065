SPECIFICATION FairSpec
CONSTANTS
  Main = main
  Procs = {p1, p2}
  NumFlags = 2
  MaxLaunches = 2
  MaxInvalid = 0
  MaxCrashes = 1
  MaxKills = 0
PROPERTIES
  HitsAreShared
