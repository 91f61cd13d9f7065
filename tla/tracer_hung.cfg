SPECIFICATION FairSpec
CONSTANTS
  MaxSpawns = 2
  IterLimit = 1
  LifeLimit = 2
  Signals = {}
PROPERTY HungIsKilled
CHECK_DEADLOCK FALSE
