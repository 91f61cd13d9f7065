SPECIFICATION Spec
CONSTANTS
  Item <- MCItem
  Names <- MCNames
  Grammars <- MCGrammars
  Height <- MCHeight
  RandValues = {0, 1}
  MaxNesting = 6
  MaxDepth = 2
  MaxIters <- MCIters
  MaxCrashes = 1
  MaxEntries = 2
INVARIANTS
  TypeOK
  PruningIsExact
  ShortestIsLeast
  RecordedIsPreorder
  LimitsWithinMaxDepth
  MutationIsLocal
  CrashFileIsInput
  DumpIsInput
  NestingIsBounded
  ContextIsRestored
  BuildsAreDefined
  ChoicesAreDefined
PROPERTIES
  SnapshotsMeetTheirRules
CHECK_DEADLOCK FALSE
