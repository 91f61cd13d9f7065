SPECIFICATION Spec
CONSTANTS
  Main = main
  Monitors = {m1, m2}
  Printers = {}
  Tracees = {c1, c2}
  Keys = {k1, k2}
  MaxCount = 1
  UninitSeq = 0
  MaxPicks = 1
  MaxCrashes = 1
  MaxKills = 1
  MaxRestarts = 1
SYMMETRY Symmetry
CHECK_DEADLOCK FALSE
INVARIANTS
  MutualExclusion
  UniqueFeedbackKeys
  PublishedIsWritten
  SeenIsMirrored
PROPERTIES
  ImplementsFeedbackCorpus
