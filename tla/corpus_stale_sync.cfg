SPECIFICATION Spec
CONSTANTS
  Main = main
  Monitors = {m1, m2}
  Printers = {}
  Tracees = {c1, c2}
  Keys = {k1, k2}
  MaxCount = 2
  UninitSeq = 9
  MaxPicks = 1
  MaxCrashes = 1
  MaxKills = 0
  MaxRestarts = 0
INVARIANTS
  SyncedMeansComplete
