SPECIFICATION Spec
CONSTANTS
  Main = main
  Monitors = {m1, m2}
  Printers = {}
  Tracees = {c1, c2}
  Keys = {k1, k2, k3}
  MaxCount = 2
  UninitSeq = 9
  MaxPicks = 3
  MaxCrashes = 0
  MaxKills = 0
  MaxRestarts = 0
SYMMETRY Symmetry
INVARIANTS
  TypeOK
  LocalMirror
  SyncedMeansComplete
  LineageCounts
PROPERTIES
  PicksConserved
