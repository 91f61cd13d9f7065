SPECIFICATION Spec
CONSTANTS
  Main = main
  Monitors = {m1, m2}
  Printers = {status}
  Tracees = {c1, c2}
  Keys = {k1, k2}
  MaxCount = 2
  UninitSeq = 9
  MaxPicks = 0
  MaxCrashes = 0
  MaxKills = 0
  MaxRestarts = 0
INVARIANTS
  IndexIsPosition
