SPECIFICATION Spec
CONSTANTS
  Purchases = {p1}
  Live = {}
  Covered = {p1}
  Sweeps = {s1}
  Window <- Lasting
  Short = 1
  Mid = 2
  Long = 3
  Day = 2
  Week = 3
  Dedup = 2
  Punctual = TRUE
  MaxLag = 1
  Horizon = 7
  MaxDrops = 1
  Budget <- Alone
  FaultKinds = {}
  MaxFaults = 0
INVARIANTS OneEventPerDrop
CHECK_DEADLOCK FALSE
