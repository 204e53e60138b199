SPECIFICATION Spec
CONSTANTS
  Purchases = {p1}
  Live = {}
  Covered = {p1}
  Sweeps = {s1, s2}
  Window <- Lasting
  Short = 1
  Mid = 2
  Long = 3
  Day = 2
  Week = 3
  Dedup = 2
  Punctual = TRUE
  MaxLag = 1
  Horizon = 8
  MaxDrops = 2
  Budget <- Paging
  FaultKinds = {}
  MaxFaults = 0
INVARIANTS ChecksKeepUp CheckedDropHasClaim OneClaimPerRunningSweep
SYMMETRY SweepSymmetry
CHECK_DEADLOCK FALSE
