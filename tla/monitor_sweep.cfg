SPECIFICATION FairSpec
CONSTANTS
  Purchases = {p1}
  Live = {p1}
  Covered = {p1}
  Sweeps = {s1}
  Window <- Closing
  Short = 1
  Mid = 2
  Long = 3
  Day = 2
  Week = 3
  Dedup = 2
  Punctual = FALSE
  MaxLag = 1
  Horizon = 4
  MaxDrops = 1
  Budget <- Stopping
  FaultKinds = {"crash", "write", "fetch", "publish", "raise"}
  MaxFaults = 1
INVARIANTS TypeOK StopTakesEffect ClaimIsDocumented
PROPERTIES StoppedStaysOff ClosedWindowLeaves
CHECK_DEADLOCK FALSE
