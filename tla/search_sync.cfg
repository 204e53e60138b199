SPECIFICATION FairSpec
CONSTANTS
  Docs = {d1, d2}
  Watchers = {w1, w2}
  Operator = operator
  Batch = 2
  MaxLog = 3
  FaultKinds <- AnyFault
  MaxFaults = 2
INVARIANTS TypeOK StaleMeansPending
PROPERTIES IndexPromise IndexConverges
CHECK_DEADLOCK FALSE
