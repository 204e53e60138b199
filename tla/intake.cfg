SPECIFICATION FairSpec
CONSTANTS
  Receipts = {r1, r2}
  Lines = {l1}
  Orders = {o1}
  OrderOf <- SameOrder
  Handlers = {h1, h2}
  Requests = {q1, q2}
  Cap = 1
  AwaitsClassifier = TRUE
  MaxMail = 2
  FaultKinds = {"crash", "redeliver", "get", "list", "history", "mongo"}
  MaxEvents = 3
INVARIANTS TypeOK CursorPassesNothing ReceiptTrackedOnce
CHECK_DEADLOCK FALSE
PROPERTY MessageIsDealtWith
