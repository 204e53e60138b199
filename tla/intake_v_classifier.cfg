SPECIFICATION Spec
CONSTANTS
  Receipts = {r1, r2}
  Lines = {}
  Orders = {o1}
  OrderOf <- SameOrder
  Handlers = {h1, h2}
  Requests = {q1}
  Cap = 2
  AwaitsClassifier = FALSE
  MaxMail = 2
  FaultKinds = {}
  MaxEvents = 2
INVARIANT MessageIsProcessed
CHECK_DEADLOCK FALSE
