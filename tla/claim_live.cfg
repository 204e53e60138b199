SPECIFICATION FairSpec
CONSTANTS
  AgentSlots = {a1}
  GatewaySlots = {g1}
  RedraftEvents = {}
  EditTexts = {}
  ClaimType = "email"
  DefaultMode = "auto"
  Budgets <- Answers
  FaultKinds = {"redeliver", "publish", "gmail", "gmailLost"}
  MaxFaults = 2
INVARIANTS MailsPaidByFaults QueuedHasTimer
PROPERTIES ApprovedIsAnswered QueueDrains
CHECK_DEADLOCK FALSE
