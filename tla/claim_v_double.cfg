SPECIFICATION Spec
CONSTANTS
  AgentSlots = {a1, a2}
  GatewaySlots = {g1}
  RedraftEvents = {}
  EditTexts = {}
  ClaimType = "email"
  DefaultMode = "auto"
  Budgets <- Hands
  FaultKinds = {"overlap"}
  MaxFaults = 1
INVARIANTS NoDoubleSend
CHECK_DEADLOCK FALSE
