SPECIFICATION Spec
CONSTANTS
  AgentSlots = {a1, a2}
  GatewaySlots = {g1}
  RedraftEvents = {r1}
  EditTexts = {"u1"}
  ClaimType = "email"
  DefaultMode = "approval"
  Budgets <- Races
  FaultKinds = {"overlap", "crash", "redeliver", "publish", "write", "raise", "notify"}
  MaxFaults = 2
SYMMETRY Symmetry
INVARIANTS TypeOK MailNeedsConsent DraftInSync RedraftOnce
PROPERTIES ResolutionIsFinal KeepsLedger
CHECK_DEADLOCK FALSE
