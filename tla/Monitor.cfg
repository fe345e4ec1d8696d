SPECIFICATION MonitorSpec
CONSTANTS
  None = None
  Null = Null
  a = a
  b = b
  m1 = m1
  m2 = m2
  joined <- Joined
  SlotIds = {a, b}
  Models = {m1, m2}
  Graces = {0, 1}
  PROPS_REFRESH = 2
  SPEC_REFRESH = 1
  SPEC_ACCEPTANCE_HOLD = 1
  REQUEST_TIMEOUT = 1
  MaxDone = 2
  MaxTask = 2
  MaxRuns = 2
  MaxPolls <- PollBounds
  Loopback = TRUE
  PropsReplies <- MCPropsReplies
  SlotArrays <- MCSlotArrays
  ProcessTables <- MCProcessTables
INVARIANTS
  RateIsReal
  SlotRateIsExact
  AcceptanceIsMeasured
  ContextOfOneSlot
  ServerDecides
  IdleIsEvident
PROPERTIES
  HeldSampleExpires
  ModelIsCurrent
