SPECIFICATION FairSpec
CONSTANTS
  MaxManager = 3
  MaxDial = 2
  MaxEnvelope = 2
  EventCap = 3
  SendCap = 4
  Plan <- ConnPlans
INVARIANTS TypeOK Resynced StatusTrueAtFirst HandledInOrder
PROPERTIES ClosedHangsUp
CHECK_DEADLOCK FALSE
