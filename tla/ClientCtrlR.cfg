SPECIFICATION FairSpec
CONSTANTS
  MaxManager = 3
  MaxDial = 1
  MaxEnvelope = 1
  EventCap = 2
  SendCap = 3
  Plan <- CtrlRPlans
INVARIANTS StatusTrue
CHECK_DEADLOCK FALSE
