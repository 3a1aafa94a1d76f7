SPECIFICATION Spec
CONSTANTS
  s1 = s1
  s2 = s2
  s3 = s3
  laptop = laptop
  desktop = desktop
  Session = {s2, s3}
  RemoteIP <- TwoDevices
  ClientEvent <- MCEvents
  Script <- TwinScripts
  Text <- MCText
  Trim <- MCTrim
  Lower <- MCLower
  HandlePattern <- MCHandlePattern
  DefaultRoom = "lobby"
  HistoryLimit = 2
  Reading = {}
  Leaving = {s2}
  SendCap = 30
  InboundCap = 1
  Faults = {}
  MaxTime = 0
INVARIANTS ConnectedMeansOnline
CHECK_DEADLOCK FALSE
