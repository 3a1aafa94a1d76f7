SPECIFICATION FairSpec
CONSTANTS
  s1 = s1
  s2 = s2
  s3 = s3
  laptop = laptop
  desktop = desktop
  Session = {s1, s2}
  RemoteIP <- TwoDevices
  ClientEvent <- MCEvents
  Script <- TalkScripts
  Text <- MCText
  Trim <- MCTrim
  Lower <- MCLower
  HandlePattern <- MCHandlePattern
  DefaultRoom = "lobby"
  HistoryLimit = 2
  Reading = {s2}
  Leaving = {s1, s2}
  SendCap = 1
  InboundCap = 1
  Faults = {}
  MaxTime = 0
INVARIANTS TypeOK OnlineIsAttached SoleSessionIsOnline
PROPERTIES EventsHandled LeaversRemoved
CHECK_DEADLOCK FALSE
