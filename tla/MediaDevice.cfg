SPECIFICATION MediaSpec
CONSTANTS
  s1 = s1
  s2 = s2
  s3 = s3
  u1 = u1
  u2 = u2
  laptop = laptop
  desktop = desktop
  laptopPort = laptopPort
  desktopPort = desktopPort
  Session = {s1}
  Upload = {u1}
  Form <- OneForm
  UploadFaults = {}
  RemoteIP <- TwoDevices
  ClientEvent <- MCEvents
  Script <- OneScripts
  Text <- MCText
  Trim <- MCTrim
  Lower <- MCLower
  HandlePattern <- MCHandlePattern
  DefaultRoom = "lobby"
  HistoryLimit = 2
  Reading = {s1}
  Leaving = {}
  SendCap = 3
  InboundCap = 2
  Faults = {}
  MaxTime = 0
INVARIANTS DeviceRemembered
CHECK_DEADLOCK FALSE
