SPECIFICATION MediaSpec
CONSTANTS
  s1 = s1
  s2 = s2
  s3 = s3
  u1 = u1
  u2 = u2
  laptop = laptop
  desktop = desktop
  laptopPort = laptopPort
  desktopPort = desktopPort
  Session = {s1}
  Upload = {u1, u2}
  Form <- RaceForms
  UploadFaults = {"join", "channel", "member", "message", "object", "asset"}
  RemoteIP <- TwoDevices
  ClientEvent <- MCEvents
  Script <- RaceScripts
  Text <- MCText
  Trim <- MCTrim
  Lower <- MCLower
  HandlePattern <- MCHandlePattern
  DefaultRoom = "lobby"
  HistoryLimit = 2
  Reading = {s1}
  Leaving = {}
  SendCap = 1
  InboundCap = 1
  Faults = {}
  MaxTime = 0
INVARIANTS MediaTypeOK MessagesFiled AuthorsAreMembers RecordsHaveObjects AnnouncedIsRecorded
CHECK_DEADLOCK FALSE
