SPECIFICATION Spec
CONSTANTS
  s1 = s1
  s2 = s2
  s3 = s3
  laptop = laptop
  desktop = desktop
  Session = {s1, s2}
  RemoteIP <- TwoDevices
  ClientEvent <- MCEvents
  Script <- AllScripts
  Text <- MCText
  Trim <- MCTrim
  Lower <- MCLower
  HandlePattern <- MCHandlePattern
  DefaultRoom = "lobby"
  HistoryLimit = 2
  Reading = {}
  Leaving = {}
  SendCap = 30
  InboundCap = 1
  Faults = {"JoinWorkspace", "EnsureChannel", "AddChannelMember", "ListChannels", "ListWorkspaceUsers", "ListHistory", "SaveMessage", "UpdateUserHandle"}
  MaxTime = 8
INVARIANTS MessagesFiled AuthorsAreMembers QueuedForOwnWorkspace TablesConsistent PresenceHandleFresh
PROPERTIES PingsRateLimited
CHECK_DEADLOCK FALSE
