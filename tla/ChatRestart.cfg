SPECIFICATION SysSpec
CONSTANTS
  s1 = s1
  s2 = s2
  s3 = s3
  s4 = s4
  alice = alice
  bob = bob
  laptop = laptop
  desktop = desktop
  Session = {s1, s2, s3, s4}
  Client = {alice, bob}
  Conns <- MCConns
  Account <- MCAccount
  Plan <- AloneAfter
  DmName <- MCDmName
  IntMax = 32767
  ViewCap = 2
  RemoteIP <- MCHosts
  ClientEvent = {}
  Script <- NoScript
  Text <- MCText
  Trim <- MCTrim
  Lower <- MCLower
  HandlePattern <- MCHandlePattern
  DefaultRoom = "lobby"
  HistoryLimit = 2
  Reading = {s1, s2, s3, s4}
  Leaving = {}
  SendCap = 40
  InboundCap = 1
  Faults = {}
  MaxTime = 0
INVARIANTS PaneOnlineTrue
CHECK_DEADLOCK FALSE
