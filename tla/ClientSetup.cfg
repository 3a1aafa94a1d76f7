SPECIFICATION Spec
CONSTANTS
  c1 = c1
  Client = {c1}
  Part <- MCPart
  Lower <- MCLower
  Query <- MCQuery
  Lobby <- MCLobby
  Code <- MCCode
  Handle <- MCHandle
  Config <- MCConfig
  Matches <- MCMatches
  MayFail = TRUE
  MaxStart = 2
  MaxAdmit = 2
INVARIANTS TypeOK CursorInList EntriesKept DeviceOnDisk KnownLobbyIsJoined
CHECK_DEADLOCK FALSE
