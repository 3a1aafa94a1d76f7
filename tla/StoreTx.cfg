SPECIFICATION FairSpec
CONSTANTS
  h1 = h1
  h2 = h2
  u1 = u1
  u2 = u2
  laptop = laptop
  port1 = port1
  port2 = port2
  HubTx <- MCHubTx
  UploadTx = {u1, u2}
  Request <- MCRequest
  Text <- MCText
  Trim <- Same
  Lower <- Same
  HandlePattern <- MCHandlePattern
  HistoryLimit = 1
PROPERTIES AtomicSpec TransactionsEnd
CHECK_DEADLOCK FALSE
