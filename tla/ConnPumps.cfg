SPECIFICATION FairSpec
CONSTANTS
  Envelope = {e1, e2}
  e1 = e1
  e2 = e2
  Caller = {hubGo, broadcast}
  hubGo = hubGo
  broadcast = broadcast
  Hub = hubGo
  SendCap = 2
  InboundCap = 1
  MayStop = TRUE
INVARIANTS TypeOK NeverSendsOnClosed
PROPERTIES MailboxPromise HubAlwaysReturns WriterEndsWithReader LostPeerReleased
CHECK_DEADLOCK FALSE
