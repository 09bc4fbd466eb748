SPECIFICATION FairSpec
CONSTANTS
  Publishers = {p1, p2}
  Capacity = 2
  Retries = 1
  MaxEvents = 2
INVARIANTS TypeOK AcknowledgedIsStored StoredInOrder BufferKeepsNewest
PROPERTIES NoSendAfterFallback ImplementsStream EveryPublishReturns
