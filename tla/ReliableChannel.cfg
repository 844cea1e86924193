\* The counter stays within the byte; housekeeping passes keep coming.
SPECIFICATION FairSpec
CONSTANTS
  QueueSize = 2
  MaxRetries = 2
  ByteMod = 4
  OutboxCap = 2
  MaxSeq = 4
  Sizes <- AllSizes
INVARIANTS
  AckedIsReleased
  FramedIsQueuedOrSent
PROPERTIES
  RefinesDelivery
  DeliveredOrDropped
CHECK_DEADLOCK FALSE
