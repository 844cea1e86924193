\* The counter passes the wire byte.
SPECIFICATION Spec
CONSTANTS
  QueueSize = 2
  MaxRetries = 2
  ByteMod = 2
  OutboxCap = 2
  MaxSeq = 3
  Sizes <- FramedOnly
INVARIANT AckRemovesMessage
CHECK_DEADLOCK FALSE
