SPECIFICATION FairSpec
CONSTANTS
  e1 = e1
  e2 = e2
  e3 = e3
  Event = {e1, e2, e3}
  Keyless = {e3}
  MaxAttempts = 2
  QueueSize = 1
  GraceSuffices = TRUE
  NoEvent = NoEvent
INVARIANTS TypeOK AtMostOnce LossVisible
PROPERTIES ImplementsDelivery Settles ShutdownFlushes
CHECK_DEADLOCK FALSE
