SPECIFICATION FairSpec
CONSTANTS
  NumGroups = 3
  Size <- SingleTail
  ResendCount <- Forever
  BatchAck = FALSE
  Closers = {"sender", "receiver"}
INVARIANTS BufferIsChecked EveryGroupIsOwned
PROPERTIES ImplementsDelivery EveryGroupAnswered BufferDrains
CHECK_DEADLOCK FALSE
