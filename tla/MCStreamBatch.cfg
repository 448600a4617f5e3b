SPECIFICATION Spec
CONSTANTS
  NumGroups = 2
  Size <- DoubleSingle
  ResendCount <- SecondOnce
  BatchAck = TRUE
  Closers = {}
PROPERTIES ImplementsDelivery
CHECK_DEADLOCK FALSE
