SPECIFICATION Spec
CONSTANTS
  NumMessages = 2
  Kind <- BothKinds
  Limit = 2
  MayRefuse = {}
  MaxPackets = 3
INVARIANTS DeliveredOnce
CHECK_DEADLOCK FALSE
