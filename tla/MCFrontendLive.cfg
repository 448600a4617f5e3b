SPECIFICATION FairSpec
CONSTANTS
  AppOps <- LoginDestroy
  MaxFaults = 1
  MaxQueue = 1
  MaxInFlight = 1
PROPERTIES
  Reconnects
  HandshakeEnds
  DestroyEnds
CHECK_DEADLOCK FALSE
