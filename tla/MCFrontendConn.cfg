SPECIFICATION Spec
CONSTANTS
  AppOps <- Everything
  MaxFaults = 1
  MaxQueue = 1
  MaxInFlight = 1
INVARIANTS
  ConnectedIsClosed
  HandshakeHasKey
  OnlineIsBound
  HandshakeIsWatched
PROPERTIES
  OfflineStays
CHECK_DEADLOCK FALSE
