SPECIFICATION FairSpec
CONSTANTS
  NumMessages = 4
  Kind <- MixedKinds
  Limit = 2
  MayRefuse = {"p2p", "p2t", "pull"}
  MaxPackets = 3
INVARIANTS ForgottenIsSettled
PROPERTIES ImplementsDelivery EveryMessageSettled
CHECK_DEADLOCK FALSE
