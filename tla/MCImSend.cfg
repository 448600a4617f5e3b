SPECIFICATION FairSpec
CONSTANTS
  P2P = {p1, p2}
  Group = {g1}
  NoMessage = NoMessage
INVARIANTS WaitsUntilAnswered
PROPERTIES NoLateTimeout ImplementsLife P2PAnswered
CHECK_DEADLOCK FALSE
