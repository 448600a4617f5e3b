SPECIFICATION FairSpec
CONSTANTS
  MaxDetect = 1
  MaxExchange = 1
  MaxPunch = 1
  MaxEvents = 2
INVARIANTS
  ProcessorOutlivesThread
  SessionOutlivesSender
  NothingLeft
  LinksAreKnown
  OnlyKnownDeadlocks
PROPERTIES
  PunchingEnds
  CloseEnds
CHECK_DEADLOCK FALSE
