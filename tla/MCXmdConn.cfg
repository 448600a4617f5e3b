SPECIFICATION FairSpec
CONSTANTS
  Resends = 1
  MaxAccepts = 2
  MaxPackets = 2
INVARIANTS OpenIsWatched ApplicationKnows
PROPERTIES ImplementsLifecycle CreateAnswered HalfOpenEnds
CHECK_DEADLOCK FALSE
