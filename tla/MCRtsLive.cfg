SPECIFICATION FairSpec
CONSTANTS
  o1 = o1
  i1 = i1
  a1 = a1
  k1 = k1
  Recv = recv
  Check = check
  Worker = worker
  NoConn = noConn
  NoCall = noCall
  NoThread = noThread
  OutCalls <- OneOut
  InCalls <- OneIn
  AppThreads <- OneApp
  Conns <- OneConn
  MaxCallNum = 1
  AppOps <- DialLogout
  ServerMsgs <- Answering
  RelayFaults <- EveryFault
  P2PEnabled = TRUE
INVARIANTS
  EveryCallScanned
  EndedIsFinal
  LockHasOwner
PROPERTIES
  WaitingEnds
  ImplementsLifecycle
CHECK_DEADLOCK FALSE
