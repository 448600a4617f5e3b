SPECIFICATION FairSpec
CONSTANTS
  o1 = o1
  i1 = i1
  a1 = a1
  k1 = k1
  Recv = recv
  Check = check
  Worker = worker
  NoConn = noConn
  NoCall = noCall
  NoThread = noThread
  OutCalls <- NoCalls
  InCalls <- OneIn
  AppThreads <- OneApp
  Conns <- OneConn
  MaxCallNum = 2
  AppOps <- JustClose
  ServerMsgs <- InviteOnly
  RelayFaults <- NoFaults
  P2PEnabled = FALSE
PROPERTIES
  CloseCompletes
CHECK_DEADLOCK FALSE
