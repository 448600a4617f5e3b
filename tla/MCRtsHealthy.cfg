SPECIFICATION Spec
CONSTANTS
  o1 = o1
  i1 = i1
  a1 = a1
  k1 = k1
  Recv = recv
  Check = check
  Worker = worker
  NoConn = noConn
  NoCall = noCall
  NoThread = noThread
  OutCalls <- OneOut
  InCalls <- OneIn
  AppThreads <- OneApp
  Conns <- OneConn
  MaxCallNum = 2
  AppOps <- DialClose
  ServerMsgs <- Signalling
  RelayFaults <- OpenFault
  P2PEnabled = FALSE
INVARIANTS
  NoSilentDrop
  AcceptedIsRunning
CHECK_DEADLOCK FALSE
