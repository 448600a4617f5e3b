------------------------ MODULE FrontendConn_proofs ------------------------
(***************************************************************************)
(* Proofs about FrontendConn for every choice of what the application      *)
(* does and any bounds on faults, packets on the wire and queued packets.  *)
(***************************************************************************)
EXTENDS FrontendConn, TLAPS

\* Appending keeps the element type of a sequence.
LEMMA AppendType ==
  ASSUME NEW S, NEW s \in Seq(S), NEW e \in S
  PROVE  Append(s, e) \in Seq(S)
OBVIOUS

\* The server's answers keep the types of what is on the wire.
LEMMA AnswerType ==
  ASSUME TypeOK, NEW a \in Answers, Answer(a)
  PROVE  /\ toServer' \in Seq([cmd : Requests, key : Keys])
         /\ toClient' \in Seq(Answers)
<1>1. toServer' \in Seq([cmd : Requests, key : Keys])
  BY DEF TypeOK, Answer
<1>2. toClient' = Append(toClient, a) \/ toClient' = toClient
  BY DEF Answer
<1>3. toClient' \in Seq(Answers)
  BY <1>2, AppendType DEF TypeOK
<1> QED BY <1>1, <1>3

\* So does writing a request.
LEMMA WriteType ==
  ASSUME TypeOK, PacketInHand, Write
  PROVE  toServer' \in Seq([cmd : Requests, key : Keys])
<1>1. out \in [cmd : Requests, key : Keys]
  BY DEF TypeOK, PacketInHand, Write, At
<1>2. toServer' = Append(toServer, out) \/ toServer' = toServer
  BY DEF Write
<1>3. toServer \in Seq([cmd : Requests, key : Keys])
  BY DEF TypeOK
<1>4. Append(toServer, out) \in Seq([cmd : Requests, key : Keys])
  BY <1>1, <1>3, AppendType, Zenon
<1> QED BY <1>2, <1>3, <1>4

\* Every step keeps the types.
LEMMA NextType == TypeOK /\ PacketInHand /\ [Next]_vars => TypeOK'
<1> SUFFICES ASSUME TypeOK, PacketInHand, [Next]_vars PROVE TypeOK'
  OBVIOUS
<1> USE BoundsAssumption DEF TypeOK, Goto, At, Threads, Labels, Resets, ResetThen,
      NoPacket, Keys, Requests, Answers, Denials, vars, connVars, loginVars, sendVars, recvVars,
      netVars, history
<1>r. ASSUME NEW t \in Threads, ResetSock(t) PROVE TypeOK'
  <2>1. CASE CloseSock(t)
    <3>1. FlagsOK'
      BY <2>1, Zenon DEF CloseSock, FlagsOK
    <3> QED BY <2>1, <3>1 DEF CloseSock
  <2>2. CASE Disconnect(t)
    BY <2>2 DEF Disconnect, FlagsOK
  <2>3. CASE GoOffline(t)
    <3>1. FlagsOK'
      BY <2>3, Zenon DEF GoOffline, FlagsOK
    <3> QED BY <2>3, <3>1 DEF GoOffline
  <2>4. CASE ForgetKey(t)
    BY <2>4 DEF ForgetKey, FlagsOK
  <2>5. CASE Disarm(t)
    BY <2>5 DEF Disarm, FlagsOK
  <2> QED BY <1>r, <2>1, <2>2, <2>3, <2>4, <2>5 DEF ResetSock
<1>1. CASE Send
  <2>1. CASE Connect
    <3>1. FlagsOK'
      BY <2>1, Zenon DEF Connect, NewSocket, OthersRest, Older, FlagsOK
    <3> QED BY <2>1, <3>1 DEF Connect, NewSocket, OthersRest, Older
  <2>2. CASE SetSockConnected
    BY <2>2 DEF SetSockConnected, Packet, FlagsOK
  <2>3. CASE CheckBind
    BY <2>3 DEF CheckBind, Sending, BindBranch, FlagsOK
  <2>4. CASE Bind
    <3>1. FlagsOK'
      BY <2>4, Zenon DEF Bind, Packet, FlagsOK
    <3> QED BY <2>4, <3>1 DEF Bind, Packet
  <2>5. CASE CheckPop
    BY <2>5 DEF CheckPop, Sending, BindBranch, FlagsOK
  <2>6. CASE Pop
    <3>1. FlagsOK'
      BY <2>6, Zenon DEF Pop, Packet, FlagsOK
    <3> QED BY <2>6, <3>1 DEF Pop, Packet, PacketInHand
  <2>7. CASE Ping
    BY <2>7 DEF Ping, Sending, BindBranch, Packet, FlagsOK
  <2>8. CASE Arm
    BY <2>8 DEF Arm, FlagsOK
  <2>9. CASE Write
    <3>1. FlagsOK'
      BY <2>9, Zenon DEF Write, FlagsOK
    <3>2. toServer' \in Seq([cmd : Requests, key : Keys])
      BY <2>9, WriteType
    <3> QED BY <2>9, <3>1, <3>2 DEF Write, Keys
  <2>10. CASE WriteFails
    BY <2>10 DEF WriteFails, FlagsOK
  <2>11. CASE StopSending
    BY <2>11 DEF StopSending, FlagsOK
  <2>12. CASE StartConnect
    <3>1. FlagsOK'
      BY <2>12, Zenon DEF StartConnect, Sending, FlagsOK
    <3> QED BY <2>12, <3>1 DEF StartConnect, Sending
  <2>13. CASE SkipAddress
    <3>1. FlagsOK'
      BY <2>13, Zenon DEF SkipAddress, NewSocket, FlagsOK
    <3> QED BY <2>13, <3>1 DEF SkipAddress, NewSocket
  <2>14. CASE ConnectFails
    <3>1. FlagsOK'
      BY <2>14, Zenon DEF ConnectFails, NewSocket, FlagsOK
    <3> QED BY <2>14, <3>1 DEF ConnectFails, NewSocket
  <2> QED BY <1>1, <1>r, <2>1, <2>2, <2>3, <2>4, <2>5, <2>6, <2>7, <2>8, <2>9, <2>10,
         <2>11, <2>12, <2>13, <2>14 DEF Send, Threads
<1>2. CASE Receive
  <2>1. CASE BeginRead
    BY <2>1 DEF BeginRead, FlagsOK
  <2>2. CASE ReadPacket
    BY <2>2 DEF ReadPacket, FlagsOK
  <2>3. CASE ReadFails
    BY <2>3 DEF ReadFails, FlagsOK
  <2>4. CASE ClearTimer
    BY <2>4 DEF ClearTimer, Handling, FlagsOK
  <2>5. CASE HandleGarbage
    BY <2>5 DEF HandleGarbage, Readable, FlagsOK
  <2>6. CASE HandleConn
    BY <2>6 DEF HandleConn, Handling, Readable, FlagsOK
  <2>7. CASE SetHandshake
    BY <2>7 DEF SetHandshake, Handling, FlagsOK
  <2>8. CASE HandleBind
    <3>1. FlagsOK'
      BY <2>8, Zenon DEF HandleBind, Handling, Readable, FlagsOK
    <3> QED BY <2>8, <3>1 DEF HandleBind, Handling, Readable
  <2>9. CASE StopReceiving
    BY <2>9 DEF StopReceiving, FlagsOK
  <2> QED BY <1>2, <1>r, <2>1, <2>2, <2>3, <2>4, <2>5, <2>6, <2>7, <2>8, <2>9 DEF Receive, Threads
<1>3. CASE Check
  <2>1. CASE CheckTimer
    BY <2>1 DEF CheckTimer, FlagsOK
  <2>2. CASE StopChecking
    BY <2>2 DEF StopChecking, FlagsOK
  <2> QED BY <1>3, <1>r, <2>1, <2>2 DEF Check, Threads
<1>4. CASE Application
  <2>1. CASE Login
    BY <2>1 DEF Login, FlagsOK
  <2>2. CASE Logout
    BY <2>2 DEF Logout, FlagsOK
  <2>3. CASE Destroy
    BY <2>3 DEF Destroy, FlagsOK
  <2>4. CASE ForbidLogin
    <3>1. FlagsOK'
      BY <2>4, Zenon DEF ForbidLogin, FlagsOK
    <3> QED BY <2>4, <3>1 DEF ForbidLogin
  <2>5. CASE JoinSend
    BY <2>5 DEF JoinSend, FlagsOK
  <2>6. CASE JoinRest
    BY <2>6 DEF JoinRest, FlagsOK
  <2>7. CASE PushUnbind
    <3>1. FlagsOK'
      BY <2>7, Zenon DEF PushUnbind, FlagsOK
    <3> QED BY <2>7, <3>1 DEF PushUnbind
  <2> QED BY <1>4, <1>r, <2>1, <2>2, <2>3, <2>4, <2>5, <2>6, <2>7 DEF Application, Finish, Threads
<1>5. CASE Environment
  <2>1. CASE Expire
    BY <2>1 DEF Expire, Fault, FlagsOK
  <2>2. CASE Age
    <3>1. FlagsOK'
      BY <2>2, Zenon DEF Age, FlagsOK
    <3> QED BY <2>2, <3>1 DEF Age
  <2>3. CASE Break
    <3>1. FlagsOK'
      BY <2>3, Zenon DEF Break, Fault, FlagsOK
    <3> QED BY <2>3, <3>1 DEF Break, Fault
  <2>4. CASE AnswerConn
    <3>1. FlagsOK'
      BY <2>4, Zenon DEF AnswerConn, Answer, Asked, FlagsOK
    <3>2. toServer' \in Seq([cmd : Requests, key : Keys]) /\ toClient' \in Seq(Answers)
      BY <2>4, AnswerType DEF AnswerConn
    <3> QED BY <2>4, <3>1, <3>2 DEF AnswerConn, Answer, Asked
  <2>5. CASE AnswerPing
    <3>1. FlagsOK'
      BY <2>5, Zenon DEF AnswerPing, Answer, Asked, FlagsOK
    <3>2. toServer' \in Seq([cmd : Requests, key : Keys]) /\ toClient' \in Seq(Answers)
      BY <2>5, AnswerType DEF AnswerPing
    <3> QED BY <2>5, <3>1, <3>2 DEF AnswerPing, Answer, Asked
  <2>6. CASE AcceptBind
    <3>1. FlagsOK'
      BY <2>6, Zenon DEF AcceptBind, Answer, Asked, FlagsOK
    <3>2. toServer' \in Seq([cmd : Requests, key : Keys]) /\ toClient' \in Seq(Answers)
      BY <2>6, AnswerType DEF AcceptBind
    <3> QED BY <2>6, <3>1, <3>2 DEF AcceptBind, Answer, Asked
  <2>7. CASE AnswerUnbind
    <3>1. FlagsOK'
      BY <2>7, Zenon DEF AnswerUnbind, Answer, Asked, FlagsOK
    <3>2. toServer' \in Seq([cmd : Requests, key : Keys]) /\ toClient' \in Seq(Answers)
      BY <2>7, AnswerType DEF AnswerUnbind
    <3> QED BY <2>7, <3>1, <3>2 DEF AnswerUnbind, Answer, Asked
  <2>8. CASE Reject
    <3>1. FlagsOK'
      BY <2>8, Zenon DEF Reject, Asked, FlagsOK
    <3> QED BY <2>8, <3>1 DEF Reject, Asked
  <2>9. CASE RefuseBind
    <3>1. FlagsOK'
      BY <2>9, Zenon DEF RefuseBind, Answer, Asked, Fault, FlagsOK
    <3>2. toServer' \in Seq([cmd : Requests, key : Keys]) /\ toClient' \in Seq(Answers)
      BY <2>9, AnswerType DEF RefuseBind
    <3> QED BY <2>9, <3>1, <3>2 DEF RefuseBind, Answer, Asked, Fault
  <2>10. CASE Kick
    <3>1. FlagsOK'
      BY <2>10, Zenon DEF Kick, Fault, FlagsOK
    <3> QED BY <2>10, <3>1 DEF Kick, Fault
  <2> QED BY <1>5, <2>1, <2>2, <2>3, <2>4, <2>5, <2>6, <2>7, <2>8, <2>9, <2>10 DEF Environment, Serve
<1>6. CASE UNCHANGED vars
  BY <1>6 DEF FlagsOK
<1> QED BY <1>1, <1>2, <1>3, <1>4, <1>5, <1>6 DEF Next

Control ==
  /\ ResetAfterSend /\ ResetHasClosed /\ ClosedOrConnected /\ ConnectedIsClosed
  /\ PacketInHand /\ HandlesThis /\ ShakesWithKey /\ HandshakeHasKey /\ WaitsWatched
  /\ JustConnected

\* Every step keeps what the threads' places say of the connection.
LEMMA NextControl == IInv /\ [Next]_vars => Control'
<1> SUFFICES ASSUME IInv, [Next]_vars PROVE Control'
  OBVIOUS
<1> USE DEF IInv, Control, TypeOK, ResetAfterSend, ResetHasClosed, ClosedOrConnected, ConnectedIsClosed,
      PacketInHand, HandlesThis, ShakesWithKey, HandshakeHasKey, WaitsWatched,
      JustConnected, FirstIsConn, Labels, NoPacket, Answers, Denials,
      Goto, At, Threads, Past, Resets, ResetThen, vars, connVars, loginVars,
      sendVars, recvVars, netVars, history
<1>r. ASSUME NEW t \in Threads, ResetSock(t) PROVE Control'
  <2>1. CASE CloseSock(t)
    BY <2>1 DEF CloseSock
  <2>2. CASE Disconnect(t)
    BY <2>2 DEF Disconnect
  <2>3. CASE GoOffline(t)
    BY <2>3 DEF GoOffline
  <2>4. CASE ForgetKey(t)
    BY <2>4 DEF ForgetKey
  <2>5. CASE Disarm(t)
    BY <2>5 DEF Disarm
  <2> QED BY <1>r, <2>1, <2>2, <2>3, <2>4, <2>5 DEF ResetSock
<1>1. CASE Send
  <2>1. CASE Connect
    BY <2>1 DEF Connect, NewSocket, OthersRest, Older
  <2>2. CASE SetSockConnected
    BY <2>2 DEF SetSockConnected, Packet
  <2>3. CASE CheckBind
    BY <2>3 DEF CheckBind, Sending, BindBranch
  <2>4. CASE Bind
    BY <2>4 DEF Bind, Packet
  <2>5. CASE CheckPop
    BY <2>5 DEF CheckPop, Sending, BindBranch
  <2>6. CASE Pop
    BY <2>6 DEF Pop, Packet
  <2>7. CASE Ping
    BY <2>7 DEF Ping, Sending, BindBranch, Packet
  <2>8. CASE Arm
    BY <2>8 DEF Arm
  <2>9. CASE Write
    BY <2>9 DEF Write
  <2>10. CASE WriteFails
    BY <2>10 DEF WriteFails
  <2>11. CASE StopSending
    BY <2>11 DEF StopSending
  <2>12. CASE StartConnect
    BY <2>12 DEF StartConnect, Sending
  <2>13. CASE SkipAddress
    BY <2>13 DEF SkipAddress, NewSocket
  <2>14. CASE ConnectFails
    BY <2>14 DEF ConnectFails, NewSocket
  <2> QED BY <1>1, <1>r, <2>1, <2>2, <2>3, <2>4, <2>5, <2>6, <2>7, <2>8, <2>9, <2>10,
         <2>11, <2>12, <2>13, <2>14 DEF Send, Threads
<1>2. CASE Receive
  <2>1. CASE BeginRead
    BY <2>1 DEF BeginRead
  <2>2. CASE ReadPacket
    BY <2>2 DEF ReadPacket
  <2>3. CASE ReadFails
    BY <2>3 DEF ReadFails
  <2>4. CASE ClearTimer
    BY <2>4 DEF ClearTimer, Handling
  <2>5. CASE HandleGarbage
    BY <2>5 DEF HandleGarbage, Readable
  <2>6. CASE HandleConn
    BY <2>6 DEF HandleConn, Handling, Readable
  <2>7. CASE SetHandshake
    BY <2>7 DEF SetHandshake, Handling
  <2>8. CASE HandleBind
    BY <2>8 DEF HandleBind, Handling, Readable
  <2>9. CASE StopReceiving
    BY <2>9 DEF StopReceiving
  <2> QED BY <1>2, <1>r, <2>1, <2>2, <2>3, <2>4, <2>5, <2>6, <2>7, <2>8, <2>9 DEF Receive, Threads
<1>3. CASE Check
  <2>1. CASE CheckTimer
    BY <2>1 DEF CheckTimer
  <2>2. CASE StopChecking
    BY <2>2 DEF StopChecking
  <2> QED BY <1>3, <1>r, <2>1, <2>2 DEF Check, Threads
<1>4. CASE Application
  <2>1. CASE Login
    BY <2>1 DEF Login
  <2>2. CASE Logout
    BY <2>2 DEF Logout
  <2>3. CASE Destroy
    BY <2>3 DEF Destroy
  <2>4. CASE ForbidLogin
    BY <2>4 DEF ForbidLogin
  <2>5. CASE JoinSend
    BY <2>5 DEF JoinSend
  <2>6. CASE JoinRest
    BY <2>6 DEF JoinRest
  <2>7. CASE PushUnbind
    BY <2>7 DEF PushUnbind
  <2> QED BY <1>4, <1>r, <2>1, <2>2, <2>3, <2>4, <2>5, <2>6, <2>7 DEF Application, Finish, Threads
<1>5. CASE Environment
  <2>1. CASE Expire
    BY <2>1 DEF Expire, Fault
  <2>2. CASE Age
    BY <2>2 DEF Age
  <2>3. CASE Break
    BY <2>3 DEF Break, Fault
  <2>4. CASE AnswerConn
    BY <2>4 DEF AnswerConn, Answer, Asked
  <2>5. CASE AnswerPing
    BY <2>5 DEF AnswerPing, Answer, Asked
  <2>6. CASE AcceptBind
    BY <2>6 DEF AcceptBind, Answer, Asked
  <2>7. CASE AnswerUnbind
    BY <2>7 DEF AnswerUnbind, Answer, Asked
  <2>8. CASE Reject
    BY <2>8 DEF Reject, Asked
  <2>9. CASE RefuseBind
    BY <2>9 DEF RefuseBind, Answer, Asked, Fault
  <2>10. CASE Kick
    BY <2>10 DEF Kick, Fault
  <2> QED BY <1>5, <2>1, <2>2, <2>3, <2>4, <2>5, <2>6, <2>7, <2>8, <2>9, <2>10 DEF Environment, Serve
<1>6. CASE UNCHANGED vars
  BY <1>6 DEF vars
<1> QED BY <1>1, <1>2, <1>3, <1>4, <1>5, <1>6 DEF Next

\* While only CONN was written, CONN is the first request.
LEMMA FirstHead ==
  ASSUME toServer \in Seq(Conns), toServer # <<>>
  PROVE  Head(toServer).cmd = "CONN"
<1>1. Head(toServer) \in Conns
  OBVIOUS
<1> QED BY <1>1 DEF Conns

\* Every step keeps CONN the only request until the handshake is through.
LEMMA NextFirst == IInv /\ [Next]_vars => FirstIsConn'
<1> SUFFICES ASSUME IInv, [Next]_vars PROVE FirstIsConn'
  OBVIOUS
<1> USE DEF IInv, FirstIsConn, JustConnected, ResetHasClosed, PacketInHand, TypeOK, Labels, NoPacket,
      Goto, At, Threads, Past, Resets, ResetThen, vars, connVars, loginVars,
      sendVars, recvVars, netVars, history
<1>r. ASSUME NEW t \in Threads, ResetSock(t) PROVE FirstIsConn'
  <2>1. CASE CloseSock(t)
    BY <2>1 DEF CloseSock
  <2>2. CASE Disconnect(t)
    BY <2>2 DEF Disconnect
  <2>3. CASE GoOffline(t)
    BY <2>3 DEF GoOffline
  <2>4. CASE ForgetKey(t)
    BY <2>4 DEF ForgetKey
  <2>5. CASE Disarm(t)
    BY <2>5 DEF Disarm
  <2> QED BY <1>r, <2>1, <2>2, <2>3, <2>4, <2>5 DEF ResetSock
<1>1. CASE Send
  <2>1. CASE Connect
    <3>1. toServer' = <<>> /\ toClient' = <<>> /\ ~bound'
      BY <2>1 DEF Connect, NewSocket
    <3>2. toServer' \in Seq(Conns) /\ toClient' \in Seq({"CONN"})
      BY <3>1
    <3>3. clean' => pc["receive"] \notin {"clear", "decode"}
      BY <2>1 DEF Connect, OthersRest
    <3> QED BY <2>1, <3>1, <3>2, <3>3 DEF Connect, NewSocket
  <2>2. CASE SetSockConnected
    BY <2>2 DEF SetSockConnected, Packet
  <2>3. CASE CheckBind
    BY <2>3 DEF CheckBind, Sending, BindBranch
  <2>4. CASE Bind
    BY <2>4 DEF Bind, Packet
  <2>5. CASE CheckPop
    BY <2>5 DEF CheckPop, Sending, BindBranch
  <2>6. CASE Pop
    BY <2>6 DEF Pop, Packet
  <2>7. CASE Ping
    BY <2>7 DEF Ping, Sending, BindBranch, Packet
  <2>8. CASE Arm
    BY <2>8 DEF Arm
  <2>9. CASE Write
    <3>1. CASE clean /\ sock # "closed" /\ state # "HANDSHAKE_CONNECTED"
      <4>1. out \in Conns
        BY <2>9, <3>1 DEF Write, Conns
      <4>2. Append(toServer, out) \in Seq(Conns)
        BY <3>1, <4>1, AppendType, Zenon
      <4> QED BY <2>9, <3>1, <4>2 DEF Write
    <3> QED BY <2>9, <3>1 DEF Write
  <2>10. CASE WriteFails
    BY <2>10 DEF WriteFails
  <2>11. CASE StopSending
    BY <2>11 DEF StopSending
  <2>12. CASE StartConnect
    BY <2>12 DEF StartConnect, Sending
  <2>13. CASE SkipAddress
    BY <2>13 DEF SkipAddress, NewSocket
  <2>14. CASE ConnectFails
    BY <2>14 DEF ConnectFails, NewSocket
  <2> QED BY <1>1, <1>r, <2>1, <2>2, <2>3, <2>4, <2>5, <2>6, <2>7, <2>8, <2>9, <2>10,
         <2>11, <2>12, <2>13, <2>14 DEF Send, Threads
<1>2. CASE Receive
  <2>1. CASE BeginRead
    BY <2>1 DEF BeginRead
  <2>2. CASE ReadPacket
    BY <2>2 DEF ReadPacket
  <2>3. CASE ReadFails
    BY <2>3 DEF ReadFails
  <2>4. CASE ClearTimer
    BY <2>4 DEF ClearTimer, Handling
  <2>5. CASE HandleGarbage
    BY <2>5 DEF HandleGarbage, Readable
  <2>6. CASE HandleConn
    BY <2>6 DEF HandleConn, Handling, Readable
  <2>7. CASE SetHandshake
    BY <2>7 DEF SetHandshake, Handling
  <2>8. CASE HandleBind
    BY <2>8 DEF HandleBind, Handling, Readable
  <2>9. CASE StopReceiving
    BY <2>9 DEF StopReceiving
  <2> QED BY <1>2, <1>r, <2>1, <2>2, <2>3, <2>4, <2>5, <2>6, <2>7, <2>8, <2>9 DEF Receive, Threads
<1>3. CASE Check
  <2>1. CASE CheckTimer
    BY <2>1 DEF CheckTimer
  <2>2. CASE StopChecking
    BY <2>2 DEF StopChecking
  <2> QED BY <1>3, <1>r, <2>1, <2>2 DEF Check, Threads
<1>4. CASE Application
  <2>1. CASE Login
    BY <2>1 DEF Login
  <2>2. CASE Logout
    BY <2>2 DEF Logout
  <2>3. CASE Destroy
    BY <2>3 DEF Destroy
  <2>4. CASE ForbidLogin
    BY <2>4 DEF ForbidLogin
  <2>5. CASE JoinSend
    BY <2>5 DEF JoinSend
  <2>6. CASE JoinRest
    BY <2>6 DEF JoinRest
  <2>7. CASE PushUnbind
    BY <2>7 DEF PushUnbind
  <2> QED BY <1>4, <1>r, <2>1, <2>2, <2>3, <2>4, <2>5, <2>6, <2>7 DEF Application, Finish, Threads
<1>5. CASE Environment
  <2>1. CASE Expire
    BY <2>1 DEF Expire, Fault
  <2>2. CASE Age
    BY <2>2 DEF Age
  <2>3. CASE Break
    BY <2>3 DEF Break, Fault
  <2>4. CASE AnswerConn
    <3>1. CASE clean /\ sock # "closed" /\ state # "HANDSHAKE_CONNECTED"
      <4>1. Append(toClient, "CONN") \in Seq({"CONN"})
        BY <3>1
      <4>2. toServer' \in Seq(Conns)
        BY <2>4, <3>1 DEF AnswerConn, Answer
      <4> QED BY <2>4, <3>1, <4>1, <4>2 DEF AnswerConn, Answer
    <3> QED BY <2>4, <3>1 DEF AnswerConn, Answer
  <2>5. CASE AnswerPing
    BY <2>5, FirstHead DEF AnswerPing, Answer, Asked
  <2>6. CASE AcceptBind
    BY <2>6, FirstHead DEF AcceptBind, Answer, Asked
  <2>7. CASE AnswerUnbind
    BY <2>7, FirstHead DEF AnswerUnbind, Answer, Asked
  <2>8. CASE Reject
    BY <2>8 DEF Reject, Asked
  <2>9. CASE RefuseBind
    BY <2>9, FirstHead DEF RefuseBind, Answer, Asked
  <2>10. CASE Kick
    BY <2>10 DEF Kick, Fault
  <2> QED BY <1>5, <2>1, <2>2, <2>3, <2>4, <2>5, <2>6, <2>7, <2>8, <2>9, <2>10 DEF Environment, Serve
<1>6. CASE UNCHANGED vars
  BY <1>6 DEF vars
<1> QED BY <1>1, <1>2, <1>3, <1>4, <1>5, <1>6 DEF Next

\* An answer other than BIND_OK leaves no BIND on the wire.
LEMMA AnswerNoBind ==
  ASSUME TypeOK, NoBind, NEW a \in Answers \ {"BIND_OK"}, Answer(a)
  PROVE  /\ \A i \in 1 .. Len(toServer') : toServer'[i].cmd # "BIND"
         /\ \A i \in 1 .. Len(toClient') : toClient'[i] # "BIND_OK"
<1>1. \A i \in 1 .. Len(toServer') : toServer'[i].cmd # "BIND"
  BY DEF TypeOK, NoBind, Answer
<1>2. CASE toClient' = Append(toClient, a)
  <2>1. \A i \in 1 .. Len(toClient') : toClient'[i] # "BIND_OK"
    BY <1>2 DEF TypeOK, NoBind
  <2> QED BY <1>1, <2>1
<1>3. CASE toClient' = toClient
  BY <1>1, <1>3 DEF NoBind
<1> QED BY <1>2, <1>3 DEF Answer

\* No step of a user who has logged out starts a BIND.
LEMMA OfflineStep ==
  IInv /\ ~permitLogin /\ ~online /\ NoBind /\ [Next]_vars => (~online /\ NoBind)'
<1> SUFFICES ASSUME IInv, ~permitLogin, ~online, NoBind, [Next]_vars
             PROVE  (~online /\ NoBind)'
  OBVIOUS
<1> USE DEF IInv, NoBind, PacketInHand, TypeOK, Labels, NoPacket,
      Goto, At, Threads, Past, Resets, ResetThen, vars, connVars, loginVars,
      sendVars, recvVars, netVars, history
<1>r. ASSUME NEW t \in Threads, ResetSock(t) PROVE (~online /\ NoBind)'
  <2>1. CASE CloseSock(t)
    BY <2>1 DEF CloseSock
  <2>2. CASE Disconnect(t)
    BY <2>2 DEF Disconnect
  <2>3. CASE GoOffline(t)
    BY <2>3 DEF GoOffline
  <2>4. CASE ForgetKey(t)
    BY <2>4 DEF ForgetKey
  <2>5. CASE Disarm(t)
    BY <2>5 DEF Disarm
  <2> QED BY <1>r, <2>1, <2>2, <2>3, <2>4, <2>5 DEF ResetSock
<1>1. CASE Send
  <2>1. CASE Connect
    BY <2>1 DEF Connect, NewSocket, OthersRest, Older
  <2>2. CASE SetSockConnected
    BY <2>2 DEF SetSockConnected, Packet
  <2>3. CASE CheckBind
    BY <2>3 DEF CheckBind, Sending, BindBranch
  <2>4. CASE Bind
    BY <2>4 DEF Bind, Packet
  <2>5. CASE CheckPop
    BY <2>5 DEF CheckPop, Sending, BindBranch
  <2>6. CASE Pop
    BY <2>6 DEF Pop, Packet
  <2>7. CASE Ping
    BY <2>7 DEF Ping, Sending, BindBranch, Packet
  <2>8. CASE Arm
    BY <2>8 DEF Arm
  <2>9. CASE Write
    BY <2>9 DEF Write
  <2>10. CASE WriteFails
    BY <2>10 DEF WriteFails
  <2>11. CASE StopSending
    BY <2>11 DEF StopSending
  <2>12. CASE StartConnect
    BY <2>12 DEF StartConnect, Sending
  <2>13. CASE SkipAddress
    BY <2>13 DEF SkipAddress, NewSocket
  <2>14. CASE ConnectFails
    BY <2>14 DEF ConnectFails, NewSocket
  <2> QED BY <1>1, <1>r, <2>1, <2>2, <2>3, <2>4, <2>5, <2>6, <2>7, <2>8, <2>9, <2>10,
         <2>11, <2>12, <2>13, <2>14 DEF Send, Threads
<1>2. CASE Receive
  <2>1. CASE BeginRead
    BY <2>1 DEF BeginRead
  <2>2. CASE ReadPacket
    BY <2>2 DEF ReadPacket
  <2>3. CASE ReadFails
    BY <2>3 DEF ReadFails
  <2>4. CASE ClearTimer
    BY <2>4 DEF ClearTimer, Handling
  <2>5. CASE HandleGarbage
    BY <2>5 DEF HandleGarbage, Readable
  <2>6. CASE HandleConn
    BY <2>6 DEF HandleConn, Handling, Readable
  <2>7. CASE SetHandshake
    BY <2>7 DEF SetHandshake, Handling
  <2>8. CASE HandleBind
    BY <2>8 DEF HandleBind, Handling, Readable
  <2>9. CASE StopReceiving
    BY <2>9 DEF StopReceiving
  <2> QED BY <1>2, <1>r, <2>1, <2>2, <2>3, <2>4, <2>5, <2>6, <2>7, <2>8, <2>9 DEF Receive, Threads
<1>3. CASE Check
  <2>1. CASE CheckTimer
    BY <2>1 DEF CheckTimer
  <2>2. CASE StopChecking
    BY <2>2 DEF StopChecking
  <2> QED BY <1>3, <1>r, <2>1, <2>2 DEF Check, Threads
<1>4. CASE Application
  <2>1. CASE Login
    BY <2>1 DEF Login
  <2>2. CASE Logout
    BY <2>2 DEF Logout
  <2>3. CASE Destroy
    BY <2>3 DEF Destroy
  <2>4. CASE ForbidLogin
    BY <2>4 DEF ForbidLogin
  <2>5. CASE JoinSend
    BY <2>5 DEF JoinSend
  <2>6. CASE JoinRest
    BY <2>6 DEF JoinRest
  <2>7. CASE PushUnbind
    BY <2>7 DEF PushUnbind
  <2> QED BY <1>4, <1>r, <2>1, <2>2, <2>3, <2>4, <2>5, <2>6, <2>7 DEF Application, Finish, Threads
<1>5. CASE Environment
  <2>1. CASE Expire
    BY <2>1 DEF Expire, Fault
  <2>2. CASE Age
    BY <2>2 DEF Age
  <2>3. CASE Break
    BY <2>3 DEF Break, Fault
  <2>4. CASE AnswerConn
    BY <2>4, AnswerNoBind DEF AnswerConn, Answer, Answers, Denials
  <2>5. CASE AnswerPing
    BY <2>5, AnswerNoBind DEF AnswerPing, Answer, Answers, Denials
  <2>6. CASE AcceptBind
    BY <2>6 DEF AcceptBind, Answer, Asked
  <2>7. CASE AnswerUnbind
    BY <2>7, AnswerNoBind DEF AnswerUnbind, Answer, Answers, Denials
  <2>8. CASE Reject
    BY <2>8 DEF Reject, Asked
  <2>9. CASE RefuseBind
    BY <2>9 DEF RefuseBind, Answer, Asked, Fault
  <2>10. CASE Kick
    BY <2>10 DEF Kick, Fault
  <2> QED BY <1>5, <2>1, <2>2, <2>3, <2>4, <2>5, <2>6, <2>7, <2>8, <2>9, <2>10 DEF Environment, Serve
<1>6. CASE UNCHANGED vars
  BY <1>6 DEF vars
<1> QED BY <1>1, <1>2, <1>3, <1>4, <1>5, <1>6 DEF Next

-----------------------------------------------------------------------------
(* OnlineIsBound.                                                           *)

ResetSteps == ReceiverStops /\ ReadsFromOne /\ ResetForgets /\ ResetGoesOffline

\* Every step keeps what a reset leaves behind it.
LEMMA NextReset == BindInv /\ [Next]_vars => ResetSteps'
<1> SUFFICES ASSUME BindInv, [Next]_vars PROVE ResetSteps'
  OBVIOUS
<1>f. TypeOK /\ ResetAfterSend /\ PacketInHand /\ ResetSteps
  BY DEF BindInv, IInv, ResetSteps
<1> USE <1>f DEF ResetSteps, ReceiverStops, ReadsFromOne, WasReset, ResetForgets,
      ResetGoesOffline, ResetAfterSend, PacketInHand, Destroying, Resetting, TypeOK,
      Labels, Answers, Denials, Goto, At, Threads, Past, Resets, ResetThen, vars,
      connVars, loginVars, sendVars, recvVars, netVars, history
<1>r. ASSUME NEW t \in Threads, ResetSock(t) PROVE ResetSteps'
  <2>1. CASE CloseSock(t)
    BY <2>1 DEF CloseSock
  <2>2. CASE Disconnect(t)
    BY <2>2 DEF Disconnect
  <2>3. CASE GoOffline(t)
    BY <2>3 DEF GoOffline
  <2>4. CASE ForgetKey(t)
    BY <2>4 DEF ForgetKey
  <2>5. CASE Disarm(t)
    BY <2>5 DEF Disarm
  <2> QED BY <1>r, <2>1, <2>2, <2>3, <2>4, <2>5 DEF ResetSock
<1>1. CASE Send
  <2>1. CASE Connect
    BY <2>1 DEF Connect, NewSocket, OthersRest, Older
  <2>2. CASE SetSockConnected
    BY <2>2 DEF SetSockConnected, Packet
  <2>3. CASE CheckBind
    BY <2>3 DEF CheckBind, Sending, BindBranch
  <2>4. CASE Bind
    BY <2>4 DEF Bind, Packet
  <2>5. CASE CheckPop
    BY <2>5 DEF CheckPop, Sending, BindBranch
  <2>6. CASE Pop
    BY <2>6 DEF Pop, Packet
  <2>7. CASE Ping
    BY <2>7 DEF Ping, Sending, BindBranch, Packet
  <2>8. CASE Arm
    BY <2>8 DEF Arm
  <2>9. CASE Write
    BY <2>9 DEF Write
  <2>10. CASE WriteFails
    BY <2>10 DEF WriteFails
  <2>11. CASE StopSending
    BY <2>11 DEF StopSending
  <2>12. CASE StartConnect
    BY <2>12 DEF StartConnect, Sending
  <2>13. CASE SkipAddress
    BY <2>13 DEF SkipAddress, NewSocket
  <2>14. CASE ConnectFails
    BY <2>14 DEF ConnectFails, NewSocket
  <2> QED BY <1>1, <1>r, <2>1, <2>2, <2>3, <2>4, <2>5, <2>6, <2>7, <2>8, <2>9, <2>10,
         <2>11, <2>12, <2>13, <2>14 DEF Send, Threads
<1>2. CASE Receive
  <2>1. CASE BeginRead
    BY <2>1 DEF BeginRead
  <2>2. CASE ReadPacket
    BY <2>2 DEF ReadPacket
  <2>3. CASE ReadFails
    BY <2>3 DEF ReadFails
  <2>4. CASE ClearTimer
    BY <2>4 DEF ClearTimer, Handling
  <2>5. CASE HandleGarbage
    BY <2>5 DEF HandleGarbage, Readable
  <2>6. CASE HandleConn
    BY <2>6 DEF HandleConn, Handling, Readable
  <2>7. CASE SetHandshake
    BY <2>7 DEF SetHandshake, Handling
  <2>8. CASE HandleBind
    BY <2>8 DEF HandleBind, Handling, Readable
  <2>9. CASE StopReceiving
    BY <2>9 DEF StopReceiving
  <2> QED BY <1>2, <1>r, <2>1, <2>2, <2>3, <2>4, <2>5, <2>6, <2>7, <2>8, <2>9 DEF Receive, Threads
<1>3. CASE Check
  <2>1. CASE CheckTimer
    BY <2>1 DEF CheckTimer
  <2>2. CASE StopChecking
    BY <2>2 DEF StopChecking
  <2> QED BY <1>3, <1>r, <2>1, <2>2 DEF Check, Threads
<1>4. CASE Application
  <2>1. CASE Login
    BY <2>1 DEF Login
  <2>2. CASE Logout
    BY <2>2 DEF Logout
  <2>3. CASE Destroy
    BY <2>3 DEF Destroy
  <2>4. CASE ForbidLogin
    BY <2>4 DEF ForbidLogin
  <2>5. CASE JoinSend
    BY <2>5 DEF JoinSend
  <2>6. CASE JoinRest
    BY <2>6 DEF JoinRest
  <2>7. CASE PushUnbind
    BY <2>7 DEF PushUnbind
  <2> QED BY <1>4, <1>r, <2>1, <2>2, <2>3, <2>4, <2>5, <2>6, <2>7 DEF Application, Finish, Threads
<1>5. CASE Environment
  <2>1. CASE Expire
    BY <2>1 DEF Expire, Fault
  <2>2. CASE Age
    BY <2>2 DEF Age
  <2>3. CASE Break
    BY <2>3 DEF Break, Fault
  <2>4. CASE AnswerConn
    BY <2>4 DEF AnswerConn, Answer, Asked
  <2>5. CASE AnswerPing
    BY <2>5 DEF AnswerPing, Answer, Asked
  <2>6. CASE AcceptBind
    BY <2>6 DEF AcceptBind, Answer, Asked
  <2>7. CASE AnswerUnbind
    BY <2>7 DEF AnswerUnbind, Answer, Asked
  <2>8. CASE Reject
    BY <2>8 DEF Reject, Asked
  <2>9. CASE RefuseBind
    BY <2>9 DEF RefuseBind, Answer, Asked, Fault
  <2>10. CASE Kick
    BY <2>10 DEF Kick, Fault
  <2> QED BY <1>5, <2>1, <2>2, <2>3, <2>4, <2>5, <2>6, <2>7, <2>8, <2>9, <2>10 DEF Environment, Serve
<1>6. CASE UNCHANGED vars
  BY <1>6 DEF vars
<1> QED BY <1>1, <1>2, <1>3, <1>4, <1>5, <1>6 DEF Next

\* What is read first leaves the rest in order.
LEMMA TailElements ==
  ASSUME NEW S, NEW s \in Seq(S), s # <<>>
  PROVE  /\ Len(Tail(s)) = Len(s) - 1
         /\ \A i \in 1 .. Len(s) - 1 : Tail(s)[i] = s[i + 1]
         /\ Head(s) = s[1] /\ Len(s) \in Nat /\ Len(s) > 0
OBVIOUS

\* What is written last comes behind the rest.
LEMMA AppendElements ==
  ASSUME NEW S, NEW s \in Seq(S), NEW e \in S
  PROVE  /\ Len(Append(s, e)) = Len(s) + 1 /\ Len(s) \in Nat
         /\ \A i \in 1 .. Len(s) : Append(s, e)[i] = s[i]
         /\ Append(s, e)[Len(s) + 1] = e
OBVIOUS

\* A denial that the server writes follows everything it wrote before.
LEMMA DenialAnswered ==
  ASSUME TypeOK, NEW a \in Denials, Answer(a), ReceiverStops, ~Destroying, held' = held
  PROVE  /\ \A i \in 1 .. Len(toClient') : toClient'[i] = "BIND_OK" => Denied(i + 1)'
         /\ Denied(1)'
<1>1. toClient' = Append(toClient, a)
  BY DEF Answer, ReceiverStops
<1>2. a \in Answers /\ toClient \in Seq(Answers) /\ a # "BIND_OK"
  BY DEF TypeOK, Answers, Denials
<1>3. /\ Len(toClient') = Len(toClient) + 1 /\ Len(toClient) \in Nat
      /\ toClient'[Len(toClient) + 1] = a
  BY <1>1, <1>2, AppendElements
<1>4. \A n \in 1 .. Len(toClient') : Denied(n)'
  BY <1>3 DEF Denied
<1>5. \A i \in 1 .. Len(toClient') : toClient'[i] = "BIND_OK" => i + 1 \in 1 .. Len(toClient')
  BY <1>2, <1>3
<1> QED BY <1>3, <1>4, <1>5

\* Any other answer leaves the denials where they were.
LEMMA OtherAnswered ==
  ASSUME TypeOK, NEW a \in {"CONN", "ACK"}, Answer(a)
  PROVE  /\ (\A i \in 1 .. Len(toClient) : toClient[i] = "BIND_OK" => Denied(i + 1)) =>
              \A i \in 1 .. Len(toClient') : toClient'[i] = "BIND_OK" => Denied(i + 1)'
         /\ Denied(1) => Denied(1)'
<1>1. CASE toClient' = Append(toClient, a)
  <2>1. a \in Answers /\ toClient \in Seq(Answers) /\ a # "BIND_OK"
    BY DEF TypeOK, Answers
  <2>2. /\ Len(toClient') = Len(toClient) + 1 /\ Len(toClient) \in Nat
        /\ \A i \in 1 .. Len(toClient) : toClient'[i] = toClient[i]
        /\ toClient'[Len(toClient) + 1] = a
    BY <1>1, <2>1, AppendElements
  <2>3. \A n \in Nat : n > 0 /\ Denied(n) => Denied(n)'
    BY <2>2 DEF Denied
  <2>4. \A i \in 1 .. Len(toClient') : toClient'[i] = "BIND_OK" => i \in 1 .. Len(toClient)
    BY <2>1, <2>2
  <2> QED BY <2>2, <2>3, <2>4
<1>2. CASE toClient' = toClient
  BY <1>2 DEF Denied
<1> QED BY <1>1, <1>2 DEF Answer

\* Every step keeps the denials behind what they deny.
LEMMA NextDenial == BindInv /\ [Next]_vars => DenialFollows'
<1> SUFFICES ASSUME BindInv, [Next]_vars PROVE DenialFollows'
  OBVIOUS
<1>f. /\ TypeOK /\ ResetAfterSend /\ ResetHasClosed /\ PacketInHand /\ HandlesThis
      /\ HandshakeHasKey /\ FirstIsConn /\ ReceiverStops /\ ResetGoesOffline
      /\ DenialFollows
  BY DEF BindInv, IInv
<1> USE <1>f DEF DenialFollows, Denied, Denials, Destroying, TypeOK,
      Labels, Answers, Goto, At, Threads, Past, Resets, ResetThen, vars,
      connVars, loginVars, sendVars, recvVars, netVars, history
<1>r. ASSUME NEW t \in Threads, ResetSock(t) PROVE DenialFollows'
  <2>1. CASE CloseSock(t)
    BY <2>1 DEF CloseSock
  <2>2. CASE Disconnect(t)
    BY <2>2 DEF Disconnect
  <2>3. CASE GoOffline(t)
    BY <2>3 DEF GoOffline
  <2>4. CASE ForgetKey(t)
    BY <2>4 DEF ForgetKey
  <2>5. CASE Disarm(t)
    BY <2>5 DEF Disarm
  <2> QED BY <1>r, <2>1, <2>2, <2>3, <2>4, <2>5 DEF ResetSock
<1>1. CASE Send
  <2>1. CASE Connect
    <3>1. toClient' = <<>> /\ held' = held /\ online' = online /\ pc["send"] = "connecting"
      BY <2>1 DEF Connect, NewSocket
    <3>2. clean' => held = "none"
      BY <2>1 DEF Connect, OthersRest, PacketInHand
    <3>3. ASSUME clean' PROVE ~online
      <4>1. WasReset /\ pc["receive"] # "offline" /\ pc["check"] # "offline"
        BY <2>1, <3>3 DEF Connect, OthersRest, WasReset
      <4>2. pc["app"] # "offline"
        BY <3>1 DEF ResetAfterSend
      <4> QED BY <3>1, <4>1, <4>2 DEF ResetGoesOffline
    <3> QED BY <3>1, <3>2, <3>3
  <2>2. CASE SetSockConnected
    BY <2>2 DEF SetSockConnected, Packet
  <2>3. CASE CheckBind
    BY <2>3 DEF CheckBind, Sending, BindBranch
  <2>4. CASE Bind
    BY <2>4 DEF Bind, Packet
  <2>5. CASE CheckPop
    BY <2>5 DEF CheckPop, Sending, BindBranch
  <2>6. CASE Pop
    BY <2>6 DEF Pop, Packet
  <2>7. CASE Ping
    BY <2>7 DEF Ping, Sending, BindBranch, Packet
  <2>8. CASE Arm
    BY <2>8 DEF Arm
  <2>9. CASE Write
    BY <2>9 DEF Write
  <2>10. CASE WriteFails
    BY <2>10 DEF WriteFails
  <2>11. CASE StopSending
    BY <2>11 DEF StopSending
  <2>12. CASE StartConnect
    BY <2>12 DEF StartConnect, Sending
  <2>13. CASE SkipAddress
    BY <2>13 DEF SkipAddress, NewSocket
  <2>14. CASE ConnectFails
    BY <2>14 DEF ConnectFails, NewSocket
  <2> QED BY <1>1, <1>r, <2>1, <2>2, <2>3, <2>4, <2>5, <2>6, <2>7, <2>8, <2>9, <2>10,
         <2>11, <2>12, <2>13, <2>14 DEF Send, Threads
<1>2. CASE Receive
  <2>1. CASE BeginRead
    BY <2>1 DEF BeginRead
  <2>2. CASE ReadPacket
    <3> SUFFICES ASSUME clean, sock = "open", ~bound, ~Destroying
                 PROVE  DenialFollows'
      BY <2>2 DEF ReadPacket
    <3>1. /\ toClient' = Tail(toClient) /\ held' = toClient[1] /\ held = "none"
          /\ online' = online /\ Len(toClient') = Len(toClient) - 1
          /\ Len(toClient) \in Nat /\ Len(toClient) > 0
          /\ \A i \in 1 .. Len(toClient) - 1 : toClient'[i] = toClient[i + 1]
      BY <2>2, TailElements DEF ReadPacket, PacketInHand
    <3>2. \A n \in Nat : n > 0 /\ Denied(n + 1) => Denied(n)'
      <4> SUFFICES ASSUME NEW n \in Nat, n > 0,
                          NEW j \in n + 1 .. Len(toClient), toClient[j] \in Denials
                   PROVE  Denied(n)'
        BY DEF Denied
      <4>1. j - 1 \in n .. Len(toClient') /\ j - 1 \in 1 .. Len(toClient) - 1
        BY <3>1
      <4>2. toClient'[j - 1] = toClient[j]
        BY <3>1, <4>1
      <4> QED BY <4>1, <4>2 DEF Denied
    <3> HIDE DEF Denied
    <3>2a. Denied(2) => Denied(1)'
      <4>1. Denied(1 + 1) => Denied(1)'
        BY <3>2
      <4>2. 1 + 1 = 2
        OBVIOUS
      <4> QED BY <4>1, <4>2
    <3>2b. \A i \in 1 .. Len(toClient) : toClient[i] = "BIND_OK" => Denied(i + 1)
      OBVIOUS
    <3>2c. toClient[1] = "BIND_OK" => Denied(2)
      <4>1. toClient[1] = "BIND_OK" => Denied(1 + 1)
        BY <3>1, <3>2b
      <4>2. 1 + 1 = 2
        OBVIOUS
      <4> QED BY <4>1, <4>2
    <3>3. held' = "BIND_OK" => Denied(1)'
      BY <3>1, <3>2a, <3>2c
    <3>4. \A i \in 1 .. Len(toClient') : toClient'[i] = "BIND_OK" => Denied(i + 1)'
      <4> SUFFICES ASSUME NEW i \in 1 .. Len(toClient'), toClient'[i] = "BIND_OK"
                   PROVE  Denied(i + 1)'
        OBVIOUS
      <4>1. i + 1 \in 1 .. Len(toClient) /\ toClient[i + 1] = "BIND_OK"
        BY <3>1
      <4>2. Denied((i + 1) + 1) /\ i + 1 \in Nat /\ i + 1 > 0
        BY <3>2b, <4>1
      <4> QED BY <3>2, <4>2
    <3>5. Denied(1) => held' \in Denials \/ Denied(2)
      BY <3>1 DEF Denied
    <3>6. online' => held' \in Denials \/ Denied(1)'
      BY <3>1, <3>2a, <3>5
    <3> QED BY <3>3, <3>4, <3>6
  <2>3. CASE ReadFails
    BY <2>3 DEF ReadFails
  <2>4. CASE ClearTimer
    BY <2>4 DEF ClearTimer, Handling
  <2>5. CASE HandleGarbage
    <3>1. clean /\ sock = "open" => held \notin Denials
      BY <2>5 DEF HandleGarbage, Readable, FirstIsConn, HandshakeHasKey, HandlesThis
    <3> QED BY <2>5, <3>1 DEF HandleGarbage
  <2>6. CASE HandleConn
    BY <2>6 DEF HandleConn, Handling, Readable
  <2>7. CASE SetHandshake
    BY <2>7 DEF SetHandshake, Handling
  <2>8. CASE HandleBind
    BY <2>8 DEF HandleBind, Handling, Readable
  <2>9. CASE StopReceiving
    BY <2>9 DEF StopReceiving
  <2> QED BY <1>2, <1>r, <2>1, <2>2, <2>3, <2>4, <2>5, <2>6, <2>7, <2>8, <2>9 DEF Receive, Threads
<1>3. CASE Check
  <2>1. CASE CheckTimer
    BY <2>1 DEF CheckTimer
  <2>2. CASE StopChecking
    BY <2>2 DEF StopChecking
  <2> QED BY <1>3, <1>r, <2>1, <2>2 DEF Check, Threads
<1>4. CASE Application
  <2>1. CASE Login
    BY <2>1 DEF Login
  <2>2. CASE Logout
    BY <2>2 DEF Logout
  <2>3. CASE Destroy
    BY <2>3 DEF Destroy
  <2>4. CASE ForbidLogin
    BY <2>4 DEF ForbidLogin
  <2>5. CASE JoinSend
    BY <2>5 DEF JoinSend
  <2>6. CASE JoinRest
    BY <2>6 DEF JoinRest
  <2>7. CASE PushUnbind
    BY <2>7 DEF PushUnbind
  <2> QED BY <1>4, <1>r, <2>1, <2>2, <2>3, <2>4, <2>5, <2>6, <2>7 DEF Application, Finish, Threads
<1>5. CASE Environment
  <2>1. CASE Expire
    BY <2>1 DEF Expire, Fault
  <2>2. CASE Age
    BY <2>2 DEF Age
  <2>3. CASE Break
    BY <2>3 DEF Break, Fault
  <2>4. CASE AnswerConn
    BY <2>4, OtherAnswered DEF AnswerConn, Answer
  <2>5. CASE AnswerPing
    BY <2>5, OtherAnswered DEF AnswerPing, Answer
  <2>6. CASE AcceptBind
    BY <2>6 DEF AcceptBind, Answer, Asked
  <2>7. CASE AnswerUnbind
    BY <2>7, DenialAnswered DEF AnswerUnbind, Answer
  <2>8. CASE Reject
    BY <2>8 DEF Reject, Asked
  <2>9. CASE RefuseBind
    BY <2>9, DenialAnswered DEF RefuseBind, Answer
  <2>10. CASE Kick
    BY <2>10, SMTT(30) DEF Kick, Fault
  <2> QED BY <1>5, <2>1, <2>2, <2>3, <2>4, <2>5, <2>6, <2>7, <2>8, <2>9, <2>10 DEF Environment, Serve
<1>6. CASE UNCHANGED vars
  BY <1>6 DEF vars
<1> QED BY <1>1, <1>2, <1>3, <1>4, <1>5, <1>6 DEF Next

\* A user starts without a connection.
LEMMA InitInv == Init => IInv
<1> SUFFICES ASSUME Init PROVE IInv
  OBVIOUS
<1> USE BoundsAssumption DEF Init, At, Threads, Labels, Resets, Past, NoPacket
<1>1. FlagsOK
  BY Zenon DEF FlagsOK
<1>2. TypeOK
  BY <1>1 DEF TypeOK, Keys, Requests, Answers, Denials
<1>3. Control
  BY DEF Control, ResetAfterSend, ResetHasClosed, ClosedOrConnected, ConnectedIsClosed,
     PacketInHand, HandlesThis, ShakesWithKey, HandshakeHasKey, WaitsWatched, JustConnected
<1>4. FirstIsConn
  BY DEF FirstIsConn
<1> QED BY <1>2, <1>3, <1>4 DEF IInv, Control

\* The invariant holds in every reachable state.
THEOREM Invariance == Spec => []IInv
<1>1. IInv /\ [Next]_vars => IInv'
  BY NextType, NextControl, NextFirst DEF IInv, Control
<1> QED BY <1>1, InitInv, PTL DEF Spec

\* Type correctness of the frontend connection.
THEOREM TypeCorrect == Spec => []TypeOK
<1>1. IInv => TypeOK
  BY DEF IInv
<1> QED BY <1>1, Invariance, PTL

\* The socket of a clean connection is closed when connect() makes the next.
THEOREM SocketsAreClosed == Spec => []ConnectedIsClosed
<1>1. IInv => ConnectedIsClosed
  BY DEF IInv
<1> QED BY <1>1, Invariance, PTL

\* The key of a connection that is through its handshake is its own.
THEOREM KeysMatch == Spec => []HandshakeHasKey
<1>1. IInv => HandshakeHasKey
  BY DEF IInv
<1> QED BY <1>1, Invariance, PTL

\* Whoever waits for the handshake is watched by the timer.
THEOREM HandshakesWatched == Spec => []HandshakeIsWatched
<1>1. IInv => HandshakeIsWatched
  BY DEF IInv, TypeOK, WaitsWatched, HandshakeIsWatched, At
<1> QED BY <1>1, Invariance, PTL

\* A user who has logged out does not bind again of its own accord.
THEOREM OfflineIsKept == Spec => OfflineStays
<1>1. IInv /\ [Next]_vars => [~permitLogin /\ ~online /\ NoBind => ~online' /\ NoBind']_vars
  BY OfflineStep
<1> QED BY <1>1, Invariance, PTL DEF Spec, OfflineStays

\* The invariant for OnlineIsBound holds in every reachable state.
LEMMA BindInvariance == Spec => []BindInv
<1>1. Init => BindInv
  <2>1. ASSUME Init PROVE ResetSteps /\ DenialFollows
    BY <2>1 DEF Init, ResetSteps, ReceiverStops, ReadsFromOne, WasReset, ResetForgets,
       ResetGoesOffline, DenialFollows, At, Threads
  <2> QED BY <2>1, InitInv DEF BindInv, ResetSteps
<1>2. BindInv /\ [Next]_vars => BindInv'
  BY NextType, NextControl, NextFirst, NextReset, NextDenial
     DEF BindInv, IInv, Control, ResetSteps
<1> QED BY <1>1, <1>2, PTL DEF Spec

\* Who is online is bound, or is about to hear that it is not.
THEOREM OnlineMeansBound == Spec => []OnlineIsBound
<1>1. BindInv => OnlineIsBound
  BY DEF BindInv, DenialFollows, Denied, OnlineIsBound
<1> QED BY <1>1, BindInvariance, PTL

=============================================================================
