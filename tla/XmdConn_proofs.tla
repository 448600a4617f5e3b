--------------------------- MODULE XmdConn_proofs ---------------------------
(***************************************************************************)
(* Proofs about XmdConn for any number of resends, however often the       *)
(* connection is made and whatever the network holds.                      *)
(***************************************************************************)
EXTENDS XmdConn, TLAPS

\* Sending adds at most the packet that was sent; taking adds nothing.
LEMMA SendAdds ==
  ASSUME NEW type, NEW to, Send(type, to)
  PROVE  net' \subseteq net \union {Packet(type, to)}
BY DEF Send, With

LEMMA TakeAdds ==
  ASSUME NEW type, NEW e, Take(type, e)
  PROVE  net' \subseteq net
BY DEF Take, Kept

LEMMA TakeAndSendAdds ==
  ASSUME NEW type, NEW e, NEW answer, NEW to, TakeAndSend(type, e, answer, to)
  PROVE  net' \subseteq net \union {Packet(answer, to)}
BY DEF TakeAndSend, Kept, With

\* The packets the handlers send.
LEMMA PacketFacts ==
  /\ Packet("CONN_BEGIN", "acceptor") \in Packets
  /\ Packet("CONN_RESP", "creator") \in Packets
  /\ \A e \in Ends : \A type \in {"CONN_CLOSE", "CONN_RESET", "PING", "PONG"} :
       Packet(type, e) \in Packets /\ Packet(type, Peer(e)) \in Packets
  /\ \A e \in Ends : Peer(e) \in Ends /\ Peer(Peer(e)) = e /\ Peer(e) # e
  /\ \A type, e : Packet(type, e).type = type /\ Packet(type, e).to = e
BY DEF Packets, Packet, Ends, Peer

LEMMA InitInv == Init => IInv
<1> SUFFICES ASSUME Init PROVE IInv
  OBVIOUS
<1>1. TypeOK
  BY ResendsAssumption DEF Init, TypeOK
<1>2. OpenIsWatched /\ ApplicationKnows
  BY DEF Init, OpenIsWatched, ApplicationKnows
<1>3. OneCreation /\ PeerAccepted /\ EndHasCause
  BY DEF Init, OneCreation, PeerAccepted, EndHasCause, Ends
<1> QED BY <1>1, <1>2, <1>3 DEF IInv

LEMMA NextType == TypeOK /\ [Next]_vars => TypeOK'
<1> SUFFICES ASSUME TypeOK, [Next]_vars PROVE TypeOK'
  OBVIOUS
<1> USE ResendsAssumption DEF TypeOK, creation, ends, seen
<1>ends. "creator" \in Ends /\ "acceptor" \in Ends
  BY DEF Ends
<1>1. CASE CreateConnection
  BY <1>1 DEF CreateConnection
<1>2. CASE HandleCreate
  <2>1. left' \in 0 .. Resends
    BY <1>2 DEF HandleCreate
  <2>2. conn' \in [Ends -> {"none", "CONNECTING", "CONNECTED"}]
    BY <1>2 DEF HandleCreate
  <2> QED BY <1>2, <2>1, <2>2 DEF HandleCreate
<1>3. CASE SendBegin
  <2>1. net' \subseteq Packets
    BY <1>3, SendAdds, PacketFacts DEF SendBegin
  <2> QED BY <1>3, <2>1 DEF SendBegin
<1>4. CASE ResendTimer
  <2>1. left' \in 0 .. Resends
    BY <1>4 DEF ResendTimer, DropBegin, StopBegin, FailBegin, ResendBegin
  <2>2. CASE FailBegin
    BY <2>1, <2>2, <1>ends DEF FailBegin, DeleteConn
  <2>3. CASE DropBegin \/ StopBegin \/ ResendBegin
    BY <2>1, <2>3 DEF DropBegin, StopBegin, ResendBegin
  <2> QED BY <1>4, <2>2, <2>3 DEF ResendTimer
<1>5. CASE HandleNewConn
  <2>1. net' \subseteq Packets
    BY <1>5, TakeAndSendAdds, PacketFacts DEF HandleNewConn
  <2> QED BY <1>5, <2>1, <1>ends DEF HandleNewConn, StartConn
<1>6. CASE HandleConnResp
  <2>1. net' \subseteq Packets
    BY <1>6, <1>ends, TakeAdds, TakeAndSendAdds, PacketFacts DEF HandleConnResp
  <2>2. recvAck' \in {"none", "no", "yes"}
    BY <1>6 DEF HandleConnResp
  <2>6. info' \subseteq {0}
    BY <1>6 DEF HandleConnResp
  <2>7. succ' \in Nat
    BY <1>6 DEF HandleConnResp
  <2>3. conn' \in [Ends -> {"none", "CONNECTING", "CONNECTED"}]
    BY <1>6 DEF HandleConnResp, StartConn
  <2>4. heard' \in [Ends -> {"never", "lately", "silent"}]
    BY <1>6 DEF HandleConnResp
  <2>5. /\ pings' \in [Ends -> Nat] /\ checks' \in [Ends -> Nat]
        /\ told' \in [Ends -> {"nothing", "open", "ended"}]
    BY <1>6 DEF HandleConnResp, StartConn
  <2> QED BY <1>6, <2>1, <2>2, <2>3, <2>4, <2>5, <2>6, <2>7 DEF HandleConnResp
<1>7. ASSUME NEW e \in Ends, EndNext(e) PROVE TypeOK'
  <2>1. CASE CloseConnection(e)
    <3>1. net' \subseteq Packets
      BY <2>1, SendAdds, PacketFacts DEF CloseConnection
    <3> QED BY <2>1, <3>1 DEF CloseConnection, DeleteConn
  <2>2. CASE HandleConnClose(e)
    <3>1. net' \subseteq Packets
      BY <2>2, TakeAdds DEF HandleConnClose
    <3> QED BY <2>2, <3>1 DEF HandleConnClose, DeleteConn
  <2>3. CASE HandleConnReset(e)
    <3>1. net' \subseteq Packets
      BY <2>3, TakeAdds DEF HandleConnReset
    <3> QED BY <2>3, <3>1 DEF HandleConnReset, DeleteConn
  <2>4. CASE HandleCheckConn(e)
    <3>1. checks' \in [Ends -> Nat]
      BY <2>4 DEF HandleCheckConn
    <3> QED BY <2>4, <3>1 DEF HandleCheckConn, DeleteConn
  <2>9. CASE Silence(e)
    BY <2>9 DEF Silence
  <2>5. CASE HandlePingTimeout(e)
    <3>1. net' \subseteq Packets
      BY <2>5, SendAdds, PacketFacts DEF HandlePingTimeout
    <3> QED BY <2>5, <3>1 DEF HandlePingTimeout
  <2>6. ASSUME NEW type \in {"PING", "PONG"}, Refuse(type, e) PROVE TypeOK'
    <3>1. net' \subseteq Packets
      BY <2>6, TakeAndSendAdds, PacketFacts DEF Refuse
    <3> QED BY <2>6, <3>1 DEF Refuse
  <2>7. CASE HandlePing(e) \/ HandlePong(e)
    <3>1. net' \subseteq Packets
      BY <2>7, TakeAdds DEF HandlePing, HandlePong
    <3> QED BY <2>7, <3>1 DEF HandlePing, HandlePong
  <2>8. CASE HandlePongTimeout(e)
    <3>1. net' \subseteq Packets
      BY <2>8, SendAdds, PacketFacts DEF HandlePongTimeout
    <3> QED BY <2>8, <3>1 DEF HandlePongTimeout
  <2> QED BY <1>7, <2>1, <2>2, <2>3, <2>4, <2>5, <2>6, <2>7, <2>8, <2>9 DEF EndNext
<1>8. ASSUME NEW p \in Packets, Lose(p) PROVE TypeOK'
  BY <1>8 DEF Lose
<1>9. CASE UNCHANGED vars
  BY <1>9 DEF vars
<1> QED BY <1>1, <1>2, <1>3, <1>4, <1>5, <1>6, <1>7, <1>8, <1>9 DEF Next

\* Timers are only lost with their connection, and callbacks follow it.
LEMMA NextWatched ==
  ASSUME IInv, [Next]_vars
  PROVE  OpenIsWatched' /\ ApplicationKnows'
<1> USE DEF IInv, TypeOK, OpenIsWatched, ApplicationKnows, creation, ends, seen
<1>ends. "creator" \in Ends /\ "acceptor" \in Ends
  BY DEF Ends
<1>1. CASE CreateConnection \/ SendBegin \/ (\E p \in Packets : Lose(p)) \/ UNCHANGED vars
  BY <1>1 DEF CreateConnection, SendBegin, Lose, vars
<1>2. CASE HandleCreate
  BY <1>2, <1>ends DEF HandleCreate, OneCreation
<1>3. CASE ResendTimer
  BY <1>3, <1>ends DEF ResendTimer, DropBegin, StopBegin, FailBegin, ResendBegin, DeleteConn
<1>4. CASE HandleNewConn
  BY <1>4, <1>ends DEF HandleNewConn, StartConn
<1>5. CASE HandleConnResp
  BY <1>5, <1>ends DEF HandleConnResp, StartConn
<1>6. ASSUME NEW e \in Ends, EndNext(e) PROVE OpenIsWatched' /\ ApplicationKnows'
  <2>1. CASE CloseConnection(e)
    BY <2>1 DEF CloseConnection, DeleteConn
  <2>2. CASE HandleConnClose(e) \/ HandleConnReset(e)
    BY <2>2 DEF HandleConnClose, HandleConnReset, DeleteConn
  <2>3. CASE HandleCheckConn(e) \/ Silence(e)
    BY <2>3 DEF HandleCheckConn, Silence, DeleteConn
  <2>4. CASE HandlePingTimeout(e) \/ HandlePongTimeout(e)
    BY <2>4 DEF HandlePingTimeout, HandlePongTimeout
  <2>5. CASE Refuse("PING", e) \/ Refuse("PONG", e) \/ HandlePing(e) \/ HandlePong(e)
    BY <2>5 DEF Refuse, HandlePing, HandlePong
  <2> QED BY <1>6, <2>1, <2>2, <2>3, <2>4, <2>5 DEF EndNext
<1> QED BY <1>1, <1>2, <1>3, <1>4, <1>5, <1>6 DEF Next

\* Nothing happens before the creation is handled, and every packet, answer
\* and end has its reason.
LEMMA NextCause ==
  ASSUME IInv, [Next]_vars
  PROVE  OneCreation' /\ PeerAccepted' /\ EndHasCause'
<1> USE PacketFacts
    DEF IInv, TypeOK, OneCreation, PeerAccepted, EndHasCause, creation, ends, seen
<1>ends. "creator" \in Ends /\ "acceptor" \in Ends /\ \A e \in Ends : e \in {"creator", "acceptor"}
  BY DEF Ends
<1> DEFINE Goal == OneCreation' /\ PeerAccepted' /\ EndHasCause'
<1>1. CASE CreateConnection \/ UNCHANGED vars
  BY <1>1 DEF CreateConnection, vars
<1>2. CASE HandleCreate
  BY <1>2, <1>ends DEF HandleCreate
<1>3. CASE SendBegin
  <2>1. net' \subseteq net \union {Packet("CONN_BEGIN", "acceptor")}
    BY <1>3, SendAdds DEF SendBegin
  <2> QED BY <1>3, <2>1 DEF SendBegin
<1>4. CASE ResendTimer
  <2>1. CASE FailBegin
    <3>1. UNCHANGED conn \/ gaveUp' # {}
      BY <2>1 DEF FailBegin
    <3>2. \A e \in Ends : conn'[e] \in {conn[e], "none"}
      BY <2>1 DEF FailBegin, DeleteConn
    <3>3. create = "handled"
      BY <2>1 DEF FailBegin
    <3>4. UNCHANGED <<create, pings, net, accepts, succ>> /\ gaveUp \subseteq gaveUp'
      BY <2>1 DEF FailBegin
    <3>5. conn["creator"] = "CONNECTING" /\ (conn'["creator"] = "CONNECTING" => UNCHANGED fail)
      BY <2>1, <1>ends DEF FailBegin, DeleteConn
    <3> QED BY <3>1, <3>2, <3>3, <3>4, <3>5, <1>ends
  <2>2. CASE DropBegin \/ StopBegin \/ ResendBegin
    BY <2>2 DEF DropBegin, StopBegin, ResendBegin
  <2> QED BY <1>4, <2>1, <2>2 DEF ResendTimer
<1>5. CASE HandleNewConn
  <2>1. net' \subseteq net \union {Packet("CONN_RESP", "creator")}
    BY <1>5, TakeAndSendAdds DEF HandleNewConn
  <2>2. accepts' > 0
    BY <1>5 DEF HandleNewConn, Arrives
  <2> QED BY <1>5, <2>1, <2>2, <1>ends DEF HandleNewConn, StartConn, Arrives
<1>6. CASE HandleConnResp
  <2>1. net' \subseteq net \union {Packet("CONN_RESET", "acceptor")}
    BY <1>6, TakeAdds, TakeAndSendAdds DEF HandleConnResp
  <2>2. accepts > 0 /\ create = "handled"
    BY <1>6 DEF HandleConnResp, Arrives
  <2>3. conn["creator"] # "none" => net' \subseteq net
    BY <1>6, TakeAdds DEF HandleConnResp
  <2> QED BY <1>6, <2>1, <2>2, <2>3, <1>ends DEF HandleConnResp, StartConn
<1>7. ASSUME NEW e \in Ends, EndNext(e) PROVE Goal
  <2>1. CASE CloseConnection(e)
    <3>1. net' \subseteq net \union {Packet("CONN_CLOSE", Peer(e))}
      BY <2>1, SendAdds DEF CloseConnection
    <3> QED BY <2>1, <3>1, <1>ends DEF CloseConnection, DeleteConn
  <2>2. CASE HandleConnClose(e)
    <3>1. net' \subseteq net /\ gaveUp # {} /\ create = "handled"
      BY <2>2, TakeAdds DEF HandleConnClose, Arrives
    <3> QED BY <2>2, <3>1, <1>ends DEF HandleConnClose, DeleteConn
  <2>3. CASE HandleConnReset(e)
    <3>1. net' \subseteq net /\ gaveUp # {} /\ create = "handled"
      BY <2>3, TakeAdds DEF HandleConnReset, Arrives
    <3> QED BY <2>3, <3>1, <1>ends DEF HandleConnReset, DeleteConn
  <2>4. CASE HandleCheckConn(e)
    <3>1. CASE conn[e] = "none"
      BY <2>4, <3>1 DEF HandleCheckConn
    <3>2. CASE conn[e] # "none"
      <4>1. gaveUp' # {}
        BY <2>4, <3>2 DEF HandleCheckConn
      <4>2. \A x \in Ends : conn'[x] \in {conn[x], "none"}
        BY <2>4, <3>2 DEF HandleCheckConn, DeleteConn
      <4>3. create = "handled"
        BY <3>2
      <4>4. UNCHANGED <<create, pings, net, accepts, succ, fail>>
        BY <2>4 DEF HandleCheckConn
      <4> QED BY <4>1, <4>2, <4>3, <4>4, <1>ends
    <3> QED BY <3>1, <3>2
  <2>9. CASE Silence(e)
    BY <2>9 DEF Silence
  <2>5. CASE HandlePingTimeout(e)
    <3>1. conn[e] # "none" => net' \subseteq net \union {Packet("PING", Peer(e))}
      BY <2>5, SendAdds DEF HandlePingTimeout
    <3>2. conn[e] = "none" => net' = net
      BY <2>5 DEF HandlePingTimeout
    <3>3. conn[e] # "none" => accepts > 0 /\ create = "handled"
      BY <2>5, <1>ends DEF HandlePingTimeout
    <3> QED BY <2>5, <3>1, <3>2, <3>3, <1>ends DEF HandlePingTimeout
  <2>6. ASSUME NEW type \in {"PING", "PONG"}, Refuse(type, e) PROVE Goal
    <3>1. net' \subseteq net \union {Packet("CONN_RESET", Peer(e))}
      BY <2>6, TakeAndSendAdds DEF Refuse
    <3>2. gaveUp # {}
      BY <2>6, <1>ends DEF Refuse, Arrives
    <3>3. create = "handled"
      BY <2>6 DEF Refuse, Arrives
    <3> QED BY <2>6, <3>1, <3>2, <3>3 DEF Refuse
  <2>7. CASE HandlePing(e) \/ HandlePong(e)
    <3>1. net' \subseteq net
      BY <2>7, TakeAdds DEF HandlePing, HandlePong
    <3> QED BY <2>7, <3>1 DEF HandlePing, HandlePong
  <2>8. CASE HandlePongTimeout(e)
    <3>1. conn[e] = "CONNECTED" => net' \subseteq net \union {Packet("PONG", Peer(e))}
      BY <2>8, SendAdds DEF HandlePongTimeout
    <3>2. conn[e] # "CONNECTED" => net' = net
      BY <2>8 DEF HandlePongTimeout
    <3>3. conn[e] = "CONNECTED" => accepts > 0 /\ create = "handled"
      BY <1>ends
    <3> QED BY <2>8, <3>1, <3>2, <3>3 DEF HandlePongTimeout
  <2> QED BY <1>7, <2>1, <2>2, <2>3, <2>4, <2>5, <2>6, <2>7, <2>8, <2>9 DEF EndNext
<1>8. ASSUME NEW p \in Packets, Lose(p) PROVE Goal
  BY <1>8 DEF Lose
<1> QED BY <1>1, <1>2, <1>3, <1>4, <1>5, <1>6, <1>7, <1>8 DEF Next

THEOREM InductiveInvariant == Spec => []IInv
<1>1. Init => IInv
  BY InitInv
<1>2. IInv /\ [Next]_vars => IInv'
  BY NextType, NextWatched, NextCause DEF IInv
<1> QED BY <1>1, <1>2, PTL DEF Spec

\* The maps, timers and the network hold what they are declared to hold.
THEOREM TypeCorrect == Spec => []TypeOK
BY InductiveInvariant, PTL DEF IInv

\* No open connection is without a ping timer, a check timer and a time of
\* its last packet: a silent peer is always noticed.
THEOREM OpenIsAlwaysWatched == Spec => []OpenIsWatched
BY InductiveInvariant, PTL DEF IInv

\* However handshake, close, reset and silence interleave, what the
\* application was told last is true unless it closed the connection itself.
THEOREM CallbacksFollow == Spec => []ApplicationKnows
BY InductiveInvariant, PTL DEF IInv

\* How the views follow the state.
LEMMA Views ==
  ASSUME TypeOK
  PROVE  /\ create = "idle" => CreatorView = "idle"
         /\ create = "queued" => CreatorView = "asked"
         /\ create = "handled" =>
              /\ conn["creator"] = "CONNECTING" => CreatorView = "asked"
              /\ conn["creator"] = "CONNECTED" => CreatorView = "up"
              /\ conn["creator"] = "none" => CreatorView = "over"
         /\ conn["acceptor"] # "none" => AcceptorView = "up"
         /\ conn["acceptor"] = "none" /\ accepts = 0 => AcceptorView = "idle"
         /\ conn["acceptor"] = "none" /\ accepts > 0 => AcceptorView = "over"
BY DEF CreatorView, AcceptorView, TypeOK

\* An end that has the connection loses it.
LEMMA Ending ==
  ASSUME IInv, TypeOK', NEW e \in Ends, conn[e] # "none",
         conn' = [conn EXCEPT ![e] = "none"],
         UNCHANGED <<create, accepts, succ, fail>>
  PROVE  Lifecycle!Over(e)
<1> USE DEF IInv, TypeOK, OneCreation, PeerAccepted
<1>1. create = "handled"
  OBVIOUS
<1>2. CASE e = "creator"
  <2>1. conn'["creator"] = "none" /\ conn'["acceptor"] = conn["acceptor"]
    BY <1>2 DEF Ends
  <2>2. CreatorView \in {"asked", "up"} /\ CreatorView' = "over"
    BY <1>1, <1>2, <2>1, Views DEF CreatorView, Ends
  <2>3. AcceptorView' = AcceptorView
    BY <2>1 DEF AcceptorView
  <2> QED BY <1>2, <2>2, <2>3 DEF Lifecycle!Over
<1>3. CASE e = "acceptor"
  <2>1. conn'["acceptor"] = "none" /\ conn'["creator"] = conn["creator"] /\ accepts > 0
    BY <1>3 DEF Ends
  <2>2. AcceptorView = "up" /\ AcceptorView' = "over"
    BY <1>3, <2>1 DEF AcceptorView
  <2>3. CreatorView' = CreatorView
    BY <2>1 DEF CreatorView
  <2> QED BY <1>3, <2>2, <2>3 DEF Lifecycle!Over
<1> QED BY <1>2, <1>3 DEF Ends

\* Every step of the connection is a step of ConnLifecycle or a stutter.
LEMMA StepImplements ==
  ASSUME IInv, IInv', [Next]_vars
  PROVE  [Lifecycle!Next]_(Lifecycle!vars)
<1> USE PacketFacts DEF creation, ends, seen
<1>types. TypeOK /\ TypeOK'
  BY DEF IInv
<1>ends. "creator" \in Ends /\ "acceptor" \in Ends /\ Ends = Lifecycle!Ends
  BY DEF Ends, Lifecycle!Ends
<1>same. CASE UNCHANGED <<create, conn, accepts, gaveUp, succ, fail>>
  BY <1>same DEF Lifecycle!vars, CreatorView, AcceptorView
<1>gone. ASSUME NEW e \in Ends, DeleteConn(e), gaveUp # {},
                UNCHANGED <<create, accepts, gaveUp, succ, fail>>
         PROVE  [Lifecycle!Next]_(Lifecycle!vars)
  <2>1. CASE conn[e] = "none"
    <3>1. conn' = conn
      BY <1>gone, <2>1, <1>types DEF DeleteConn, TypeOK
    <3> QED BY <1>gone, <3>1, <1>same
  <2>2. CASE conn[e] # "none"
    <3>1. Lifecycle!Follow(e)
      BY <1>gone, <2>2, <1>types, Ending DEF DeleteConn, Lifecycle!Follow
    <3> QED BY <3>1, <1>ends DEF Lifecycle!Next
  <2> QED BY <2>1, <2>2
<1>gives. ASSUME NEW e \in Ends, conn[e] # "none", DeleteConn(e),
                 gaveUp' = gaveUp \union {e}, UNCHANGED <<create, accepts, succ, fail>>
          PROVE  [Lifecycle!Next]_(Lifecycle!vars)
  <2>1. Lifecycle!GiveUp(e)
    BY <1>gives, <1>types, Ending DEF DeleteConn, Lifecycle!GiveUp
  <2> QED BY <2>1, <1>ends DEF Lifecycle!Next
<1>1. CASE CreateConnection
  <2>1. CreatorView = "idle" /\ CreatorView' = "asked" /\ AcceptorView' = AcceptorView
    BY <1>1, <1>types, Views DEF CreateConnection, CreatorView, AcceptorView
  <2>2. Lifecycle!Ask
    BY <1>1, <2>1 DEF CreateConnection, Lifecycle!Ask
  <2> QED BY <2>2 DEF Lifecycle!Next
<1>2. CASE HandleCreate
  <2>1. conn'["creator"] = "CONNECTING" /\ conn'["acceptor"] = conn["acceptor"]
    BY <1>2, <1>ends, <1>types DEF HandleCreate, TypeOK
  <2>2. CreatorView' = CreatorView /\ AcceptorView' = AcceptorView
    BY <1>2, <2>1 DEF HandleCreate, CreatorView, AcceptorView
  <2> QED BY <1>2, <2>2 DEF HandleCreate, Lifecycle!vars
<1>3. CASE FailBegin
  <2>1. CASE info = {}
    BY <1>3, <2>1, <1>same DEF FailBegin
  <2>2. CASE info # {}
    <3>1. /\ conn["creator"] = "CONNECTING" /\ conn'["creator"] = "none"
          /\ conn'["acceptor"] = conn["acceptor"]
      BY <1>3, <2>2, <1>ends, <1>types DEF FailBegin, DeleteConn, TypeOK
    <3>2. create = "handled" /\ create' = create /\ succ = 0 /\ fail = 0
      BY <1>3, <3>1, <1>ends DEF FailBegin, IInv, OneCreation
    <3>3. CreatorView = "asked" /\ CreatorView' = "over" /\ AcceptorView' = AcceptorView
      BY <1>3, <3>1, <3>2 DEF FailBegin, CreatorView, AcceptorView
    <3>4. Lifecycle!Fail
      BY <1>3, <2>2, <3>2, <3>3 DEF FailBegin, Lifecycle!Fail
    <3> QED BY <3>4 DEF Lifecycle!Next
  <2> QED BY <2>1, <2>2
<1>4. CASE HandleNewConn
  <2>1. CASE conn["acceptor"] # "none"
    BY <1>4, <2>1, <1>same DEF HandleNewConn
  <2>2. CASE conn["acceptor"] = "none"
    <3>1. conn'["acceptor"] = "CONNECTED" /\ conn'["creator"] = conn["creator"]
      BY <1>4, <2>2, <1>ends, <1>types DEF HandleNewConn, StartConn, TypeOK
    <3>2. create = "handled"
      BY <1>4 DEF HandleNewConn, Arrives, IInv, OneCreation, TypeOK
    <3>3. CreatorView' = CreatorView /\ CreatorView # "idle"
      BY <1>4, <3>1, <3>2 DEF HandleNewConn, CreatorView
    <3>4. AcceptorView # "up" /\ AcceptorView' = "up"
      BY <2>2, <3>1 DEF AcceptorView
    <3>5. Lifecycle!Accept
      BY <1>4, <3>3, <3>4 DEF HandleNewConn, Lifecycle!Accept
    <3> QED BY <3>5 DEF Lifecycle!Next
  <2> QED BY <2>1, <2>2
<1>5. CASE HandleConnResp
  <2>1. CASE UNCHANGED <<conn, succ>>
    BY <1>5, <2>1, <1>same DEF HandleConnResp
  <2>2. CASE ~UNCHANGED <<conn, succ>>
    <3>1. conn["creator"] = "CONNECTING" /\ StartConn("creator") /\ succ' = succ + 1
      BY <1>5, <2>2 DEF HandleConnResp
    <3>2. conn'["creator"] = "CONNECTED" /\ conn'["acceptor"] = conn["acceptor"]
      BY <3>1, <1>ends, <1>types DEF StartConn, TypeOK
    <3>3. create = "handled" /\ succ = 0 /\ fail = 0 /\ accepts > 0
      BY <1>5, <3>1, <1>ends DEF HandleConnResp, Arrives, IInv, OneCreation, PeerAccepted
    <3>4. CreatorView = "asked" /\ CreatorView' = "up"
      BY <1>5, <3>1, <3>2, <3>3 DEF HandleConnResp, CreatorView
    <3>5. AcceptorView' = AcceptorView /\ AcceptorView # "idle"
      BY <1>5, <3>2, <3>3, <1>types DEF HandleConnResp, AcceptorView, TypeOK
    <3>6. Lifecycle!Succeed
      BY <1>5, <3>1, <3>3, <3>4, <3>5 DEF HandleConnResp, Lifecycle!Succeed
    <3> QED BY <3>6 DEF Lifecycle!Next
  <2> QED BY <2>1, <2>2
<1>6. ASSUME NEW e \in Ends, CloseConnection(e)
      PROVE  [Lifecycle!Next]_(Lifecycle!vars)
  BY <1>6, <1>gives DEF CloseConnection
<1>7. ASSUME NEW e \in Ends, HandleConnClose(e) \/ HandleConnReset(e)
      PROVE  [Lifecycle!Next]_(Lifecycle!vars)
  <2>1. gaveUp # {}
    BY <1>7 DEF HandleConnClose, HandleConnReset, Arrives, IInv, EndHasCause
  <2> QED BY <1>7, <2>1, <1>gone DEF HandleConnClose, HandleConnReset
<1>8. ASSUME NEW e \in Ends, HandleCheckConn(e)
      PROVE  [Lifecycle!Next]_(Lifecycle!vars)
  <2>1. CASE conn[e] = "none"
    BY <1>8, <2>1, <1>same DEF HandleCheckConn
  <2>2. CASE conn[e] # "none"
    BY <1>8, <2>2, <1>gives DEF HandleCheckConn
  <2> QED BY <2>1, <2>2
<1>9. ASSUME NEW e \in Ends,
             \/ Silence(e) \/ HandlePingTimeout(e) \/ Refuse("PING", e) \/ Refuse("PONG", e)
             \/ HandlePing(e) \/ HandlePongTimeout(e) \/ HandlePong(e)
      PROVE  [Lifecycle!Next]_(Lifecycle!vars)
  BY <1>9, <1>same DEF Silence, HandlePingTimeout, Refuse, HandlePing, HandlePongTimeout, HandlePong
<1>10. CASE SendBegin \/ DropBegin \/ StopBegin \/ ResendBegin \/ UNCHANGED vars
  BY <1>10, <1>same DEF SendBegin, DropBegin, StopBegin, ResendBegin, vars
<1>11. ASSUME NEW p \in Packets, Lose(p) PROVE [Lifecycle!Next]_(Lifecycle!vars)
  BY <1>11, <1>same DEF Lose
<1> QED
  BY <1>1, <1>2, <1>3, <1>4, <1>5, <1>6, <1>7, <1>8, <1>9, <1>10, <1>11
     DEF Next, EndNext, ResendTimer

\* The connection implements ConnLifecycle: one answer, a success only with a
\* peer that accepted, and no end without an end that gave up.
THEOREM Implementation == Spec => ImplementsLifecycle
<1>1. Init => Lifecycle!Init
  BY DEF Init, Lifecycle!Init, CreatorView, AcceptorView, Ends
<1>2. IInv /\ IInv' /\ [Next]_vars => [Lifecycle!Next]_(Lifecycle!vars)
  BY StepImplements
<1> QED BY <1>1, <1>2, InductiveInvariant, PTL DEF Spec, ImplementsLifecycle, Lifecycle!Spec

\* What ConnLifecycle promises follows from its steps.
LEMMA LifecyclePromises == Lifecycle!Spec => []Lifecycle!Promised
<1> USE DEF Lifecycle!Promised
<1>1. Lifecycle!Init => Lifecycle!Inv
  BY DEF Lifecycle!Init, Lifecycle!Inv
<1>2. Lifecycle!Inv /\ [Lifecycle!Next]_(Lifecycle!vars) => Lifecycle!Inv'
  <2> SUFFICES ASSUME Lifecycle!Inv, [Lifecycle!Next]_(Lifecycle!vars) PROVE Lifecycle!Inv'
    OBVIOUS
  <2> USE DEF Lifecycle!Inv
  <2>1. CASE Lifecycle!Ask
    BY <2>1 DEF Lifecycle!Ask
  <2>2. CASE Lifecycle!Accept
    BY <2>2 DEF Lifecycle!Accept
  <2>3. CASE Lifecycle!Succeed
    BY <2>3 DEF Lifecycle!Succeed
  <2>4. CASE Lifecycle!Fail
    BY <2>4 DEF Lifecycle!Fail
  <2>5. ASSUME NEW e \in Lifecycle!Ends, Lifecycle!GiveUp(e) \/ Lifecycle!Follow(e)
        PROVE  Lifecycle!Inv'
    BY <2>5 DEF Lifecycle!GiveUp, Lifecycle!Follow, Lifecycle!Over
  <2>6. CASE UNCHANGED Lifecycle!vars
    BY <2>6 DEF Lifecycle!vars
  <2> QED BY <2>1, <2>2, <2>3, <2>4, <2>5, <2>6 DEF Lifecycle!Next
<1>3. Lifecycle!Inv => Lifecycle!Promised
  BY DEF Lifecycle!Inv
<1> QED BY <1>1, <1>2, <1>3, PTL DEF Lifecycle!Spec

\* Whatever the network does: a creation has at most one answer, a success only
\* with a peer that was told, and no end loses the connection to nobody's act.
THEOREM PromisesHold == Spec => []Lifecycle!Promised
  BY Implementation, LifecyclePromises, PTL DEF ImplementsLifecycle
=============================================================================
