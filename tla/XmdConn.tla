------------------------------- MODULE XmdConn -------------------------------
(***************************************************************************)
(* One connection of the XMD transceiver between the end that creates it   *)
(* and the end that accepts it, both running this code: the handshake with *)
(* its resends, pings and pongs, closing, resets, and the timer that ends  *)
(* a silent connection, over a network that loses, repeats and reorders.   *)
(*                                                                         *)
(* The worker thread of an end handles one queue entry at a time and owns  *)
(* the maps below: a step is one handler.  A datagram pushed to the socket *)
(* queue is in the network, except CONN_BEGIN, whose resend timer the send *)
(* thread starts.  PING and PONG stand for all packets that need an open   *)
(* connection.  A packet from a changed address only moves the connection  *)
(* there (or is dropped, if CONN_BEGIN): addresses are left out.           *)
(***************************************************************************)
EXTENDS Integers, FiniteSets

CONSTANTS
  Resends,      \* CREATE_CONN_RESEND_TIME
  MaxAccepts,   \* bound: how often a CONN_BEGIN makes a connection
  MaxPackets    \* bound: how many different packets the network holds

ASSUME ResendsAssumption == Resends \in Nat
ASSUME AcceptsAssumption == MaxAccepts \in Nat
ASSUME PacketsAssumption == MaxPackets \in Nat

Ends == {"creator", "acceptor"}
Peer(e) == IF e = "creator" THEN "acceptor" ELSE "creator"

Packet(type, to) == [type |-> type, to |-> to]
Packets ==
  {Packet("CONN_BEGIN", "acceptor"), Packet("CONN_RESP", "creator")} \union
  [type : {"CONN_CLOSE", "CONN_RESET", "PING", "PONG"}, to : Ends]

VARIABLES
  \* the creation at the creator
  create,     \* WORKER_CREATE_NEW_CONN: "idle", "queued", "handled"
  begin,      \* CONN_BEGIN's SendQueueData: "none", "queue", "timer", "done"
  left,       \* its reSendCount
  recvAck,    \* isPacketRecvAckMap_ for packet 0: "none", "no", "yes"
  info,       \* packetCallbackInfoMap_: {0} or {}
  \* each end
  conn,       \* connectionMap_: "none", or the connState
  heard,      \* lastPacketTimeMap_: "never", "lately", "silent" (timeout)
  pings,      \* WORKER_PING_TIMEOUT timers
  checks,     \* WORKER_CHECK_CONN_AVAILABLE timers
  pongDue,    \* ends with a WORKER_PONG_TIMEOUT timer (several send the same)
  \* the network
  net,
  \* what the applications did and were told
  accepts,    \* calls of NewConnection
  succ,       \* calls of ConnCreateSucc
  fail,       \* calls of ConnCreateFail
  told,       \* the last callback was of an "open" or of an "ended" connection
  closed,     \* ends whose application closed the connection they have
  gaveUp      \* ends that ever gave the connection up of themselves

creation == <<create, begin, left, recvAck, info>>
ends == <<conn, heard, pings, checks, pongDue>>
seen == <<accepts, succ, fail, told, closed, gaveUp>>
vars == <<creation, ends, net, seen>>

Init ==
  /\ create = "idle"
  /\ begin = "none"
  /\ left = 0
  /\ recvAck = "none"
  /\ info = {}
  /\ conn = [e \in Ends |-> "none"]
  /\ heard = [e \in Ends |-> "never"]
  /\ pings = [e \in Ends |-> 0]
  /\ checks = [e \in Ends |-> 0]
  /\ pongDue = {}
  /\ net = {}
  /\ accepts = 0
  /\ succ = 0
  /\ fail = 0
  /\ told = [e \in Ends |-> "nothing"]
  /\ closed = {}
  /\ gaveUp = {}
-----------------------------------------------------------------------------
(* Parts of the handlers.                                                  *)

\* deleteConn: the timers find out when they fire.
DeleteConn(e) ==
  /\ conn' = [conn EXCEPT ![e] = "none"]
  /\ heard' = [heard EXCEPT ![e] = "never"]

\* Mutant of StartConn: an end that pings does not check.
StartUnchecked(e) ==
  /\ conn' = [conn EXCEPT ![e] = "CONNECTED"]
  /\ pings' = [pings EXCEPT ![e] = @ + 1]
  /\ told' = [told EXCEPT ![e] = "open"]
  /\ UNCHANGED checks

\* A connection is open at end e: it will ping and check from now on.
StartConn(e) ==
  /\ conn' = [conn EXCEPT ![e] = "CONNECTED"]
  /\ pings' = [pings EXCEPT ![e] = @ + 1]
  /\ checks' = [checks EXCEPT ![e] = @ + 1]
  /\ told' = [told EXCEPT ![e] = "open"]

\* The network with one more packet; what is sent to a full one is lost.
With(packets, p) ==
  IF Cardinality(packets \union {p}) <= MaxPackets THEN packets \union {p} ELSE packets

Send(type, to) == net' = With(net, Packet(type, to))

\* A packet arrives; the network may keep another copy of it.
Arrives(type, e) == Packet(type, e) \in net
Kept(type, e) == {net, net \ {Packet(type, e)}}
Take(type, e) == net' \in Kept(type, e)
TakeAndSend(type, e, answer, to) ==
  \E rest \in Kept(type, e) : net' = With(rest, Packet(answer, to))
-----------------------------------------------------------------------------
(* Creating a connection.                                                  *)

\* The application calls createConnection.
CreateConnection ==
  /\ create = "idle"
  /\ create' = "queued"
  /\ UNCHANGED <<begin, left, recvAck, info, ends, net, seen>>

\* The creator's worker enters the connection and queues CONN_BEGIN.
HandleCreate ==
  /\ create = "queued"
  /\ create' = "handled"
  /\ conn' = [conn EXCEPT !["creator"] = "CONNECTING"]
  /\ begin' = "queue"
  /\ left' = Resends
  /\ recvAck' = "no"
  /\ info' = {0}
  /\ UNCHANGED <<heard, pings, checks, pongDue, net, seen>>

\* The send thread writes CONN_BEGIN and starts its resend timer.
SendBegin ==
  /\ begin = "queue"
  /\ begin' = "timer"
  /\ Send("CONN_BEGIN", "acceptor")
  /\ UNCHANGED <<create, left, recvAck, info, ends, seen>>

\* The resend timer: the connection is gone and nobody is told here.
DropBegin ==
  /\ begin = "timer"
  /\ conn["creator"] = "none"
  /\ begin' = "done" /\ left' = 0
  /\ recvAck' = "none"
  /\ UNCHANGED <<create, info, ends, net, seen>>

\* The resend timer: the connection is open, or CONN_BEGIN was answered.
StopBegin ==
  /\ begin = "timer"
  /\ \/ conn["creator"] = "CONNECTED"
     \/ conn["creator"] = "CONNECTING" /\ recvAck # "no"
  /\ begin' = "done" /\ left' = 0
  /\ recvAck' = "none"
  /\ info' = {}
  /\ UNCHANGED <<create, ends, net, seen>>

\* The resend timer: the last resend has no answer.
FailBegin ==
  /\ begin = "timer"
  /\ conn["creator"] = "CONNECTING"
  /\ recvAck = "no"
  /\ left = 0
  /\ begin' = "done" /\ left' = 0
  /\ recvAck' = "none"
  /\ IF info # {}
     THEN /\ info' = {}
          /\ fail' = fail + 1
          /\ DeleteConn("creator")
          /\ told' = [told EXCEPT !["creator"] = "ended"]
          /\ gaveUp' = gaveUp \union {"creator"}
     ELSE UNCHANGED <<info, fail, conn, heard, told, gaveUp>>
  /\ UNCHANGED <<create, pings, checks, pongDue, net, accepts, succ, closed>>

\* Mutant of ResendBegin: the count is not decremented.
ResendUncounted ==
  /\ begin = "timer"
  /\ conn["creator"] = "CONNECTING"
  /\ recvAck = "no"
  /\ left # 0
  /\ begin' = "queue"
  /\ UNCHANGED <<create, left, recvAck, info, ends, net, seen>>

\* The resend timer: once more.
ResendBegin ==
  /\ begin = "timer"
  /\ conn["creator"] = "CONNECTING"
  /\ recvAck = "no"
  /\ left # 0
  /\ begin' = "queue"
  /\ left' = left - 1
  /\ UNCHANGED <<create, recvAck, info, ends, net, seen>>

\* The acceptor gets CONN_BEGIN: it makes the connection unless it has it,
\* and answers in any case.
HandleNewConn ==
  /\ Arrives("CONN_BEGIN", "acceptor")
  /\ \/ /\ conn["acceptor"] = "none"
        /\ accepts < MaxAccepts
        /\ StartConn("acceptor")
        /\ accepts' = accepts + 1
        /\ closed' = closed \ {"acceptor"}
     \/ /\ conn["acceptor"] # "none"
        /\ UNCHANGED <<conn, pings, checks, told, accepts, closed>>
  /\ TakeAndSend("CONN_BEGIN", "acceptor", "CONN_RESP", "creator")
  /\ heard' = [heard EXCEPT !["acceptor"] = "lately"]
  /\ UNCHANGED <<creation, pongDue, succ, fail, gaveUp>>

\* Mutant of HandleConnResp: an answer that nothing waits for is an error.
HandleConnRespOnce ==
  /\ Arrives("CONN_RESP", "creator")
  /\ IF info # {} /\ conn["creator"] = "CONNECTING"
     THEN /\ Take("CONN_RESP", "creator")
          /\ StartConn("creator")
          /\ succ' = succ + 1
          /\ info' = {}
          /\ recvAck' = "yes"
          /\ heard' = [heard EXCEPT !["creator"] = "lately"]
     ELSE /\ TakeAndSend("CONN_RESP", "creator", "CONN_RESET", "acceptor")
          /\ UNCHANGED <<conn, heard, pings, checks, told, succ, info, recvAck>>
  /\ UNCHANGED <<create, begin, left, pongDue, accepts, fail, closed, gaveUp>>

\* The creator gets CONN_RESP: the first one opens the connection, later ones
\* change nothing, and without the connection it is refused.
HandleConnResp ==
  /\ Arrives("CONN_RESP", "creator")
  /\ \/ /\ conn["creator"] = "none"
        /\ TakeAndSend("CONN_RESP", "creator", "CONN_RESET", "acceptor")
        /\ UNCHANGED <<recvAck, info, conn, heard, pings, checks, told, succ>>
     \/ /\ conn["creator"] # "none"
        /\ Take("CONN_RESP", "creator")
        /\ IF info # {} /\ conn["creator"] = "CONNECTING"
           THEN StartConn("creator") /\ succ' = succ + 1
           ELSE UNCHANGED <<conn, pings, checks, told, succ>>
        /\ info' = {}
        /\ recvAck' = IF recvAck = "none" THEN "none" ELSE "yes"
        /\ heard' = [heard EXCEPT !["creator"] = "lately"]
  /\ UNCHANGED <<create, begin, left, pongDue, accepts, fail, closed, gaveUp>>
-----------------------------------------------------------------------------
(* Ending a connection.                                                    *)

\* The worker handles closeConnection: the peer is told once, the own
\* application is not.  (It does nothing without the connection.)
CloseConnection(e) ==
  /\ conn[e] # "none"
  /\ DeleteConn(e)
  /\ Send("CONN_CLOSE", Peer(e))
  /\ closed' = closed \union {e}
  /\ gaveUp' = gaveUp \union {e}
  /\ UNCHANGED <<creation, pings, checks, pongDue, accepts, succ, fail, told>>

\* CONN_CLOSE: deleteConn never fails, so the application is told in any case.
HandleConnClose(e) ==
  /\ Arrives("CONN_CLOSE", e)
  /\ Take("CONN_CLOSE", e)
  /\ DeleteConn(e)
  /\ told' = [told EXCEPT ![e] = "ended"]
  /\ UNCHANGED <<creation, pings, checks, pongDue, accepts, succ, fail, closed, gaveUp>>

\* CONN_RESET likewise; it also answers a CONN_BEGIN.
HandleConnReset(e) ==
  /\ Arrives("CONN_RESET", e)
  /\ Take("CONN_RESET", e)
  /\ DeleteConn(e)
  /\ told' = [told EXCEPT ![e] = "ended"]
  /\ recvAck' = IF e = "creator" /\ recvAck = "no" THEN "yes" ELSE recvAck
  /\ UNCHANGED <<create, begin, left, info, pings, checks, pongDue,
                 accepts, succ, fail, closed, gaveUp>>

\* Mutant of HandleCheckConn: the timer is not started again.
HandleCheckOnce(e) ==
  /\ checks[e] > 0
  /\ IF conn[e] # "none" /\ heard[e] = "silent"
     THEN DeleteConn(e) /\ told' = [told EXCEPT ![e] = "ended"] /\ gaveUp' = gaveUp \union {e}
     ELSE UNCHANGED <<conn, heard, told, gaveUp>>
  /\ checks' = [checks EXCEPT ![e] = @ - 1]
  /\ UNCHANGED <<creation, pings, pongDue, net, accepts, succ, fail, closed>>

\* Mutant of HandleCheckConn: the connection is dropped without a word.
HandleCheckSilently(e) ==
  /\ checks[e] > 0
  /\ conn[e] = "none" \/ heard[e] = "silent"
  /\ checks' = [checks EXCEPT ![e] = @ - 1]
  /\ IF conn[e] # "none"
     THEN DeleteConn(e) /\ gaveUp' = gaveUp \union {e}
     ELSE UNCHANGED <<conn, heard, gaveUp>>
  /\ UNCHANGED <<creation, pings, pongDue, net, accepts, succ, fail, told, closed>>

\* WORKER_CHECK_CONN_AVAILABLE: a connection that has been silent for its
\* timeout is dropped.  (Otherwise the timer is just started again.)
HandleCheckConn(e) ==
  /\ checks[e] > 0
  /\ conn[e] = "none" \/ heard[e] = "silent"
  /\ checks' = [checks EXCEPT ![e] = @ - 1]
  /\ IF conn[e] # "none"
     THEN /\ DeleteConn(e)
          /\ told' = [told EXCEPT ![e] = "ended"]
          /\ gaveUp' = gaveUp \union {e}
     ELSE UNCHANGED <<conn, heard, told, gaveUp>>
  /\ UNCHANGED <<creation, pings, pongDue, net, accepts, succ, fail, closed>>

\* The timeout of the connection passes without a packet.
Silence(e) ==
  /\ heard[e] = "lately"
  /\ heard' = [heard EXCEPT ![e] = "silent"]
  /\ UNCHANGED <<creation, conn, pings, checks, pongDue, net, seen>>
-----------------------------------------------------------------------------
(* Keeping a connection.                                                   *)

\* WORKER_PING_TIMEOUT: ping and start the timer again, or let it end.
HandlePingTimeout(e) ==
  /\ pings[e] > 0
  /\ IF conn[e] = "none"
     THEN pings' = [pings EXCEPT ![e] = @ - 1] /\ UNCHANGED net
     ELSE Send("PING", Peer(e)) /\ UNCHANGED pings
  /\ UNCHANGED <<creation, conn, heard, checks, pongDue, seen>>

\* A ping or a pong without its connection is answered by a reset.
Refuse(type, e) ==
  /\ Arrives(type, e)
  /\ conn[e] = "none"
  /\ TakeAndSend(type, e, "CONN_RESET", Peer(e))
  /\ UNCHANGED <<creation, ends, seen>>

HandlePing(e) ==
  /\ Arrives("PING", e)
  /\ conn[e] # "none"
  /\ Take("PING", e)
  /\ pongDue' = pongDue \union {e}
  /\ heard' = [heard EXCEPT ![e] = "lately"]
  /\ UNCHANGED <<creation, conn, pings, checks, seen>>

\* WORKER_PONG_TIMEOUT: the loss statistics exist while the connection is open.
HandlePongTimeout(e) ==
  /\ e \in pongDue
  /\ pongDue' = pongDue \ {e}
  /\ IF conn[e] = "CONNECTED" THEN Send("PONG", Peer(e)) ELSE UNCHANGED net
  /\ UNCHANGED <<creation, conn, heard, pings, checks, seen>>

HandlePong(e) ==
  /\ Arrives("PONG", e)
  /\ conn[e] # "none"
  /\ Take("PONG", e)
  /\ heard' = [heard EXCEPT ![e] = "lately"]
  /\ UNCHANGED <<creation, conn, pings, checks, pongDue, seen>>

\* The network loses a packet for good.
Lose(p) ==
  /\ p \in net
  /\ net' = net \ {p}
  /\ UNCHANGED <<creation, ends, seen>>
-----------------------------------------------------------------------------
ResendTimer == DropBegin \/ StopBegin \/ FailBegin \/ ResendBegin

EndNext(e) ==
  \/ CloseConnection(e)
  \/ HandleConnClose(e)
  \/ HandleConnReset(e)
  \/ HandleCheckConn(e)
  \/ Silence(e)
  \/ HandlePingTimeout(e)
  \/ Refuse("PING", e)
  \/ Refuse("PONG", e)
  \/ HandlePing(e)
  \/ HandlePongTimeout(e)
  \/ HandlePong(e)

Next ==
  \/ CreateConnection
  \/ HandleCreate
  \/ SendBegin
  \/ ResendTimer
  \/ HandleNewConn
  \/ HandleConnResp
  \/ \E e \in Ends : EndNext(e)
  \/ \E p \in Packets : Lose(p)

Spec == Init /\ [][Next]_vars

\* The threads of both ends run, their timers fire, time passes and no packet
\* stays in the network for ever.  Nothing has to arrive.
Fairness ==
  /\ WF_vars(HandleCreate) /\ WF_vars(SendBegin) /\ WF_vars(ResendTimer)
  /\ \A e \in Ends : WF_vars(HandleCheckConn(e)) /\ WF_vars(Silence(e))
  /\ \A p \in Packets : WF_vars(Lose(p))

FairSpec == Spec /\ Fairness
-----------------------------------------------------------------------------
TypeOK ==
  /\ create \in {"idle", "queued", "handled"}
  /\ begin \in {"none", "queue", "timer", "done"}
  /\ left \in 0 .. Resends
  /\ recvAck \in {"none", "no", "yes"}
  /\ info \subseteq {0}
  /\ conn \in [Ends -> {"none", "CONNECTING", "CONNECTED"}]
  /\ heard \in [Ends -> {"never", "lately", "silent"}]
  /\ pings \in [Ends -> Nat]
  /\ checks \in [Ends -> Nat]
  /\ pongDue \subseteq Ends
  /\ net \subseteq Packets
  /\ accepts \in Nat
  /\ succ \in Nat
  /\ fail \in Nat
  /\ told \in [Ends -> {"nothing", "open", "ended"}]
  /\ closed \subseteq Ends
  /\ gaveUp \subseteq Ends

\* An open connection is watched: a check timer will fire, it pings its peer,
\* and it has a time to compare with (0 would keep it for ever).
OpenIsWatched ==
  \A e \in Ends : conn[e] = "CONNECTED" =>
    pings[e] > 0 /\ checks[e] > 0 /\ heard[e] # "never"

\* The application knows of every open connection, and a connection it was
\* told of is there, or it closed it itself.
ApplicationKnows ==
  \A e \in Ends :
    /\ conn[e] = "CONNECTED" => told[e] = "open"
    /\ told[e] = "open" => conn[e] = "CONNECTED" \/ e \in closed

\* The connection keeps the promises of ConnLifecycle: one answer, a success
\* only with a peer that has accepted, no end without somebody who gave up.
CreatorView ==
  IF create = "idle" THEN "idle"
  ELSE IF create = "queued" \/ conn["creator"] = "CONNECTING" THEN "asked"
  ELSE IF conn["creator"] = "CONNECTED" THEN "up" ELSE "over"
AcceptorView ==
  IF conn["acceptor"] # "none" THEN "up" ELSE IF accepts = 0 THEN "idle" ELSE "over"
Lifecycle == INSTANCE ConnLifecycle WITH creator <- CreatorView, acceptor <- AcceptorView
ImplementsLifecycle == Lifecycle!Spec

\* The parts of the inductive invariant.
\* Before the worker has handled the creation there is nothing; until the
\* answer there is no answer and no ping of the creator.
OneCreation ==
  /\ create # "handled" =>
       begin = "none" /\ net = {} /\ conn = [e \in Ends |-> "none"] /\ accepts = 0 /\ succ = 0 /\ fail = 0
  /\ conn["creator"] = "CONNECTING" => succ = 0 /\ fail = 0
  /\ succ = 0 => pings["creator"] = 0
  /\ conn["acceptor"] # "CONNECTING"

\* Only an acceptor that was told of the connection answers or is pinged.
PeerAccepted ==
  /\ conn["creator"] = "CONNECTED" \/ conn["acceptor"] # "none" => accepts > 0
  /\ \A p \in net :
       p.type = "CONN_RESP" \/ (p.type \in {"PING", "PONG"} /\ p.to = "acceptor") => accepts > 0

\* An end that has lost the connection, and a packet that says so, come from
\* somebody who gave it up.
EndHasCause ==
  gaveUp = {} =>
    /\ create = "handled" => conn["creator"] # "none"
    /\ accepts > 0 => conn["acceptor"] # "none"
    /\ \A p \in net : p.type \notin {"CONN_CLOSE", "CONN_RESET"}

IInv ==
  /\ TypeOK
  /\ OpenIsWatched
  /\ ApplicationKnows
  /\ OneCreation
  /\ PeerAccepted
  /\ EndHasCause

\* Whatever the network does, the creator learns what became of its request,
\* unless it withdraws it.
CreateAnswered == create = "queued" ~> (told["creator"] # "nothing" \/ "creator" \in closed)

\* A connection that one end has lost is dropped by the other, unless it is
\* made once more.
HalfOpenEnds ==
  \A e \in Ends :
    (conn[e] = "CONNECTED" /\ conn[Peer(e)] = "none") ~>
      (conn[e] # "CONNECTED" \/ conn[Peer(e)] # "none")
=============================================================================
