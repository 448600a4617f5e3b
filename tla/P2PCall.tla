------------------------------- MODULE P2PCall -------------------------------
(***************************************************************************)
(* The direct connections of one running call: its P2PProcessor, whose     *)
(* thread asks for the user's address, exchanges addresses with the peer   *)
(* and punches; the worker thread of the transport, which handles the      *)
(* answers and the connections they lead to; the receive thread and the    *)
(* launch thread, which start the processor; and the threads that end the  *)
(* call and stop it, and may cancel the launch thread wherever it is.      *)
(*                                                                         *)
(* A processor is found under gMutex and a session under mutex_0, and both *)
(* are used after the lock is released.  A step that uses one that is gone *)
(* ends in "broken", where anything may happen.  Losing the relay, and     *)
(* whatever else clears the table of calls, is an event here.              *)
(***************************************************************************)
EXTENDS Naturals

CONSTANTS
  MaxDetect,    \* MAX_NET_DETECT_COUNT: detection requests that are sent
  MaxExchange,  \* MAX_EXCHANGE_NET_INFO_COUNT: net information messages
  MaxPunch,     \* MAX_P2P_PUNCH_COUNT: rounds of burrow requests
  MaxEvents     \* bound: what the peer and the servers say, and what fails

ASSUME CountsAssumption ==
  /\ MaxDetect \in Nat /\ MaxExchange \in Nat /\ MaxPunch \in Nat
  /\ MaxEvents \in Nat

\* enum P2PState
START              == 0
NET_DETECT         == 1
NET_DETECT_TIMEOUT == 2
NET_DETECT_OK      == 3
EXCHANGE           == 4
EXCHANGE_TIMEOUT   == 5
EXCHANGE_OK        == 6
PUNCH              == 7
PUNCH_TIMEOUT      == 8
INTERNET_OK        == 9
INTRANET_OK        == 10
P2PState == START .. INTRANET_OK

Links == {"intranet", "internet"}
LinkOK(l) == IF l = "intranet" THEN INTRANET_OK ELSE INTERNET_OK

VARIABLES
  mState, mStop,     \* mP2PState, mStop
  detects, exchanges, punches,   \* the counters of run
  wan, peerWan,      \* the internet address of this user, of the peer, is known
  result,            \* what onP2PResult was told
  proc,              \* the P2PProcessor: "none", "listed" in gP2PProcessors,
                     \*   or "deleted"
  gMutex,            \* the thread that holds gMutex
  late,              \* the processor was started after stop() had looked for
                     \*   its thread
  call,              \* the session: "waiting", "running", "gone"
  creator,           \* isCreator()
  burrowed, connId,  \* of the session: the burrow states, ids of connections
  conn,              \* the transport's connection of each link
  mutex0,            \* the thread that holds mutex_0 for writing
  launched,          \* onlaunchCalls: "no", not yet; "yes"; "over", no more
  relay,             \* bindRelayResponse is set
  pc, want, pkt,     \* where each thread is, the state it is to set, its packet
  events,            \* how much has been heard, or has failed
  answered,          \* the links on which the invitee has answered requests
  dropped,           \* the table let go of the call without closing it, or the
                     \*   launch thread made the processor after it was stopped
  broken             \* a pointer was used that is NULL or deleted

stateVars == <<mState, mStop, detects, exchanges, punches, wan, peerWan, result>>
procVars  == <<proc, gMutex, late>>
callVars  == <<call, burrowed, connId, mutex0, launched>>
netVars   == <<conn, relay, answered, events>>
vars == <<stateVars, procVars, callVars, creator, netVars, pc, want, pkt,
          dropped, broken>>

Threads == {"run", "worker", "recv", "launch", "app"}
Closers == {"app", "recv"}
Holders == Closers \union {"launch"}
Closing == {"cancel", "lock", "links", "stop", "join", "delete", "erase"}
Starting == {"insert", "listing", "start"}
Handling == {"detect", "burrow", "punched", "burrowed", "netInfo"}
Running == {"loop", "netInfo", "netSend", "punch", "punchSend", "report"}
Updating == {"update", "assign"}
Labels == Closing \union Starting \union Handling \union Running \union Updating
          \union {"idle", "off", "ended", "accepting", "killed", "closeCalls"}

NoPacket == <<"none", "none">>
Packets == {<<k, l>> : k \in {"request", "response"}, l \in Links} \union {NoPacket}

Init ==
  /\ mState = START /\ mStop = FALSE
  /\ detects = 0 /\ exchanges = 0 /\ punches = 0
  /\ wan = FALSE /\ peerWan = FALSE /\ result = "none"
  /\ proc = "none" /\ gMutex = "free" /\ late = FALSE
  /\ call = "waiting" /\ creator \in BOOLEAN
  /\ burrowed = [l \in Links |-> FALSE] /\ connId = [l \in Links |-> FALSE]
  /\ conn = [l \in Links |-> "none"]
  /\ mutex0 = "free" /\ launched = "no" /\ relay = TRUE
  /\ pc = [t \in Threads |-> IF t = "run" THEN "off" ELSE "idle"]
  /\ want = [t \in {"run", "worker", "recv"} |-> START]
  /\ pkt = NoPacket
  /\ answered = {} /\ events = 0 /\ dropped = FALSE /\ broken = FALSE

-----------------------------------------------------------------------------
At(t, l)   == pc[t] = l
Goto(t, l) == pc' = [pc EXCEPT ![t] = l]
Move(t, l, m) == At(t, l) /\ Goto(t, m)
Event == events < MaxEvents /\ events' = events + 1

\* updateP2PState(s): compared, then assigned by the next step; nothing keeps
\* another thread from doing the same in between.
Update(t, s) == Goto(t, "update") /\ want' = [want EXCEPT ![t] = s]

Return(t) ==
  /\ Goto(t, IF t = "run" THEN "loop"
             ELSE IF want[t] = PUNCH THEN "punched"
             ELSE IF want[t] > PUNCH THEN "burrowed" ELSE "idle")
  /\ want' = [want EXCEPT ![t] = START]

Compare(t) ==
  /\ At(t, "update")
  /\ IF want[t] > mState THEN Goto(t, "assign") /\ want' = want ELSE Return(t)
  /\ UNCHANGED <<stateVars, procVars, callVars, creator, netVars, pkt, dropped, broken>>

Assign(t) ==
  /\ At(t, "assign") /\ Return(t)
  /\ mState' = want[t]
  /\ UNCHANGED <<mStop, detects, exchanges, punches, wan, peerWan, result,
                 procVars, callVars, creator, netVars, pkt, dropped, broken>>

\* The thread has used what is not there.
Break ==
  /\ broken' = TRUE
  /\ UNCHANGED <<stateVars, procVars, callVars, creator, netVars, pc, want, pkt, dropped>>

-----------------------------------------------------------------------------
(* P2PProcessor::run.  A turn looks at mStop, then at mP2PState.  Only the   *)
(* turns that send are counted; the others in between let time pass.        *)

Turn == At("run", "loop") /\ ~mStop

TurnDetect ==
  /\ Turn /\ mState \in {START, NET_DETECT} /\ detects < MaxDetect
  /\ detects' = detects + 1
  /\ Update("run", NET_DETECT)
  /\ UNCHANGED <<mState, mStop, exchanges, punches, wan, peerWan, result,
                 procVars, callVars, creator, netVars, pkt, dropped, broken>>

\* Without an answer the relay's view of the user's address is taken.
TurnDetected ==
  /\ Turn /\ mState \in {START, NET_DETECT} /\ detects >= MaxDetect
  /\ wan \/ relay
  /\ wan' = TRUE
  /\ Update("run", IF wan THEN NET_DETECT_OK
                   ELSE IF peerWan THEN EXCHANGE_OK ELSE NET_DETECT_TIMEOUT)
  /\ UNCHANGED <<mState, mStop, detects, exchanges, punches, peerWan, result,
                 procVars, callVars, creator, netVars, pkt, dropped, broken>>

\* bindRelayResponse is NULL once the relay is lost.
TurnNoRelay ==
  /\ Turn /\ mState \in {START, NET_DETECT} /\ detects >= MaxDetect
  /\ ~wan /\ ~relay
  /\ Break

Exchanging == {NET_DETECT_TIMEOUT, NET_DETECT_OK, EXCHANGE}

TurnExchange ==
  /\ Turn /\ mState \in Exchanging /\ exchanges < MaxExchange
  /\ exchanges' = exchanges + 1
  /\ Goto("run", "netInfo")
  /\ UNCHANGED <<mState, mStop, detects, punches, wan, peerWan, result,
                 procVars, callVars, creator, netVars, want, pkt, dropped, broken>>

TurnExchanged ==
  /\ Turn /\ mState \in Exchanging /\ exchanges >= MaxExchange
  /\ Update("run", EXCHANGE_TIMEOUT)
  /\ UNCHANGED <<stateVars, procVars, callVars, creator, netVars, pkt, dropped, broken>>

Punching == {EXCHANGE_TIMEOUT, EXCHANGE_OK, PUNCH}

\* Mutant: the request is sent and not counted.
TurnPunchUncounted ==
  /\ Turn /\ mState \in Punching /\ punches < MaxPunch
  /\ Goto("run", "punch")
  /\ UNCHANGED <<stateVars, procVars, callVars, creator, netVars, want, pkt,
                 dropped, broken>>

TurnPunch ==
  /\ Turn /\ mState \in Punching /\ punches < MaxPunch
  /\ punches' = punches + 1
  /\ Goto("run", "punch")
  /\ UNCHANGED <<mState, mStop, detects, exchanges, wan, peerWan, result,
                 procVars, callVars, creator, netVars, want, pkt, dropped, broken>>

TurnPunched ==
  /\ Turn /\ mState \in Punching /\ punches >= MaxPunch
  /\ Update("run", PUNCH_TIMEOUT)
  /\ UNCHANGED <<stateVars, procVars, callVars, creator, netVars, pkt, dropped, broken>>

TurnStop ==
  /\ Turn /\ mState >= PUNCH_TIMEOUT
  /\ mStop' = TRUE
  /\ UNCHANGED <<mState, detects, exchanges, punches, wan, peerWan, result,
                 procVars, callVars, creator, netVars, pc, want, pkt, dropped, broken>>

\* sendNetInfo.  The session is looked up under mutex_0.
NetInfoSession ==
  /\ At("run", "netInfo")
  /\ mState = NET_DETECT_TIMEOUT \/ mutex0 = "free"
  /\ Goto("run", IF mState = NET_DETECT_TIMEOUT \/ call = "gone"
                   THEN "loop" ELSE "netSend")
  /\ UNCHANGED <<stateVars, procVars, callVars, creator, netVars, want, pkt,
                 dropped, broken>>

\* Without an address of its own, or with a link made, the state stays.
NetInfoSend ==
  /\ At("run", "netSend") /\ call # "gone"
  /\ \/ (\A l \in Links : ~burrowed[l]) /\ Update("run", EXCHANGE)
     \/ Goto("run", "loop") /\ want' = want
  /\ UNCHANGED <<stateVars, procVars, callVars, creator, netVars, pkt, dropped, broken>>

\* sendBurrowRequest.
PunchSession ==
  /\ At("run", "punch") /\ mutex0 = "free"
  /\ Goto("run", IF call = "gone" THEN "loop" ELSE "punchSend")
  /\ UNCHANGED <<stateVars, procVars, callVars, creator, netVars, want, pkt,
                 dropped, broken>>

\* The datagrams may not leave; with one link made the state stays.
PunchSend ==
  /\ At("run", "punchSend") /\ call # "gone"
  /\ \/ (\A l \in Links : ~burrowed[l]) /\ Update("run", PUNCH)
     \/ Goto("run", "loop") /\ want' = want
  /\ UNCHANGED <<stateVars, procVars, callVars, creator, netVars, pkt, dropped, broken>>

\* The session was erased after it was looked up.
SendWild == pc["run"] \in {"netSend", "punchSend"} /\ call = "gone" /\ Break

\* The processor or the session that t has found, or runs on, is not there.
Wild(t) ==
  \/ pc[t] \in Handling \union Updating \union Running /\ proc = "deleted"
  \/ pc[t] \in {"punched", "burrowed"} /\ call = "gone"

LeaveLoop ==
  /\ Move("run", "loop", "report") /\ mStop
  /\ UNCHANGED <<stateVars, procVars, callVars, creator, netVars, want, pkt,
                 dropped, broken>>

Report ==
  /\ Move("run", "report", "ended")
  /\ result' = IF mState = INTRANET_OK THEN "intranet"
               ELSE IF mState = INTERNET_OK THEN "internet" ELSE "failed"
  /\ UNCHANGED <<mState, mStop, detects, exchanges, punches, wan, peerWan,
                 procVars, callVars, creator, netVars, want, pkt, dropped, broken>>

Turns == \/ TurnDetect \/ TurnDetected \/ TurnNoRelay
         \/ TurnExchange \/ TurnExchanged \/ TurnPunch \/ TurnPunched \/ TurnStop
         \/ NetInfoSession \/ NetInfoSend \/ PunchSession \/ PunchSend \/ SendWild
         \/ Compare("run") \/ Assign("run") \/ LeaveLoop \/ Report

Run == (~Wild("run") /\ Turns) \/ (Wild("run") /\ Break)

-----------------------------------------------------------------------------
(* The call is accepted: by CREATE_RESPONSE under mutex_0, or by the launch *)
(* thread, which starts the processor after it has released mutex_0.        *)

CreateResponse ==
  /\ Move("recv", "idle", "insert")
  /\ creator /\ call = "waiting" /\ mutex0 = "free"
  /\ mutex0' = "recv" /\ call' = "running"
  /\ UNCHANGED <<stateVars, procVars, burrowed, connId, launched, creator,
                 netVars, want, pkt, dropped, broken>>

\* onlaunchCalls is filled in after the launch thread was created.
Register ==
  /\ At("recv", "idle") /\ ~creator /\ launched = "no"
  /\ launched' = "yes"
  /\ UNCHANGED <<stateVars, procVars, call, burrowed, connId, mutex0, creator,
                 netVars, pc, want, pkt, dropped, broken>>

\* The application has accepted or refused: onLaunched looks for the call under
\* mutex_0, which it takes and releases by hand.
LaunchLock ==
  /\ Move("launch", "idle", "accepting")
  /\ ~creator /\ launched # "over" /\ mutex0 = "free"
  /\ mutex0' = "launch"
  /\ UNCHANGED <<stateVars, procVars, call, burrowed, connId, launched, creator,
                 netVars, want, pkt, dropped, broken>>

LaunchAccept ==
  /\ Move("launch", "accepting", "insert") /\ call = "waiting"
  /\ call' = "running" /\ mutex0' = "free"
  /\ UNCHANGED <<stateVars, procVars, burrowed, connId, launched, creator,
                 netVars, want, pkt, dropped, broken>>

LaunchRefuse ==
  /\ Move("launch", "accepting", "ended") /\ call = "waiting"
  /\ call' = "gone" /\ mutex0' = "free" /\ launched' = "over"
  /\ UNCHANGED <<stateVars, procVars, burrowed, connId, creator, netVars, want,
                 pkt, dropped, broken>>

\* The call is gone; the thread's entry in onlaunchCalls stays.
LaunchGone ==
  /\ Move("launch", "accepting", "ended") /\ call = "gone"
  /\ mutex0' = "free"
  /\ UNCHANGED <<stateVars, procVars, call, burrowed, connId, launched, creator,
                 netVars, want, pkt, dropped, broken>>

\* startP2P, up to the unlock of gMutex.  A launch thread that no closer found
\* may come too late.
Insert(t) ==
  /\ Move(t, "insert", "listing")
  /\ gMutex = "free" /\ gMutex' = t
  /\ proc' = "listed"
  /\ dropped' = (dropped \/ call = "gone" \/ \E u \in Closers : At(u, "erase"))
  /\ UNCHANGED <<stateVars, late, callVars, creator, netVars, want, pkt, broken>>

Listed(t) ==
  /\ Move(t, "listing", "start")
  /\ gMutex' = "free"
  /\ UNCHANGED <<stateVars, proc, late, callVars, creator, netVars, want, pkt,
                 dropped, broken>>

\* start() on the processor found before: stop() may have looked for its thread
\* and deleted it since.
Start(t) ==
  /\ At(t, "start")
  /\ pc' = [pc EXCEPT ![t] = "idle", !["run"] = "loop"]
  /\ mStop' = FALSE
  /\ late' = (late \/ proc = "deleted" \/ \E u \in Closers : At(u, "delete"))
  /\ mutex0' = IF mutex0 = t THEN "free" ELSE mutex0
  /\ launched' = IF t = "launch" THEN "over" ELSE launched
  /\ UNCHANGED <<mState, detects, exchanges, punches, wan, peerWan, result, proc,
                 gMutex, call, burrowed, connId, creator, netVars, want, pkt,
                 dropped, broken>>

-----------------------------------------------------------------------------
(* What the processor hears: from the worker thread, and net information    *)
(* from the receive thread.  It is looked up under gMutex, used without.    *)

Receive(t, l, p) ==
  /\ Move(t, "idle", l)
  /\ proc = "listed" /\ gMutex = "free"
  /\ pkt' = p
  /\ Event
  /\ UNCHANGED <<stateVars, procVars, callVars, creator, conn, relay, answered,
                 want, dropped, broken>>

\* A response answers a request.
DetectResp == Receive("worker", "detect", NoPacket)
BurrowPacket(p) == (p[1] = "response" => punches > 0) /\ Receive("worker", "burrow", p)
NetInfo == Receive("recv", "netInfo", pkt)

\* One answer may not be enough to know the kind of NAT.
HandleNetDetectResp ==
  /\ At("worker", "detect")
  /\ wan' = TRUE
  /\ Update("worker", NET_DETECT_OK) \/ (~wan /\ relay /\ Goto("worker", "idle") /\ want' = want)
  /\ UNCHANGED <<mState, mStop, detects, exchanges, punches, peerWan, result,
                 procVars, callVars, creator, netVars, pkt, dropped, broken>>

\* The first answer is compared with bindRelayResponse.
DetectNoRelay == At("worker", "detect") /\ ~wan /\ ~relay /\ Break

WorkerRests == Goto("worker", "idle") /\ pkt' = NoPacket

BurrowSession ==
  /\ At("worker", "burrow") /\ mutex0 = "free"
  /\ IF call = "running" THEN Update("worker", PUNCH) /\ pkt' = pkt
                         ELSE WorkerRests /\ want' = want
  /\ UNCHANGED <<stateVars, procVars, callVars, creator, netVars, dropped, broken>>

HandleRequest(l) ==
  /\ pkt[1] = "request"
  /\ WorkerRests
  /\ answered' = IF creator THEN answered ELSE answered \union {l}
  /\ UNCHANGED <<conn, want>>

\* The creator makes the connection, and both take the link as made.
HandleResponse(l) ==
  /\ pkt[1] = "response"
  /\ \/ /\ burrowed[l] \/ creator           \* made before, or createConnection
        /\ WorkerRests                      \*   returns 0
        /\ UNCHANGED <<conn, want>>
     \/ /\ ~burrowed[l]
        /\ conn' = IF creator THEN [conn EXCEPT ![l] = "creating"] ELSE conn
        /\ Update("worker", LinkOK(l)) /\ pkt' = pkt
  /\ UNCHANGED answered

HandleBurrow ==
  /\ At("worker", "punched")
  /\ peerWan' = (peerWan \/ pkt[2] = "internet")
  /\ HandleRequest(pkt[2]) \/ HandleResponse(pkt[2])
  /\ UNCHANGED <<mState, mStop, detects, exchanges, punches, wan, result, procVars,
                 callVars, creator, relay, events, dropped, broken>>

SetBurrowState ==
  /\ At("worker", "burrowed") /\ WorkerRests
  /\ burrowed' = [burrowed EXCEPT ![pkt[2]] = TRUE]
  /\ UNCHANGED <<stateVars, procVars, call, connId, mutex0, launched, creator,
                 netVars, want, dropped, broken>>

HandleNetInfo ==
  /\ At("recv", "netInfo")
  /\ peerWan' = TRUE
  /\ Update("recv", EXCHANGE_OK) \/ (Goto("recv", "idle") /\ want' = want)
  /\ UNCHANGED <<mState, mStop, detects, exchanges, punches, wan, result,
                 procVars, callVars, creator, netVars, pkt, dropped, broken>>

Handle == \/ HandleNetDetectResp \/ DetectNoRelay
          \/ BurrowSession \/ HandleBurrow \/ SetBurrowState
          \/ Compare("worker") \/ Assign("worker")

-----------------------------------------------------------------------------
(* The transport's callbacks, on the worker thread.                         *)

\* The call of the table's only session goes.
Forget(how) ==
  /\ call' = "gone" /\ dropped' = how
  /\ burrowed' = [l \in Links |-> FALSE] /\ connId' = [l \in Links |-> FALSE]

\* A connection that was asked for is made: ConnCreateSucc, NewConnection.
Made(l) ==
  /\ At("worker", "idle") /\ mutex0 = "free"
  /\ conn[l] = "creating" \/ (conn[l] = "none" /\ ~creator /\ l \in answered)

Connected(l) ==
  /\ Made(l) /\ call # "gone"
  /\ conn' = [conn EXCEPT ![l] = "open"]
  /\ connId' = [connId EXCEPT ![l] = TRUE]
  /\ UNCHANGED <<stateVars, procVars, call, burrowed, mutex0, launched, creator,
                 relay, answered, events, pc, want, pkt, dropped, broken>>

\* currentCalls.at throws.
ConnectedWild(l) == Made(l) /\ call = "gone" /\ Break

\* ConnCreateFail, a connection that this user closed, or that the peer did
\* (CLOSE_NORMAL): the session is not told.
ConnEnds(l) ==
  /\ At("worker", "idle") /\ conn[l] # "none"
  /\ IF conn[l] = "closing" THEN events' = events ELSE Event
  /\ conn' = [conn EXCEPT ![l] = "none"]
  /\ UNCHANGED <<stateVars, procVars, callVars, creator, relay, answered,
                 pc, want, pkt, dropped, broken>>

\* handleXMDConnClosed: the link was lost.
ConnLost(l) ==
  /\ Move("worker", "idle", "closeCalls") /\ conn[l] = "open" /\ mutex0 = "free"
  /\ Event
  /\ conn' = [conn EXCEPT ![l] = "none"]
  /\ connId' = [connId EXCEPT ![l] = FALSE]
  /\ burrowed' = IF connId[l] THEN [burrowed EXCEPT ![l] = FALSE] ELSE burrowed
  /\ UNCHANGED <<stateVars, procVars, call, mutex0, launched, creator, relay,
                 answered, want, pkt, dropped, broken>>

RelayLost ==
  /\ Move("worker", "idle", "closeCalls") /\ relay
  /\ Event
  /\ relay' = FALSE
  /\ UNCHANGED <<stateVars, procVars, callVars, creator, conn, answered,
                 want, pkt, dropped, broken>>

\* Another call fails to make the relay again: the worker thread or the check
\* thread clears the table.
ClearCalls ==
  /\ ~relay /\ mutex0 = "free" /\ call # "gone"
  /\ Forget(TRUE)
  /\ UNCHANGED <<stateVars, procVars, mutex0, launched, creator, netVars, pc, want,
                 pkt, broken>>

\* pthread_cancel of the launch thread, if it can be found: it stops where it is
\* and releases nothing.
KillLaunch(p) ==
  /\ launched' = IF launched = "yes" THEN "over" ELSE launched
  /\ pc' = [p EXCEPT !["launch"] = IF launched = "yes" THEN "killed" ELSE @]

\* checkAndCloseCalls: the call has nothing left that carries it.
CloseCalls ==
  /\ At("worker", "closeCalls")
  /\ \/ /\ relay \/ (mutex0 = "free" /\ (call = "gone" \/ \E l \in Links : connId[l]))
        /\ Goto("worker", "idle")
        /\ UNCHANGED <<callVars, dropped>>
     \/ /\ ~relay /\ mutex0 = "free"
        /\ call # "gone" /\ \A l \in Links : ~connId[l]
        /\ KillLaunch([pc EXCEPT !["worker"] = "idle"])
        /\ Forget(TRUE) /\ mutex0' = mutex0
  /\ UNCHANGED <<stateVars, procVars, creator, netVars, want, pkt, broken>>

-----------------------------------------------------------------------------
(* closeCall, BYE_REQUEST, BYE_RESPONSE and logout: closeP2PConn under      *)
(* mutex_0, then the call is erased.                                        *)

Close(t) ==
  /\ Move(t, "idle", "cancel") /\ call # "gone" /\ mutex0 = "free"
  /\ UNCHANGED <<stateVars, procVars, callVars, creator, netVars, want, pkt,
                 dropped, broken>>

\* The peer answers the BYE_REQUEST of closeCall.
ByeResponse ==
  /\ Move("recv", "idle", "lock") /\ call # "gone" /\ mutex0 = "free"
  /\ pc["app"] \in {"cancel", "lock"}
  /\ UNCHANGED <<stateVars, procVars, callVars, creator, netVars, want, pkt,
                 dropped, broken>>

Cancel(t) ==
  /\ At(t, "cancel") /\ KillLaunch([pc EXCEPT ![t] = "lock"])
  /\ UNCHANGED <<stateVars, procVars, call, burrowed, connId, mutex0, creator,
                 netVars, want, pkt, dropped, broken>>

Logout ==
  /\ At("app", "idle") /\ mutex0 = "free" /\ call # "gone"
  /\ KillLaunch([pc EXCEPT !["app"] = "links"])
  /\ mutex0' = "app"
  /\ UNCHANGED <<stateVars, procVars, call, burrowed, connId, creator, netVars,
                 want, pkt, dropped, broken>>

\* Mutant: the early return does not release mutex_0.
CloseLockKept(t) ==
  /\ At(t, "lock") /\ mutex0 = "free"
  /\ Goto(t, IF call = "gone" THEN "idle" ELSE "links")
  /\ mutex0' = t
  /\ UNCHANGED <<stateVars, procVars, call, burrowed, connId, launched, creator,
                 netVars, want, pkt, dropped, broken>>

CloseLock(t) ==
  /\ At(t, "lock") /\ mutex0 = "free"
  /\ Goto(t, IF call = "gone" THEN "idle" ELSE "links")
  /\ mutex0' = IF call = "gone" THEN "free" ELSE t
  /\ UNCHANGED <<stateVars, procVars, call, burrowed, connId, launched, creator,
                 netVars, want, pkt, dropped, broken>>

\* Mutant: the second link is closed only if there is no first one.
CloseLinksElse(t) ==
  /\ Move(t, "links", "stop")
  /\ conn' = [l \in Links |-> IF connId[l] /\ conn[l] = "open" /\
                                 (l = "internet" => ~connId["intranet"])
                                THEN "closing" ELSE conn[l]]
  /\ connId' = [l \in Links |-> FALSE]
  /\ burrowed' = [l \in Links |-> burrowed[l] /\ ~connId[l]]
  /\ UNCHANGED <<stateVars, procVars, call, mutex0, launched, creator, relay, answered,
                 events, want, pkt, dropped, broken>>

\* Mutant: the call is erased before its processor is stopped.
CloseLinksErase(t) ==
  /\ Move(t, "links", "stop")
  /\ conn' = [l \in Links |-> IF connId[l] /\ conn[l] = "open" THEN "closing" ELSE conn[l]]
  /\ Forget(dropped)
  /\ UNCHANGED <<stateVars, procVars, mutex0, launched, creator, relay, answered,
                 events, want, pkt, broken>>

CloseLinks(t) ==
  /\ Move(t, "links", "stop")
  /\ conn' = [l \in Links |-> IF connId[l] /\ conn[l] = "open" THEN "closing" ELSE conn[l]]
  /\ connId' = [l \in Links |-> FALSE]
  /\ burrowed' = [l \in Links |-> burrowed[l] /\ ~connId[l]]
  /\ UNCHANGED <<stateVars, procVars, call, mutex0, launched, creator, relay, answered,
                 events, want, pkt, dropped, broken>>

\* Mutant: a processor whose thread has ended is left in gP2PProcessors.
StopP2PEnded(t) ==
  /\ At(t, "stop") /\ gMutex = "free"
  /\ LET found == proc = "listed" /\ ~mStop
     IN /\ Goto(t, IF found THEN "join" ELSE "erase")
        /\ mStop' = (mStop \/ found)
        /\ gMutex' = IF found THEN t ELSE "free"
  /\ UNCHANGED <<mState, detects, exchanges, punches, wan, peerWan, result, proc,
                 late, callVars, creator, netVars, want, pkt, dropped, broken>>

\* Mutant: the return for a processor that is not there keeps gMutex.
StopP2PLocked(t) ==
  /\ At(t, "stop") /\ gMutex = "free"
  /\ Goto(t, IF proc = "listed" THEN "join" ELSE "erase")
  /\ mStop' = (mStop \/ proc = "listed")
  /\ gMutex' = t
  /\ UNCHANGED <<mState, detects, exchanges, punches, wan, peerWan, result, proc,
                 late, callVars, creator, netVars, want, pkt, dropped, broken>>

\* stopP2P: gMutex is held until the processor's thread has ended.
StopP2P(t) ==
  /\ At(t, "stop") /\ gMutex = "free"
  /\ Goto(t, IF proc = "listed" THEN "join" ELSE "erase")
  /\ mStop' = (mStop \/ proc = "listed")
  /\ gMutex' = IF proc = "listed" THEN t ELSE "free"
  /\ UNCHANGED <<mState, detects, exchanges, punches, wan, peerWan, result, proc,
                 late, callVars, creator, netVars, want, pkt, dropped, broken>>

\* Mutant: the thread is not waited for.
JoinNot(t) ==
  /\ Move(t, "join", "delete")
  /\ UNCHANGED <<stateVars, procVars, callVars, creator, netVars, want, pkt,
                 dropped, broken>>

\* stop(): mThread is NULL, or its end is waited for.
Join(t) ==
  /\ Move(t, "join", "delete") /\ pc["run"] \in {"off", "ended"}
  /\ UNCHANGED <<stateVars, procVars, callVars, creator, netVars, want, pkt,
                 dropped, broken>>

Delete(t) ==
  /\ Move(t, "delete", "erase")
  /\ proc' = "deleted" /\ gMutex' = "free"
  /\ UNCHANGED <<stateVars, late, callVars, creator, netVars, want, pkt, dropped, broken>>

EraseCall(t) ==
  /\ Move(t, "erase", "idle")
  /\ Forget(dropped) /\ mutex0' = "free"
  /\ UNCHANGED <<stateVars, procVars, launched, creator, netVars, want, pkt, broken>>

Continue(t) == Cancel(t) \/ CloseLock(t) \/ CloseLinks(t) \/ StopP2P(t) \/ Join(t)
               \/ Delete(t) \/ EraseCall(t)

-----------------------------------------------------------------------------
\* What the launch thread does with a lock in its hand.
LaunchHolding == LaunchAccept \/ LaunchRefuse \/ LaunchGone \/ Listed("launch")

Launch == LaunchLock \/ LaunchHolding \/ Insert("launch") \/ Start("launch")

Recv == \/ Insert("recv") \/ Listed("recv") \/ Start("recv")
        \/ ~Wild("recv") /\ (HandleNetInfo \/ Compare("recv") \/ Assign("recv"))

Worker == ~Wild("worker") /\ (Handle \/ CloseCalls)

Events ==
  \/ CreateResponse \/ Register
  \/ DetectResp \/ NetInfo
  \/ \E k \in {"request", "response"}, l \in Links : BurrowPacket(<<k, l>>)
  \/ \E l \in Links : Connected(l) \/ ConnectedWild(l) \/ ConnEnds(l) \/ ConnLost(l)
  \/ RelayLost \/ ClearCalls
  \/ \E t \in Closers : Close(t)
  \/ ByeResponse \/ Logout

Next ==
  /\ ~broken
  /\ \/ Run \/ Launch \/ Recv \/ Worker \/ Events
     \/ \E t \in {"worker", "recv"} : Wild(t) /\ Break
     \/ \E t \in Closers : Continue(t)

Spec == Init /\ [][Next]_vars

\* The threads that are inside an operation go on; what the network, the peer
\* and the application do is open, and nothing waits for the worker thread.  The
\* launch thread goes on as long as it holds a lock and is not cancelled.
Fairness ==
  /\ WF_vars(~broken /\ Run)
  /\ WF_vars(~broken /\ (Recv \/ Continue("recv")))
  /\ WF_vars(~broken /\ Continue("app"))
  /\ WF_vars(~broken /\ LaunchHolding)

FairSpec == Spec /\ Fairness

-----------------------------------------------------------------------------
(* Properties.                                                              *)

TypeOK ==
  /\ mState \in P2PState /\ mStop \in BOOLEAN
  /\ detects \in 0 .. MaxDetect /\ exchanges \in 0 .. MaxExchange
  /\ punches \in 0 .. MaxPunch
  /\ wan \in BOOLEAN /\ peerWan \in BOOLEAN
  /\ result \in Links \union {"none", "failed"}
  /\ proc \in {"none", "listed", "deleted"}
  /\ gMutex \in Holders \union {"free"} /\ mutex0 \in Holders \union {"free"}
  /\ late \in BOOLEAN
  /\ call \in {"waiting", "running", "gone"} /\ creator \in BOOLEAN
  /\ burrowed \in [Links -> BOOLEAN] /\ connId \in [Links -> BOOLEAN]
  /\ conn \in [Links -> {"none", "creating", "open", "closing"}]
  /\ launched \in {"no", "yes", "over"} /\ relay \in BOOLEAN
  /\ pc \in [Threads -> Labels]
  /\ want \in [{"run", "worker", "recv"} -> P2PState]
  /\ pkt \in Packets /\ answered \subseteq Links
  /\ events \in 0 .. MaxEvents
  /\ dropped \in BOOLEAN /\ broken \in BOOLEAN

\* stop() joins before stopP2P deletes: the thread of a processor never runs on
\* a processor that was deleted.  The one exception is a launch thread that no
\* closer could find, which has listed the processor and starts it only after
\* stop() has looked for its thread (late).
ProcessorOutlivesThread ==
  pc["run"] \notin {"off", "ended"} => proc = "listed" \/ late

\* run looks the session up and uses it after mutex_0 is released: the session
\* stays as long as it does, unless the table lets go of the call without
\* stopping its processor.
SessionOutlivesSender ==
  pc["run"] \in {"netSend", "punchSend"} => call = "running" \/ dropped

\* Nothing of a call that was closed stays behind: neither the processor and
\* its thread, unless that was started late, nor, in the transport, a connection
\* that nobody will close.
NothingLeft ==
  call = "gone" /\ ~dropped /\ ~late =>
    /\ proc # "listed" /\ pc["run"] \in {"off", "ended"}
    /\ \A l \in Links : conn[l] # "open"

\* A link that is up is known to its session, which will send on it and close
\* it, unless the session is already gone with the call.
LinksAreKnown ==
  \A l \in Links : conn[l] = "open" => (call = "running" /\ connId[l]) \/ dropped

\* closeP2PConn waits for the processor's thread, which waits for mutex_0: the
\* caller holds it.
JoinDeadlock ==
  /\ pc["run"] \in {"netInfo", "punch"}
  /\ \E t \in Closers : pc[t] = "join" /\ mutex0 = t

\* The launch thread was cancelled between taking mutex_0 or gMutex and releasing
\* it: whoever needs that lock waits for ever.
KilledHolder == pc["launch"] = "killed" /\ "launch" \in {mutex0, gMutex}

\* The thread that t waits for: the holder of the lock it needs, or the one it
\* joins; "free" if t can go on.
NeedsMutex0(t) ==
  \/ pc[t] \in {"lock", "punch", "burrow"}
  \/ pc[t] = "netInfo" /\ t = "run" /\ mState # NET_DETECT_TIMEOUT
  \/ pc[t] = "closeCalls" /\ ~relay

WaitsFor(t) ==
  IF NeedsMutex0(t) THEN mutex0
  ELSE IF pc[t] \in {"insert", "stop"} THEN gMutex
  ELSE IF pc[t] = "join" /\ pc["run"] \notin {"off", "ended"} THEN "run"
  ELSE "free"

AtWork(t) == pc[t] \notin {"idle", "off", "ended", "killed"}

\* mutex_0, gMutex and the join make these two deadlocks and no other: whoever
\* waits, waits for a thread that is at work and can go on, or that waits for one
\* that can; so nobody returns with a lock, and no two threads take the locks in
\* both orders.
OnlyKnownDeadlocks ==
  \/ JoinDeadlock \/ KilledHolder
  \/ \A t \in Threads : WaitsFor(t) # "free" =>
       LET u == WaitsFor(t)
           v == WaitsFor(u)
       IN /\ AtWork(u)
          /\ v # "free" => AtWork(v) /\ WaitsFor(v) = "free"

\* Once started the processor comes to a result and tells it, whatever the
\* network does.
PunchingEnds ==
  pc["run"] = "loop" ~> result # "none" \/ JoinDeadlock \/ broken

\* Once somebody hangs up the call goes and mutex_0 is released, unless they meet
\* the deadlock of the join, or have cancelled the launch thread while it held a
\* lock that they need.
CloseEnds ==
  (\E t \in Closers : pc[t] \in Closing)
    ~> (call = "gone" /\ mutex0 = "free") \/ JoinDeadlock \/ KilledHolder \/ broken
=============================================================================
