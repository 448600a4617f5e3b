------------------------------ MODULE RtsCalls ------------------------------
(***************************************************************************)
(* The RTS call table of one User: currentCalls/currentCallVec under the   *)
(* read-write lock mutex_0, the relay link the calls share, and the        *)
(* threads that work on them: application threads (dialCall, closeCall,    *)
(* logout), the receive thread (signalling from the frontend), the check   *)
(* thread (rtsScanAndCallBack, relayConnScanAndCallBack), the transport's  *)
(* worker thread (connection and stream callbacks) and one launch thread   *)
(* per incoming call (User::onLaunched).                                   *)
(*                                                                         *)
(* A step is the code between two points where another thread can change   *)
(* what the step reads: a critical section of mutex_0, or a run of code    *)
(* that touches unlocked state once.  Calls of a thread that only read     *)
(* under mutex_0 wait for the lock like those that write.                  *)
(***************************************************************************)
EXTENDS Naturals, FiniteSets

CONSTANTS
  OutCalls,      \* call ids this user dials, each to a peer of its own
  InCalls,       \* call ids the server invites this user to
  AppThreads,    \* threads of the application
  Recv,          \* User::receivePacket
  Check,         \* User::checkTimeout
  Worker,        \* the worker thread of the XMD transceiver
  Conns,         \* transport connections that can be opened to a relay
  NoConn,        \* relayConnId = 0
  NoCall,        \* a thread at rest works on no call
  NoThread,      \* mutex_0 is not held
  MaxCallNum,    \* User::maxCallNum
  AppOps,        \* what the application does: "dial", "close", "logout"
  ServerMsgs,    \* what the server sends: "INVITE", "CREATE_OK", ...
  RelayFaults,   \* what can go wrong with the relay: "open", "connect", ...
  P2PEnabled     \* User::isP2PEnabled()

Calls == OutCalls \union InCalls
Threads == AppThreads \union {Recv, Check, Worker} \union InCalls

ASSUME CallsAssumption ==
  /\ OutCalls \intersect InCalls = {}
  /\ IsFiniteSet(Calls)
  /\ NoCall \notin Calls
ASSUME ThreadsAssumption ==
  /\ Recv # Check /\ Recv # Worker /\ Check # Worker
  /\ {Recv, Check, Worker} \intersect (AppThreads \union Calls) = {}
  /\ AppThreads \intersect Calls = {}
  /\ NoThread \notin Threads
ASSUME RelayAssumption == NoConn \notin Conns
ASSUME LimitAssumption == MaxCallNum \in Nat \ {0}

Waiting == {"WAIT_SEND_CREATE_REQUEST", "WAIT_CALL_ONLAUNCHED",
            "WAIT_INVITEE_RESPONSE", "WAIT_CREATE_RESPONSE"}
CallState == Waiting \union {"RUNNING", "none"}   \* "none": not in currentCalls

VARIABLES
  call,            \* currentCalls: the state of each call's session
  callVec,         \* currentCallVec, as a set: ids are inserted once
  aged,            \* calls whose state is RTS_CALL_TIMEOUT seconds old
  p2p,             \* the direct connection of each call
  launchCalls,     \* onlaunchCalls: calls with a registered launch thread
  lock,            \* the launch thread that holds mutex_0 for writing
  relayConnId, relayLinkState,
  bound,           \* bindRelayResponse is set
  conn,            \* the transport's connections to the relay
  pc, arg, after,  \* per thread: where it is, its call, where it returns to
  opened,          \* per thread: what createConnection returned to it
  birth,           \* how far the insertion of each call has come
  sent, got,       \* signalling sent to, and received from, the server
  told             \* how often each callback was made for each call

callVars   == <<call, callVec, aged, p2p, birth>>
relayVars  == <<relayConnId, relayLinkState, bound, conn>>
threadVars == <<pc, arg, after, opened>>
launchVars == <<launchCalls, lock>>
outVars    == <<sent, got, told>>
vars == <<callVars, launchVars, relayVars, threadVars, outVars>>

Callbacks == {"launched", "accepted", "refused", "closed"}
Entering == {"relay", "relayBeing", "relayBound", "createRelay", "openRelay",
             "setRelay", "insert", "insertReady"}
Labels == Entering \union Callbacks \union
          {"idle", "register", "answerOk", "answerFail", "update", "cancel",
           "delete", "closeRelay", "dropRelay", "clear", "reset", "flush",
           "closeCalls", "begin", "ask", "locked", "accepting", "startP2P",
           "unregister", "aborted"}
SentMsg == {"CREATE", "INVITE_OK", "INVITE_FAIL", "BYE", "BYE_RSP", "UPDATE_RSP"}
GotMsg  == {"CREATE_OK", "CREATE_FAIL", "BYE", "BYE_RSP", "UPDATE"}

Init ==
  /\ call = [c \in Calls |-> "none"]
  /\ callVec = {} /\ aged = {} /\ launchCalls = {}
  /\ p2p = [c \in Calls |-> "off"]
  /\ birth = [c \in Calls |-> "fresh"]
  /\ lock = NoThread
  /\ relayConnId = NoConn /\ relayLinkState = "NOT_CREATED" /\ bound = FALSE
  /\ conn = [k \in Conns |-> "free"]
  /\ pc = [t \in Threads |-> "idle"]
  /\ arg = [t \in Threads |-> NoCall]
  /\ after = [t \in Threads |-> "idle"]
  /\ opened = [t \in Threads |-> NoConn]
  /\ sent = {} /\ got = {}
  /\ told = [k \in Callbacks |-> [c \in Calls |-> 0]]

-----------------------------------------------------------------------------
(* What the steps share. *)

InMap == {c \in Calls : call[c] # "none"}
LockFree == lock = NoThread

\* The limit is checked for equality, and long before the call is inserted.
TableFull == Cardinality(InMap) = MaxCallNum

\* sendByeRequest for the calls in S: refused for a call that is not running.
ByeRequests(S) == {<<"BYE", c>> : c \in {d \in S : call[d] = "RUNNING"}}

\* Mutant of Expired: the branch for invitations is missing.
ExpiredDialled == {c \in callVec \intersect aged : c \in OutCalls /\ call[c] \in Waiting}

\* What rtsScanAndCallBack times out.
Expired == {c \in callVec \intersect aged : call[c] \in Waiting}

Aborted == \E t \in Threads : pc[t] = "aborted"

\* Thread t goes on at label l with call c, to return to label r; the threads
\* in killed stop where they are, and what they hold stays held.
Step(t, l, c, r, killed) ==
  /\ pc' = [u \in Threads |-> IF u = t THEN l
                              ELSE IF u \in killed THEN "idle" ELSE pc[u]]
  /\ arg' = [u \in Threads |-> IF u = t THEN c
                               ELSE IF u \in killed THEN NoCall ELSE arg[u]]
  /\ after' = [u \in Threads |-> IF u = t THEN r
                                 ELSE IF u \in killed THEN "idle" ELSE after[u]]

Goto(t, l) == Step(t, l, arg[t], "idle", {})
Rest(t)    == Step(t, "idle", NoCall, "idle", {})

\* Thread t returns to label l, at rest if that is idle.
Resume(t, l) == IF l = "idle" THEN Rest(t) ELSE Goto(t, l)

\* The tail that may close the relay, and what follows it.
CloseThen(t, r) == Step(t, "closeRelay", arg[t], r, {})

\* A thread at rest starts to work on call c at label l.
Start(t, c, l) == pc[t] = "idle" /\ Step(t, l, c, "idle", {})

\* The callbacks in K, pairs of a call and a callback, are made.
Tell(K) ==
  told' = [k \in Callbacks |->
            [c \in Calls |-> IF <<c, k>> \in K THEN told[k][c] + 1 ELSE told[k][c]]]

\* Mutant of Enter: the id is not appended to currentCallVec.
EnterMapOnly(c, state) ==
  /\ call' = [call EXCEPT ![c] = state]
  /\ birth' = [birth EXCEPT ![c] = "entered"]
  /\ UNCHANGED <<callVec, aged, p2p>>

Enter(c, state) ==
  /\ call' = [call EXCEPT ![c] = state]
  /\ callVec' = callVec \union {c}
  /\ birth' = [birth EXCEPT ![c] = "entered"]
  /\ UNCHANGED <<aged, p2p>>

\* The calls in S leave the map, those in V the vector.  A direct connection
\* that is up goes with its session; one that is being made goes on.
Remove(S, V) ==
  /\ call' = [c \in Calls |-> IF c \in S THEN "none" ELSE call[c]]
  /\ callVec' = callVec \ V
  /\ aged' = aged \ S
  /\ p2p' = [c \in Calls |-> IF c \in S /\ p2p[c] = "up" THEN "off" ELSE p2p[c]]
  /\ UNCHANGED birth

\* A call that is not in the map is left where it is in the vector.
Erase(c) == Remove({c}, {c} \intersect InMap)

Advance(c, state) ==
  /\ call' = [call EXCEPT ![c] = state]
  /\ aged' = aged \ {c}
  /\ UNCHANGED <<callVec, birth>>

\* P2PProcessor::startP2P: a direct connection is tried for call c.
StartP2P(c) == p2p' = IF P2PEnabled THEN [p2p EXCEPT ![c] = "trying"] ELSE p2p

\* XMDTransceiver::closeConnection: the worker will close an open connection;
\* a bind response that is still due can come before it does.
Closing(k) ==
  [j \in Conns |->
     CASE j = k /\ conn[j] \in {"connecting", "up"} -> "closing"
       [] j = k /\ conn[j] = "bound"               -> "ending"
       [] OTHER                                    -> conn[j]]

ResetRelayLink ==
  /\ relayConnId' = NoConn
  /\ relayLinkState' = "NOT_CREATED"
  /\ bound' = FALSE

-----------------------------------------------------------------------------
(* dialCall, and the same path of INVITE_REQUEST. *)

DialCall(t, c) ==
  /\ "dial" \in AppOps /\ t \in AppThreads
  /\ c \in OutCalls /\ birth[c] = "fresh"
  /\ LockFree
  /\ ~TableFull
  /\ Start(t, c, "relay")
  /\ birth' = [birth EXCEPT ![c] = "begun"]
  /\ UNCHANGED <<call, callVec, aged, p2p, launchVars, relayVars, opened,
                 outVars>>

InviteRequest(c) ==
  /\ "INVITE" \in ServerMsgs
  /\ c \in InCalls /\ birth[c] = "fresh"
  /\ LockFree
  /\ ~TableFull
  /\ Start(Recv, c, "relay")
  /\ birth' = [birth EXCEPT ![c] = "begun"]
  /\ UNCHANGED <<call, callVec, aged, p2p, launchVars, relayVars, opened,
                 outVars>>

InviteBusy(c) ==
  /\ "INVITE" \in ServerMsgs
  /\ c \in InCalls /\ birth[c] = "fresh" /\ pc[Recv] = "idle"
  /\ LockFree
  /\ TableFull
  /\ birth' = [birth EXCEPT ![c] = "begun"]
  /\ sent' = sent \union {<<"INVITE_FAIL", c>>}
  /\ UNCHANGED <<call, callVec, aged, p2p, launchVars, relayVars, threadVars,
                 got, told>>

\* relayLinkState is read without a lock and again for each branch; a dial that
\* finds it changed back returns 0.
RelayBranch(t) ==
  /\ \/ /\ pc[t] = "relay"
        /\ Goto(t, IF relayLinkState = "NOT_CREATED" THEN "createRelay" ELSE "relayBeing")
     \/ /\ pc[t] = "relayBeing"
        /\ Goto(t, IF relayLinkState = "BEING_CREATED" THEN "insert"
                   ELSE IF arg[t] \in OutCalls THEN "relayBound" ELSE "insertReady")
     \/ /\ pc[t] = "relayBound"
        /\ IF relayLinkState = "SUCC_CREATED" THEN Goto(t, "insertReady") ELSE Rest(t)
  /\ UNCHANGED <<callVars, launchVars, relayVars, opened, outVars>>

CreateRelay(t) ==
  /\ pc[t] = "createRelay"
  /\ Goto(t, IF relayConnId # NoConn THEN "insert" ELSE "openRelay")
  /\ UNCHANGED <<callVars, launchVars, relayVars, opened, outVars>>

\* A connection id is used again once nothing refers to it.
OpenRelay(t, k) ==
  /\ pc[t] = "openRelay" /\ conn[k] = "free" /\ k # relayConnId
  /\ \A u \in Threads : opened[u] # k
  /\ conn' = [conn EXCEPT ![k] = "connecting"]
  /\ opened' = [opened EXCEPT ![t] = k]
  /\ Goto(t, "setRelay")
  /\ UNCHANGED <<callVars, launchVars, relayConnId, relayLinkState, bound,
                 outVars>>

\* No address, no local port or no connection: the dial returns 0, the
\* invitation is refused.
OpenRelayFails(t) ==
  /\ pc[t] = "openRelay"
  /\ "open" \in RelayFaults
  /\ Rest(t)
  /\ sent' = IF t = Recv THEN sent \union {<<"INVITE_FAIL", arg[t]>>} ELSE sent
  /\ UNCHANGED <<callVars, launchVars, relayVars, opened, got, told>>

SetRelay(t) ==
  /\ pc[t] = "setRelay"
  /\ relayConnId' = opened[t]
  /\ relayLinkState' = "BEING_CREATED"
  /\ opened' = [opened EXCEPT ![t] = NoConn]
  /\ Goto(t, "insert")
  /\ UNCHANGED <<callVars, launchVars, bound, conn, outVars>>

\* The relay is not there yet: the call waits for BIND_RELAY_RESPONSE.
Insert(t) ==
  /\ pc[t] = "insert" /\ LockFree
  /\ Enter(arg[t], IF arg[t] \in OutCalls THEN "WAIT_SEND_CREATE_REQUEST"
                                          ELSE "WAIT_CALL_ONLAUNCHED")
  /\ Rest(t)
  /\ UNCHANGED <<launchVars, relayVars, opened, outVars>>

\* The relay is bound: the request goes out at once, unless the relay has
\* been reset since relayLinkState was read (sendCreateRequest returns false).
InsertAndRequest(t) ==
  /\ pc[t] = "insertReady" /\ arg[t] \in OutCalls /\ LockFree
  /\ Enter(arg[t], "WAIT_CREATE_RESPONSE")
  /\ sent' = IF bound THEN sent \union {<<"CREATE", arg[t]>>} ELSE sent
  /\ Rest(t)
  /\ UNCHANGED <<launchVars, relayVars, opened, got, told>>

\* The launch thread runs from here, and is registered by the next step.
InsertAndLaunch(t) ==
  /\ pc[t] = "insertReady" /\ arg[t] \in InCalls /\ LockFree
  /\ Enter(arg[t], "WAIT_INVITEE_RESPONSE")
  /\ pc' = [pc EXCEPT ![t] = "register", ![arg[t]] = "begin"]
  /\ arg' = [arg EXCEPT ![arg[t]] = arg[t]]
  /\ UNCHANGED <<after, launchVars, relayVars, opened, outVars>>

Register(t) ==
  /\ pc[t] = "register"
  /\ launchCalls' = launchCalls \union {arg[t]}
  /\ Rest(t)
  /\ UNCHANGED <<callVars, lock, relayVars, opened, outVars>>

-----------------------------------------------------------------------------
(* Signalling from the server, on the receive thread. *)

\* The server sends each message for a call once, knows a dialled call from
\* its CREATE_REQUEST on, and answers CREATE_REQUEST and BYE_REQUEST.

Receive(msg, c) ==
  /\ msg \in ServerMsgs
  /\ <<msg, c>> \notin got
  /\ birth[c] = "entered"
  /\ c \in OutCalls \/ msg \in {"CREATE_OK", "CREATE_FAIL"} => <<"CREATE", c>> \in sent
  /\ msg = "BYE_RSP" => <<"BYE", c>> \in sent
  /\ got' = got \union {<<msg, c>>}

\* countCurrentCallsMap(callId) is checked here, the call is used later.
CreateResponse(c, ok) ==
  /\ <<IF ok THEN "CREATE_FAIL" ELSE "CREATE_OK", c>> \notin got
  /\ Receive(IF ok THEN "CREATE_OK" ELSE "CREATE_FAIL", c)
  /\ LockFree
  /\ call[c] # "none"
  /\ Start(Recv, c, IF ok THEN "answerOk" ELSE "answerFail")
  /\ UNCHANGED <<callVars, launchVars, relayVars, opened, sent, told>>

\* currentCalls.at(callId): nothing catches what it throws.
\* Mutant of AnswerOk: a call that is gone is skipped, and answered all the same.
AnswerOkGone(t) ==
  /\ pc[t] = "answerOk" /\ LockFree
  /\ Goto(t, "accepted")
  /\ IF call[arg[t]] = "none"
       THEN UNCHANGED callVars
       ELSE Advance(arg[t], "RUNNING") /\ StartP2P(arg[t])
  /\ UNCHANGED <<launchVars, relayVars, opened, outVars>>

AnswerOk(t) ==
  /\ pc[t] = "answerOk" /\ LockFree
  /\ IF call[arg[t]] = "none"
       THEN Goto(t, "aborted") /\ UNCHANGED callVars
       ELSE /\ Goto(t, "accepted")
            /\ Advance(arg[t], "RUNNING")
            /\ StartP2P(arg[t])
  /\ UNCHANGED <<launchVars, relayVars, opened, outVars>>

\* Mutant of AnswerFail: deleteFromCurrentCallsMap is forgotten.
AnswerFailKeep(t) ==
  /\ pc[t] = "answerFail" /\ LockFree
  /\ CloseThen(t, "refused")
  /\ UNCHANGED <<callVars, launchVars, relayVars, opened, outVars>>

AnswerFail(t) ==
  /\ pc[t] = "answerFail" /\ LockFree
  /\ Erase(arg[t])
  /\ CloseThen(t, "refused")
  /\ UNCHANGED <<launchVars, relayVars, opened, outVars>>

ByeRequest(c) ==
  /\ Receive("BYE", c)
  /\ LockFree
  /\ call[c] # "none"
  /\ Start(Recv, c, "cancel")
  /\ sent' = sent \union {<<"BYE_RSP", c>>}
  /\ UNCHANGED <<callVars, launchVars, relayVars, opened, told>>

ByeResponse(c) ==
  /\ Receive("BYE_RSP", c)
  /\ LockFree
  /\ call[c] # "none"
  /\ Start(Recv, c, "delete")
  /\ UNCHANGED <<callVars, launchVars, relayVars, opened, sent, told>>

UpdateRequest(c) ==
  /\ Receive("UPDATE", c)
  /\ LockFree
  /\ call[c] # "none"
  /\ Start(Recv, c, "update")
  /\ UNCHANGED <<callVars, launchVars, relayVars, opened, sent, told>>

\* Only the session's peer address changes; currentCalls.at again.
Update(t) ==
  /\ pc[t] = "update" /\ LockFree
  /\ IF call[arg[t]] = "none"
       THEN Goto(t, "aborted") /\ UNCHANGED sent
       ELSE Rest(t) /\ sent' = sent \union {<<"UPDATE_RSP", arg[t]>>}
  /\ UNCHANGED <<callVars, launchVars, relayVars, opened, got, told>>

\* A response or a request for a call that is not in the map is dropped.
DropSignal(msg, c) ==
  /\ Receive(msg, c)
  /\ pc[Recv] = "idle" /\ LockFree
  /\ call[c] = "none"
  /\ UNCHANGED <<callVars, launchVars, relayVars, threadVars, sent, told>>

-----------------------------------------------------------------------------
(* closeCall, logout, and the tail that closing a call shares.             *)

\* The session is copied; whether the peer is told depends on the copy.
CloseCall(t, c) ==
  /\ "close" \in AppOps /\ t \in AppThreads
  /\ birth[c] = "entered"
  /\ c \in InCalls => told["launched"][c] > 0
  /\ LockFree
  /\ call[c] # "none"
  /\ Start(t, c, "cancel")
  /\ sent' = sent \union ByeRequests({c})
  /\ UNCHANGED <<callVars, launchVars, relayVars, opened, got, told>>

\* pthread_cancel of the launch thread, not under mutex_0, wherever it is.
Cancel(t) ==
  /\ pc[t] = "cancel"
  /\ Step(t, "delete", arg[t], "idle", {arg[t]} \intersect launchCalls)
  /\ launchCalls' = launchCalls \ {arg[t]}
  /\ UNCHANGED <<callVars, lock, relayVars, opened, outVars>>

\* Mutant of Delete: the handler returns without onClosed.
DeleteSilent(t) ==
  /\ pc[t] = "delete" /\ LockFree
  /\ Erase(arg[t])
  /\ CloseThen(t, "idle")
  /\ UNCHANGED <<launchVars, relayVars, opened, outVars>>

Delete(t) ==
  /\ pc[t] = "delete" /\ LockFree
  /\ Erase(arg[t])
  /\ CloseThen(t, "closed")
  /\ UNCHANGED <<launchVars, relayVars, opened, outVars>>

CloseRelayWhenNoCall(t) ==
  /\ pc[t] = "closeRelay"
  /\ relayConnId = NoConn \/ LockFree
  /\ IF relayConnId = NoConn \/ InMap # {}
       THEN Resume(t, after[t])
       ELSE Step(t, "dropRelay", arg[t], after[t], {})
  /\ UNCHANGED <<callVars, launchVars, relayVars, opened, outVars>>

\* A call may have been inserted since; the link is reset all the same.
DropRelay(t) ==
  /\ pc[t] = "dropRelay"
  /\ conn' = Closing(relayConnId)
  /\ ResetRelayLink
  /\ Resume(t, after[t])
  /\ UNCHANGED <<callVars, launchVars, opened, outVars>>

\* onAnswered and onClosed, as the last step of a handler.
CallBack(t) ==
  /\ pc[t] \in {"accepted", "refused", "closed"}
  /\ Tell({<<arg[t], pc[t]>>})
  /\ Rest(t)
  /\ UNCHANGED <<callVars, launchVars, relayVars, opened, sent, got>>

\* Everything happens under mutex_0, the callbacks included; a call that is
\* not running is dropped without one.
Logout(t) ==
  /\ "logout" \in AppOps /\ t \in AppThreads
  /\ pc[t] = "idle" /\ LockFree
  /\ LET running == {c \in callVec : call[c] = "RUNNING"}
         killed  == {c \in callVec : call[c] # "none"} \intersect launchCalls
     IN /\ Step(t, "closeRelay", NoCall, "idle", killed)
        /\ launchCalls' = launchCalls \ killed
        /\ sent' = sent \union ByeRequests(running)
        /\ Tell({<<c, "closed">> : c \in running})
  /\ Remove(Calls, Calls)
  /\ UNCHANGED <<lock, relayVars, opened, got>>

-----------------------------------------------------------------------------
(* The launch thread of call c: User::onLaunched. *)

\* The thread that finds no session leaves its registration behind.
LaunchBegin(c) ==
  /\ pc[c] = "begin" /\ LockFree
  /\ IF call[c] = "none"
       THEN Rest(c) /\ UNCHANGED told
       ELSE Goto(c, "ask") /\ Tell({<<c, "launched">>})
  /\ UNCHANGED <<callVars, launchVars, relayVars, opened, sent, got>>

\* The application's handler has returned.
LaunchLock(c) ==
  /\ pc[c] = "ask" /\ LockFree
  /\ lock' = c
  /\ Goto(c, "locked")
  /\ UNCHANGED <<callVars, launchCalls, relayVars, opened, outVars>>

\* Mutant of LaunchGone: the early return does not release the lock.
LaunchGoneLocked(c) ==
  /\ pc[c] = "locked" /\ call[c] = "none"
  /\ Rest(c)
  /\ UNCHANGED <<callVars, launchVars, relayVars, opened, outVars>>

LaunchGone(c) ==
  /\ pc[c] = "locked" /\ call[c] = "none"
  /\ lock' = NoThread
  /\ Rest(c)
  /\ UNCHANGED <<callVars, launchCalls, relayVars, opened, outVars>>

\* Only the map is erased: the id stays in the vector.
LaunchRefuse(c) ==
  /\ pc[c] = "locked" /\ call[c] # "none"
  /\ sent' = sent \union {<<"INVITE_FAIL", c>>}
  /\ Remove({c}, {})
  /\ lock' = NoThread
  /\ CloseThen(c, "unregister")
  /\ UNCHANGED <<launchCalls, relayVars, opened, got, told>>

LaunchAccept(c) ==
  /\ pc[c] = "locked" /\ call[c] # "none"
  /\ sent' = sent \union {<<"INVITE_OK", c>>}
  /\ Goto(c, "accepting")
  /\ UNCHANGED <<callVars, launchVars, relayVars, opened, got, told>>

\* Mutant of LaunchRunning: the changed copy of the session is not stored.
LaunchRunningCopy(c) ==
  /\ pc[c] = "accepting"
  /\ lock' = NoThread
  /\ Goto(c, "startP2P")
  /\ UNCHANGED <<callVars, launchCalls, relayVars, opened, outVars>>

LaunchRunning(c) ==
  /\ pc[c] = "accepting"
  /\ Advance(c, "RUNNING") /\ UNCHANGED p2p
  /\ lock' = NoThread
  /\ Goto(c, "startP2P")
  /\ UNCHANGED <<launchCalls, relayVars, opened, outVars>>

\* The call may be gone by now; its P2PProcessor is started all the same.
LaunchP2P(c) ==
  /\ pc[c] = "startP2P"
  /\ StartP2P(c)
  /\ Goto(c, "unregister")
  /\ UNCHANGED <<call, callVec, aged, birth, launchVars, relayVars, opened,
                 outVars>>

Unregister(c) ==
  /\ pc[c] = "unregister"
  /\ launchCalls' = launchCalls \ {c}
  /\ Rest(c)
  /\ UNCHANGED <<callVars, lock, relayVars, opened, outVars>>

-----------------------------------------------------------------------------
(* The check thread, and the passing of time. *)

Age(c) ==
  /\ call[c] \in Waiting /\ c \notin aged
  /\ aged' = aged \union {c}
  /\ UNCHANGED <<call, callVec, p2p, birth, launchVars, relayVars, threadVars,
                 outVars>>

\* rtsScanAndCallBack: everything but the tail happens under mutex_0.
RtsScan ==
  /\ pc[Check] = "idle" /\ LockFree
  /\ LET dialled == {c \in Expired : call[c] \in {"WAIT_SEND_CREATE_REQUEST",
                                                  "WAIT_CREATE_RESPONSE"}}
         invited == Expired \ dialled
     IN /\ Expired # {}
        /\ Remove(Expired, Expired)
        /\ Tell({<<c, "refused">> : c \in dialled} \union
                {<<c, "closed">> : c \in invited})
        /\ Step(Check, "closeRelay", NoCall, "idle", invited \intersect launchCalls)
        /\ launchCalls' = launchCalls \ invited
  /\ UNCHANGED <<lock, relayVars, opened, sent, got>>

\* relayConnScanAndCallBack: BEING_CREATED for RELAY_CONN_TIMEOUT seconds.
RelayScan ==
  /\ "stall" \in RelayFaults
  /\ pc[Check] = "idle"
  /\ relayLinkState = "BEING_CREATED"
  /\ conn' = Closing(relayConnId)
  /\ Goto(Check, "clear")
  /\ UNCHANGED <<callVars, launchVars, relayConnId, relayLinkState, bound,
                 opened, outVars>>

\* clearCurrentCallsMap, whatever the calls are doing; nobody is told.
Clear(t) ==
  /\ pc[t] = "clear" /\ LockFree
  /\ Remove(Calls, Calls)
  /\ Goto(t, "reset")
  /\ UNCHANGED <<launchVars, relayVars, opened, outVars>>

Reset(t) ==
  /\ pc[t] = "reset"
  /\ ResetRelayLink
  /\ Rest(t)
  /\ UNCHANGED <<callVars, launchVars, conn, opened, outVars>>

-----------------------------------------------------------------------------
(* The worker thread: connection and stream callbacks of the transport.    *)

\* sendExceptInviteResponse: the invitations still waiting are answered.
ExceptInvite ==
  {<<"INVITE_FAIL", c>> :
     c \in {d \in callVec : call[d] \in {"WAIT_CALL_ONLAUNCHED",
                                         "WAIT_INVITEE_RESPONSE"}}}

ConnCreateSucc(k) ==
  /\ pc[Worker] = "idle" /\ conn[k] = "connecting"
  /\ conn' = [conn EXCEPT ![k] = "up"]
  /\ UNCHANGED <<callVars, launchVars, relayConnId, relayLinkState, bound,
                 threadVars, outVars>>

ConnCreateFail(k) ==
  /\ "connect" \in RelayFaults
  /\ pc[Worker] = "idle" /\ conn[k] = "connecting" /\ LockFree
  /\ conn' = [conn EXCEPT ![k] = "free"]
  /\ sent' = sent \union ExceptInvite
  /\ Goto(Worker, "clear")
  /\ UNCHANGED <<callVars, launchVars, relayConnId, relayLinkState, bound,
                 opened, got, told>>

\* closeConnection was queued; until the worker takes it the connection lives.
ConnClosed(k) ==
  /\ pc[Worker] = "idle" /\ conn[k] \in {"closing", "ending"}
  /\ conn' = [conn EXCEPT ![k] = "free"]
  /\ UNCHANGED <<callVars, launchVars, relayConnId, relayLinkState, bound,
                 threadVars, outVars>>

\* BIND_RELAY_RESPONSE, on whichever connection it arrives.
BindSucc(k) ==
  /\ pc[Worker] = "idle" /\ conn[k] \in {"up", "closing"}
  /\ conn' = [conn EXCEPT ![k] = IF @ = "up" THEN "bound" ELSE "ending"]
  /\ bound' = TRUE
  /\ relayLinkState' = "SUCC_CREATED"
  /\ Goto(Worker, "flush")
  /\ UNCHANGED <<callVars, launchVars, relayConnId, opened, outVars>>

\* The calls that waited for the relay go on: requests, launch threads.
Flush ==
  /\ pc[Worker] = "flush" /\ LockFree
  /\ LET requested == {c \in callVec : /\ call[c] = "WAIT_SEND_CREATE_REQUEST"
                                       /\ bound}
         launching == {c \in callVec : call[c] = "WAIT_CALL_ONLAUNCHED"}
     IN /\ call' = [c \in Calls |->
                      IF c \in requested THEN "WAIT_CREATE_RESPONSE"
                      ELSE IF c \in launching THEN "WAIT_INVITEE_RESPONSE"
                      ELSE call[c]]
        /\ aged' = aged \ requested
        /\ sent' = sent \union {<<"CREATE", c>> : c \in requested}
        /\ launchCalls' = launchCalls \union launching
        /\ pc' = [t \in Threads |-> IF t = Worker THEN "idle"
                                    ELSE IF t \in launching THEN "begin" ELSE pc[t]]
        /\ arg' = [t \in Threads |-> IF t \in launching THEN t ELSE arg[t]]
  /\ UNCHANGED <<after, callVec, p2p, birth, lock, relayVars, opened, got,
                 told>>

BindFail(k) ==
  /\ "bind" \in RelayFaults
  /\ pc[Worker] = "idle" /\ conn[k] \in {"up", "closing"} /\ LockFree
  /\ sent' = sent \union ExceptInvite
  /\ conn' = Closing(k)
  /\ Goto(Worker, "clear")
  /\ UNCHANGED <<callVars, launchVars, relayConnId, relayLinkState, bound,
                 opened, got, told>>

\* handleXMDConnClosed of a relay connection that was not closed by us, or not yet.
ConnLost(k) ==
  /\ "lost" \in RelayFaults
  /\ pc[Worker] = "idle" /\ conn[k] # "free"
  /\ k = relayConnId \/ LockFree
  /\ conn' = [conn EXCEPT ![k] = "free"]
  /\ IF k = relayConnId THEN ResetRelayLink
                        ELSE UNCHANGED <<relayConnId, relayLinkState, bound>>
  /\ Goto(Worker, "closeCalls")
  /\ UNCHANGED <<callVars, launchVars, opened, outVars>>

\* ConnCreateSucc of a direct connection: currentCalls.at once more.
P2PConnected(c) ==
  /\ pc[Worker] = "idle" /\ p2p[c] = "trying" /\ LockFree
  /\ IF call[c] = "none"
       THEN Goto(Worker, "aborted") /\ UNCHANGED p2p
       ELSE p2p' = [p2p EXCEPT ![c] = "up"] /\ UNCHANGED <<pc, arg, after>>
  /\ UNCHANGED <<call, callVec, aged, birth, launchVars, relayVars, opened,
                 outVars>>

P2PConnLost(c) ==
  /\ pc[Worker] = "idle" /\ p2p[c] = "up" /\ LockFree
  /\ p2p' = [p2p EXCEPT ![c] = "off"]
  /\ Goto(Worker, "closeCalls")
  /\ UNCHANGED <<call, callVec, aged, birth, launchVars, relayVars, opened,
                 outVars>>

\* checkAndCloseCalls: without a relay only direct connections carry calls.
CloseCalls ==
  /\ pc[Worker] = "closeCalls"
  /\ relayConnId = NoConn /\ LockFree
  /\ LET lost    == {c \in callVec : call[c] # "none" /\ p2p[c] # "up"}
         running == {c \in lost : call[c] = "RUNNING"}
     IN /\ Remove(lost, lost)
        /\ sent' = sent \union ByeRequests(running)
        /\ Tell({<<c, "closed">> : c \in running})
        /\ Step(Worker, "idle", NoCall, "idle", lost \intersect launchCalls)
        /\ launchCalls' = launchCalls \ lost
  /\ UNCHANGED <<lock, relayVars, opened, got>>

KeepCalls ==
  /\ pc[Worker] = "closeCalls" /\ relayConnId # NoConn
  /\ Rest(Worker)
  /\ UNCHANGED <<callVars, launchVars, relayVars, opened, outVars>>

-----------------------------------------------------------------------------
\* The steps of a thread that is inside an operation.
Continue(t) ==
  \/ RelayBranch(t) \/ CreateRelay(t) \/ OpenRelayFails(t) \/ SetRelay(t)
  \/ \E k \in Conns : OpenRelay(t, k)
  \/ Insert(t) \/ InsertAndRequest(t) \/ InsertAndLaunch(t) \/ Register(t)
  \/ AnswerOk(t) \/ AnswerFail(t) \/ Update(t)
  \/ Cancel(t) \/ Delete(t) \/ CloseRelayWhenNoCall(t) \/ DropRelay(t)
  \/ CallBack(t) \/ Clear(t) \/ Reset(t)

Application(t) == \/ \E c \in Calls : DialCall(t, c) \/ CloseCall(t, c)
                  \/ Logout(t)

Server(c) ==
  \/ InviteRequest(c) \/ InviteBusy(c)
  \/ \E ok \in BOOLEAN : CreateResponse(c, ok)
  \/ ByeRequest(c) \/ ByeResponse(c) \/ UpdateRequest(c)
  \/ \E msg \in GotMsg : DropSignal(msg, c)

Launch(c) == \/ LaunchBegin(c) \/ LaunchLock(c) \/ LaunchGone(c)
             \/ LaunchRefuse(c) \/ LaunchAccept(c) \/ LaunchRunning(c)
             \/ LaunchP2P(c) \/ Unregister(c)

Transport ==
  \/ \E k \in Conns : \/ ConnCreateSucc(k) \/ ConnCreateFail(k) \/ ConnClosed(k)
                      \/ BindSucc(k) \/ BindFail(k) \/ ConnLost(k)
  \/ \E c \in Calls : P2PConnected(c) \/ P2PConnLost(c)
  \/ Flush \/ CloseCalls \/ KeepCalls

Next ==
  /\ ~Aborted
  /\ \/ \E t \in Threads : Continue(t)
     \/ \E t \in AppThreads : Application(t)
     \/ \E c \in Calls : Server(c) \/ Age(c)
     \/ \E c \in InCalls : Launch(c)
     \/ RtsScan \/ RelayScan
     \/ Transport

Spec == Init /\ [][Next]_vars

\* The operating system runs every thread; the application's onLaunched may
\* never return, so LaunchLock has no fairness.  Seconds pass.
LaunchOwn(c) == \/ LaunchBegin(c) \/ LaunchGone(c) \/ LaunchAccept(c)
                \/ LaunchRefuse(c) \/ LaunchRunning(c) \/ LaunchP2P(c)
                \/ Unregister(c)

Fairness ==
  /\ \A t \in Threads : WF_vars(~Aborted /\ Continue(t))
  /\ \A c \in InCalls : WF_vars(~Aborted /\ LaunchOwn(c))
  /\ WF_vars(~Aborted /\ (Flush \/ CloseCalls \/ KeepCalls))
  /\ WF_vars(~Aborted /\ RtsScan)
  /\ \A c \in Calls : WF_vars(~Aborted /\ Age(c))

FairSpec == Spec /\ Fairness

-----------------------------------------------------------------------------
(* Properties. *)

TypeOK ==
  /\ call \in [Calls -> CallState]
  /\ callVec \subseteq Calls /\ aged \subseteq Calls
  /\ p2p \in [Calls -> {"off", "trying", "up"}]
  /\ birth \in [Calls -> {"fresh", "begun", "entered"}]
  /\ launchCalls \subseteq InCalls
  /\ lock \in InCalls \union {NoThread}
  /\ relayConnId \in Conns \union {NoConn}
  /\ relayLinkState \in {"NOT_CREATED", "BEING_CREATED", "SUCC_CREATED"}
  /\ bound \in BOOLEAN
  /\ conn \in [Conns -> {"free", "connecting", "up", "bound", "closing",
                         "ending"}]
  /\ pc \in [Threads -> Labels]
  /\ arg \in [Threads -> Calls \union {NoCall}]
  /\ after \in [Threads -> {"idle", "refused", "closed", "unregister"}]
  /\ opened \in [Threads -> Conns \union {NoConn}]
  /\ sent \subseteq SentMsg \X Calls
  /\ got \subseteq GotMsg \X Calls
  /\ told \in [Callbacks -> [Calls -> Nat]]

\* currentCallVec is what every scan, flush and logout iterates over: a call
\* of currentCalls that is missing there would never time out nor be closed.
EveryCallScanned == InMap \subseteq callVec

Ended(c) == told["refused"][c] + told["closed"][c] > 0

\* Once the application has been told that a call was refused or closed
\* (onAnswered(false), onClosed) the call is not in the table, and no dial,
\* invitation, flush or launch thread brings it back.
EndedIsFinal == \A c \in Calls : Ended(c) => call[c] = "none"

Busy(c) == \E t \in Threads : arg[t] = c

\* A dialled call never disappears without onAnswered(false) or onClosed.
NoSilentDrop ==
  \A c \in OutCalls :
    birth[c] = "entered" /\ call[c] = "none" /\ ~Busy(c) => Ended(c)

\* When the peer was told that its call is accepted, this side has the call
\* running, or about to be, or the two have exchanged a BYE_REQUEST for it, or,
\* as closeCall decides from a copy of the session, the application here has
\* been or is being told the end.  The table never drops an accepted call alone.
AcceptedIsRunning ==
  \A c \in InCalls :
    <<"INVITE_OK", c>> \in sent =>
      \/ call[c] = "RUNNING" \/ pc[c] = "accepting"
      \/ <<"BYE", c>> \in sent \union got
      \/ Ended(c) \/ Busy(c)

\* The write lock is held only by a launch thread that will release it.
LockHasOwner == lock # NoThread => pc[lock] \in {"locked", "accepting"}

\* A call never waits forever: it is answered, launched, closed or timed out.
WaitingEnds ==
  \A c \in Calls : call[c] \in Waiting ~> call[c] \notin Waiting \/ Aborted

\* closeCall comes to its end: onClosed is called.
CloseCompletes ==
  \A c \in Calls :
    (\E t \in AppThreads : pc[t] = "cancel" /\ arg[t] = c)
      ~> told["closed"][c] > 0 \/ Aborted

-----------------------------------------------------------------------------
(* Why EndedIsFinal holds: the inductive invariant of RtsCalls_proofs. *)

\* Only an invitation waits for its launch thread.
LaunchesInvited ==
  \A c \in Calls : call[c] = "WAIT_CALL_ONLAUNCHED" => c \in InCalls

\* A thread that is about to insert a call alone works on that call.
OneOwner ==
  /\ \A t \in Threads : pc[t] \in Entering =>
       arg[t] \in Calls /\ birth[arg[t]] = "begun"
  /\ \A t, u \in Threads :
       pc[t] \in Entering /\ pc[u] \in Entering /\ arg[t] = arg[u] => t = u

\* Nothing has happened to a call that was not inserted.
Unentered ==
  \A c \in Calls : birth[c] # "entered" => call[c] = "none" /\ ~Ended(c)

Handling == {"answerOk", "answerFail", "update", "cancel", "delete", "register",
             "accepted", "refused", "closed"}

\* A handler works on a call that was inserted.
HandlesEntered ==
  \A t \in Threads :
    /\ pc[t] \in Handling => arg[t] \in Calls /\ birth[arg[t]] = "entered"
    /\ pc[t] = "register" => arg[t] \in InCalls

Terminal == {"refused", "closed"}

\* A thread that will report the end of a call has removed the call.
EndingIsRemoved ==
  \A t \in Threads :
    pc[t] \in Terminal \/ (pc[t] \in {"closeRelay", "dropRelay"} /\ after[t] \in Terminal)
      => arg[t] \in Calls /\ birth[arg[t]] = "entered" /\ call[arg[t]] = "none"

\* The launch thread that answers an invitation holds the write lock, and the
\* call it is accepting stays in the table until it is running.
AnswersLocked ==
  \A c \in InCalls :
    /\ pc[c] \in {"locked", "accepting"} => lock = c
    /\ pc[c] = "accepting" => call[c] # "none"

IInv == /\ TypeOK /\ EveryCallScanned /\ OneOwner /\ Unentered
        /\ LaunchesInvited /\ HandlesEntered /\ EndingIsRemoved
        /\ AnswersLocked /\ EndedIsFinal

-----------------------------------------------------------------------------
(* The calls as the application sees them: CallLifecycle, once for each.    *)

Stage(c) == IF birth[c] # "entered" THEN "new"
            ELSE IF call[c] = "none" THEN "gone"
            ELSE IF call[c] = "RUNNING" THEN "running" ELSE "waiting"

\* What thread t will report, after its tail if it is in one.
Owes(t) == IF pc[t] \in {"closeRelay", "dropRelay"} THEN after[t] ELSE pc[t]
Owed(c) == {k \in {"accepted"} \union Terminal : \E t \in Threads : arg[t] = c /\ Owes(t) = k}

Life(c) == INSTANCE CallLifecycle WITH
             Dialled <- c \in OutCalls,
             state   <- Stage(c),
             owed    <- Owed(c),
             told    <- [k \in Callbacks |-> told[k][c]]

\* Each call lives as CallLifecycle promises, whatever the threads, the server
\* and the relay do: in particular no answer that races the timeout scan makes
\* the application hear onAnswered(true) and onAnswered(false) of one call.
ImplementsLifecycle ==
  /\ \A c \in Calls : Life(c)!Init
  /\ [][\A c \in Calls : [Life(c)!Next]_(Life(c)!vars)]_vars

\* What the refinement needs beside IInv.
Answered(c) == (pc[Recv] = "accepted" /\ arg[Recv] = c) \/ told["accepted"][c] > 0

\* Only dialled calls are requested; only the receive thread answers them.
OnlyDialledAnswered ==
  /\ \A c \in Calls :
       call[c] \in {"WAIT_SEND_CREATE_REQUEST", "WAIT_CREATE_RESPONSE"} \/
       <<"CREATE", c>> \in sent => c \in OutCalls
  /\ \A t \in Threads :
       pc[t] \in {"answerOk", "answerFail", "accepted"} => t = Recv /\ arg[t] \in OutCalls

\* A call that was accepted is running or gone, and no other answer to it is
\* being handled.
OneAnswer ==
  /\ \A c \in OutCalls :
       Answered(c) \/ call[c] = "RUNNING" =>
         /\ <<"CREATE_OK", c>> \in got
         /\ call[c] \in {"RUNNING", "none"}
         /\ ~(pc[Recv] \in {"answerOk", "answerFail"} /\ arg[Recv] = c)
  /\ \A c \in Calls : <<"CREATE_OK", c>> \in got => birth[c] = "entered"
  /\ pc[Recv] = "answerOk" => <<"CREATE_OK", arg[Recv]>> \in got

\* A launch thread works on its own invitation, and is started once.
LaunchedOnce ==
  \A c \in InCalls :
    /\ pc[c] \in {"idle", "begin", "ask", "locked", "accepting", "startP2P",
                  "unregister", "closeRelay", "dropRelay"}
    /\ after[c] \in {"idle", "unregister"}
    /\ pc[c] # "idle" => arg[c] = c /\ birth[c] = "entered"
    /\ pc[c] = "begin" \/ call[c] = "WAIT_CALL_ONLAUNCHED" \/ birth[c] # "entered" =>
         told["launched"][c] = 0
    /\ pc[c] \in {"begin", "ask", "locked", "accepting"} =>
         call[c] \in {"WAIT_INVITEE_RESPONSE", "none"}
    /\ call[c] = "WAIT_CALL_ONLAUNCHED" => pc[c] = "idle"

LifeInv == IInv /\ OnlyDialledAnswered /\ OneAnswer /\ LaunchedOnce
=============================================================================
