---------------------------- MODULE FrontendConn ----------------------------
(***************************************************************************)
(* The connection of one User to the frontend, and its login.  The send    *)
(* thread connects, binds, pings and sends; the receive thread handles the *)
(* server's packets; the check thread drops a connection that is silent;   *)
(* the application logs in, logs out and destroys the user.  None of them  *)
(* holds a lock while it uses Connection or the login state, and each of   *)
(* them may run resetSock.                                                 *)
(*                                                                         *)
(* A step touches what other threads may write once.  Connections are told *)
(* apart as the current one, "this", and any earlier one, "old": connect() *)
(* renames what is left of "this".  Only UNBIND is kept in the queue of    *)
(* packets to send: what happens to messages is the subject of ImSend.     *)
(***************************************************************************)
EXTENDS Naturals, Sequences

CONSTANTS
  AppOps,       \* what the application does: "login", "logout", "destroy"
  MaxFaults,    \* bound: what the network and the server do wrong
  MaxQueue,     \* bound: UNBIND packets that wait to be sent
  MaxInFlight   \* bound: packets on the wire, each way

ASSUME BoundsAssumption ==
  MaxFaults \in Nat /\ MaxQueue \in Nat /\ MaxInFlight \in Nat

VARIABLES
  sock,           \* socketfd: not connected ("closed"), or a socket whose peer
                  \*   answers ("open"), has gone ("broken") or says nothing
                  \*   ("silent")
  state,          \* Connection::state
  key,            \* challenge and body_key: of which connection
  timer,          \* nextResetSockTimestamp: "off", "running", or "over"
  online,         \* User::onlineStatus = Online
  justBound,      \* lastLoginTimestamp is at most LOGIN_TIMEOUT ago
  tokenInvalid, permitLogin,
  unbinds,        \* packetsWaitToSend: how many UNBIND packets
  pc,             \* where each thread is
  out,            \* the packet the send thread has encoded
  held,           \* the packet the receive thread has read
  origin,         \* the connection it was, or will be, read from
  toServer, toClient,   \* packets on the wire of the current connection
  bound,          \* the server: the current connection is bound
  faults,         \* faults so far
  stale,          \* a packet of this connection was handled after its reset
                  \*   had begun
  clean,          \* nothing like that happened to the connection before, and
                  \*   connect() found no thread at work on it
  unused          \* socketfd is a socket that connect() opened for an address
                  \*   without a port, and left

connVars  == <<sock, state, key, timer>>
loginVars == <<online, justBound, tokenInvalid, permitLogin, unbinds>>
sendVars  == <<out>>
recvVars  == <<held, origin>>
netVars   == <<toServer, toClient, bound, faults>>
history   == <<stale, clean, unused>>
vars == <<connVars, loginVars, pc, sendVars, recvVars, netVars, history>>

Threads == {"send", "receive", "check", "app"}
Resets  == {"close", "disconnect", "offline", "forget", "disarm"}
Labels  == Resets \union
           {"top", "done",                                  \* every loop
            "connecting", "connected", "bind", "pop", "arm", "write",
                                                            \* sendPacket
            "read", "clear", "decode", "shake",             \* receivePacket
            "idle", "leaving", "loggingOut", "joinSend", "joinRest", "gone"}  \* the user

NoPacket == [cmd |-> "none", key |-> "none"]
Packet(cmd) == [cmd |-> cmd, key |-> key]     \* encoded now
Keys == {"none", "this", "old"}
Requests == {"CONN", "BIND", "UNBIND", "PING"}
Denials  == {"BIND_NO", "EXPIRED", "KICK", "UNBOUND"}   \* the user is not bound
Answers  == {"CONN", "BIND_OK", "ACK"} \union Denials

Init ==
  /\ sock = "closed" /\ state = "NOT_CONNECTED" /\ key = "none" /\ timer = "off"
  /\ online = FALSE /\ justBound = FALSE /\ tokenInvalid = FALSE
  /\ permitLogin = FALSE /\ unbinds = 0
  /\ pc = [t \in Threads |-> IF t = "app" THEN "idle" ELSE "top"]
  /\ out = NoPacket /\ held = "none" /\ origin = "none"
  /\ toServer = <<>> /\ toClient = <<>> /\ bound = FALSE /\ faults = 0
  /\ stale = FALSE /\ clean = TRUE /\ unused = FALSE

-----------------------------------------------------------------------------
Destroying == pc["app"] \in {"joinSend", "joinRest", "gone"} \union Resets

Goto(t, l) == pc' = [pc EXCEPT ![t] = l]
At(t, l)   == pc[t] = l

\* Connection::resetSock, run by any thread: five writes, in this order.
ResetThen(t) == IF t = "app" THEN "joinRest" ELSE "top"

\* Mutant: the reset forgets to close the socket.
CloseSockNot(t) ==
  /\ At(t, "close") /\ Goto(t, "disconnect")
  /\ UNCHANGED <<connVars, loginVars, sendVars, recvVars, netVars, history>>

CloseSock(t) ==
  /\ At(t, "close") /\ Goto(t, "disconnect")
  /\ sock' = "closed" /\ toServer' = <<>> /\ toClient' = <<>> /\ bound' = FALSE
  /\ unused' = FALSE
  /\ UNCHANGED <<state, key, timer, loginVars, sendVars, recvVars, faults,
                 stale, clean>>

Disconnect(t) ==
  /\ At(t, "disconnect") /\ Goto(t, "offline")
  /\ state' = "NOT_CONNECTED"
  /\ UNCHANGED <<sock, key, timer, loginVars, sendVars, recvVars, netVars, history>>

\* Mutant: the reset leaves the user online.
GoOfflineNot(t) ==
  /\ At(t, "offline") /\ Goto(t, "forget")
  /\ justBound' = FALSE
  /\ UNCHANGED <<connVars, online, tokenInvalid, permitLogin, unbinds, sendVars,
                 recvVars, netVars, history>>

GoOffline(t) ==
  /\ At(t, "offline") /\ Goto(t, "forget")
  /\ justBound' = FALSE /\ online' = FALSE
  /\ UNCHANGED <<connVars, tokenInvalid, permitLogin, unbinds, sendVars,
                 recvVars, netVars, history>>

\* Mutant: the reset keeps the key.
ForgetKeyNot(t) ==
  /\ At(t, "forget") /\ Goto(t, "disarm")
  /\ UNCHANGED <<connVars, loginVars, sendVars, recvVars, netVars, history>>

ForgetKey(t) ==
  /\ At(t, "forget") /\ Goto(t, "disarm")
  /\ key' = "none"
  /\ UNCHANGED <<sock, state, timer, loginVars, sendVars, recvVars, netVars, history>>

Disarm(t) ==
  /\ At(t, "disarm") /\ Goto(t, ResetThen(t))
  /\ timer' = "off"
  /\ UNCHANGED <<sock, state, key, loginVars, sendVars, recvVars, netVars, history>>

ResetSock(t) == CloseSock(t) \/ Disconnect(t) \/ GoOffline(t) \/ ForgetKey(t)
                \/ Disarm(t)

-----------------------------------------------------------------------------
(* User::sendPacket. *)

\* The loop goes on as long as something waits to be sent.
Sending == At("send", "top") /\ ~(Destroying /\ unbinds = 0)

\* No other thread is at work on the connection before.
OthersRest == {pc["receive"], pc["check"]} \subseteq {"top", "done"}

\* What belonged to this connection now belongs to an earlier one.
Older(c) == IF c = "this" THEN "old" ELSE c

\* A failed fetchToken is tried again after a back-off.
StartConnect ==
  /\ Sending /\ state = "NOT_CONNECTED" /\ Goto("send", "connecting")
  /\ tokenInvalid' = FALSE
  /\ UNCHANGED <<connVars, online, justBound, permitLogin, unbinds, sendVars,
                 recvVars, netVars, history>>

\* connect() puts a new socket into socketfd, whatever was there.
NewSocket(s) ==
  sock' = s /\ toServer' = <<>> /\ toClient' = <<>> /\ bound' = FALSE

\* An address without a port: the next turn of the loop overwrites the socket.
SkipAddress ==
  /\ At("send", "connecting") /\ ~unused
  /\ NewSocket("closed") /\ unused' = TRUE
  /\ UNCHANGED <<state, key, timer, loginVars, pc, sendVars, recvVars, faults,
                 stale, clean>>

\* The socket is closed; after the last address connect() is tried again.
ConnectFails ==
  /\ At("send", "connecting")
  /\ NewSocket("closed") /\ unused' = FALSE
  /\ faults < MaxFaults /\ faults' = faults + 1
  /\ Goto("send", "connecting") \/ Goto("send", "top")
  /\ UNCHANGED <<state, key, timer, loginVars, sendVars, recvVars, stale, clean>>

Connect ==
  /\ At("send", "connecting") /\ Goto("send", "connected")
  /\ NewSocket("open") /\ unused' = FALSE
  /\ key' = Older(key) /\ origin' = Older(origin)
  /\ clean' = (OthersRest /\ state = "NOT_CONNECTED" /\ ~stale) /\ stale' = FALSE
  /\ UNCHANGED <<state, timer, loginVars, sendVars, held, faults>>

SetSockConnected ==
  /\ At("send", "connected") /\ Goto("send", "arm")
  /\ state' = "SOCK_CONNECTED" /\ out' = Packet("CONN")
  /\ UNCHANGED <<sock, key, timer, loginVars, recvVars, netVars, history>>

BindBranch ==
  state = "HANDSHAKE_CONNECTED" /\ ~online /\ (~justBound \/ tokenInvalid)

\* Mutant: binds without asking for permitLogin.
CheckBindAlways ==
  /\ Sending /\ BindBranch /\ Goto("send", "bind")
  /\ UNCHANGED <<connVars, loginVars, sendVars, recvVars, netVars, history>>

CheckBind ==
  /\ Sending /\ BindBranch /\ permitLogin /\ Goto("send", "bind")
  /\ UNCHANGED <<connVars, loginVars, sendVars, recvVars, netVars, history>>

\* encodeBindPacket fails when there is no key; it counts as a login.
Bind ==
  /\ At("send", "bind")
  /\ tokenInvalid' = FALSE /\ justBound' = TRUE
  /\ \/ key = "none" /\ Goto("send", "top") /\ UNCHANGED out
     \/ key # "none" /\ Goto("send", "arm") /\ out' = Packet("BIND")
  /\ UNCHANGED <<connVars, online, permitLogin, unbinds, recvVars, netVars, history>>

CheckPop ==
  /\ Sending /\ state = "HANDSHAKE_CONNECTED" /\ ~BindBranch
  /\ unbinds > 0 /\ Goto("send", "pop")
  /\ UNCHANGED <<connVars, loginVars, sendVars, recvVars, netVars, history>>

\* A packet that cannot be encoded is lost.
Pop ==
  /\ At("send", "pop")
  /\ unbinds' = unbinds - 1
  /\ \/ key = "none" /\ Goto("send", "top") /\ UNCHANGED out
     \/ key # "none" /\ Goto("send", "arm") /\ out' = Packet("UNBIND")
  /\ UNCHANGED <<connVars, online, justBound, tokenInvalid, permitLogin, recvVars,
                 netVars, history>>

\* PING_TIMEINTERVAL after the last packet; a ping is not encrypted.
Ping ==
  /\ Sending /\ state = "HANDSHAKE_CONNECTED" /\ ~BindBranch /\ unbinds = 0
  /\ Goto("send", "arm") /\ out' = Packet("PING")
  /\ UNCHANGED <<connVars, loginVars, recvVars, netVars, history>>

\* Mutant: a request starts no timer.
ArmNot ==
  /\ At("send", "arm") /\ Goto("send", "write")
  /\ UNCHANGED <<connVars, loginVars, sendVars, recvVars, netVars, history>>

\* Connection::trySetNextResetTs
Arm ==
  /\ At("send", "arm") /\ Goto("send", "write")
  /\ timer' = IF timer = "off" THEN "running" ELSE timer
  /\ UNCHANGED <<sock, state, key, loginVars, sendVars, recvVars, netVars, history>>

\* A write to a socket whose peer has gone may still succeed.
Write ==
  /\ At("send", "write") /\ sock # "closed" /\ Goto("send", "top")
  /\ sock = "open" => Len(toServer) < MaxInFlight
  /\ toServer' = IF sock = "open" THEN Append(toServer, out) ELSE toServer
  /\ out' = NoPacket
  /\ UNCHANGED <<connVars, loginVars, recvVars, toClient, bound, faults, history>>

WriteFails ==
  /\ At("send", "write") /\ sock \in {"closed", "broken"} /\ Goto("send", "close")
  /\ out' = NoPacket
  /\ UNCHANGED <<connVars, loginVars, recvVars, netVars, history>>

StopSending ==
  /\ At("send", "top") /\ ~Sending /\ Goto("send", "done")
  /\ UNCHANGED <<connVars, loginVars, sendVars, recvVars, netVars, history>>

Send ==
  \/ StartConnect \/ SkipAddress \/ ConnectFails \/ Connect \/ SetSockConnected
  \/ CheckBind \/ Bind \/ CheckPop \/ Pop \/ Ping
  \/ Arm \/ Write \/ WriteFails \/ StopSending \/ ResetSock("send")

-----------------------------------------------------------------------------
(* User::receivePacket and PacketManager::decodePacketAndHandle. *)

\* History: the thread goes on with a packet although a reset has begun.
Resetting == \E t \in Threads : pc[t] \in Resets \ {"close"}
Handling  == /\ stale' = (stale \/ sock = "closed" \/ Resetting)
             /\ UNCHANGED <<clean, unused>>

BeginRead ==
  /\ At("receive", "top") /\ ~Destroying /\ state # "NOT_CONNECTED"
  /\ Goto("receive", "read") /\ origin' = "this"
  /\ UNCHANGED <<connVars, loginVars, sendVars, held, netVars, history>>

\* readn takes the socketfd there is now: a thread that has not yet begun to read
\* from the connection before reads from this one.
ReadPacket ==
  /\ At("receive", "read") /\ toClient # <<>>
  /\ Goto("receive", "clear") /\ origin' = "this"
  /\ held' = Head(toClient) /\ toClient' = Tail(toClient)
  /\ UNCHANGED <<connVars, loginVars, sendVars, toServer, bound, faults, history>>

\* The socket was shut down, closed by the peer, or was not the current one.
ReadFails ==
  /\ At("receive", "read")
  /\ \/ origin = "old" \/ sock = "closed"
     \/ sock = "broken" /\ toClient = <<>>
  /\ Goto("receive", "close") /\ origin' = "none"
  /\ UNCHANGED <<connVars, loginVars, sendVars, held, netVars, history>>

\* Connection::clearNextResetSockTs
ClearTimer ==
  /\ At("receive", "clear") /\ Goto("receive", "decode")
  /\ timer' = "off"
  /\ UNCHANGED <<sock, state, key, loginVars, sendVars, recvVars, netVars>>
  /\ Handling

\* A packet is decrypted if there is a key.  Only the answer to CONN is not
\* encrypted, and what is decrypted with a wrong key cannot be parsed.
Readable == \/ held = "ACK"
            \/ held = "CONN" /\ key = "none"
            \/ held # "CONN" /\ key = origin

HandleGarbage ==
  /\ At("receive", "decode") /\ ~Readable
  /\ Goto("receive", "close") /\ held' = "none" /\ origin' = "none"
  /\ UNCHANGED <<connVars, loginVars, sendVars, netVars, history>>

\* Mutant: the handshake is done and the key is not kept.
HandleConnNoKey ==
  /\ At("receive", "decode") /\ Readable /\ held = "CONN"
  /\ Goto("receive", "shake") /\ held' = "none"
  /\ UNCHANGED <<connVars, loginVars, sendVars, origin, netVars>>
  /\ Handling

\* setChallengeAndBodyKey
HandleConn ==
  /\ At("receive", "decode") /\ Readable /\ held = "CONN"
  /\ Goto("receive", "shake") /\ key' = origin /\ held' = "none"
  /\ UNCHANGED <<sock, state, timer, loginVars, sendVars, origin, netVars>>
  /\ Handling

SetHandshake ==
  /\ At("receive", "shake") /\ Goto("receive", "top")
  /\ state' = "HANDSHAKE_CONNECTED" /\ origin' = "none"
  /\ UNCHANGED <<sock, key, timer, loginVars, sendVars, held, netVars>>
  /\ Handling

\* BIND and KICK: the server says whether the user is online.
HandleBind ==
  /\ At("receive", "decode") /\ Readable /\ held # "CONN"
  /\ Goto("receive", "top") /\ held' = "none" /\ origin' = "none"
  /\ online' = IF held = "ACK" THEN online ELSE held = "BIND_OK"
  /\ tokenInvalid' = (tokenInvalid \/ held = "EXPIRED")
  /\ UNCHANGED <<connVars, justBound, permitLogin, unbinds, sendVars, netVars>>
  /\ Handling

StopReceiving ==
  /\ At("receive", "top") /\ Destroying /\ Goto("receive", "done")
  /\ UNCHANGED <<connVars, loginVars, sendVars, recvVars, netVars, history>>

Receive ==
  \/ BeginRead \/ ReadPacket \/ ReadFails \/ ClearTimer \/ HandleGarbage
  \/ HandleConn \/ SetHandshake \/ HandleBind \/ StopReceiving
  \/ ResetSock("receive")

-----------------------------------------------------------------------------
(* User::checkTimeout *)

\* Mutant: only a connection that is through its handshake is watched.
CheckTimerLate ==
  /\ At("check", "top") /\ ~Destroying /\ timer = "over"
  /\ state = "HANDSHAKE_CONNECTED" /\ Goto("check", "close")
  /\ UNCHANGED <<connVars, loginVars, sendVars, recvVars, netVars, history>>

CheckTimer ==
  /\ At("check", "top") /\ ~Destroying /\ timer = "over" /\ Goto("check", "close")
  /\ UNCHANGED <<connVars, loginVars, sendVars, recvVars, netVars, history>>

StopChecking ==
  /\ At("check", "top") /\ Destroying /\ Goto("check", "done")
  /\ UNCHANGED <<connVars, loginVars, sendVars, recvVars, netVars, history>>

Check == CheckTimer \/ StopChecking \/ ResetSock("check")

-----------------------------------------------------------------------------
(* The application: login, logout and the destructor. *)

Login ==
  /\ "login" \in AppOps /\ At("app", "idle") /\ ~online
  /\ permitLogin' = TRUE
  /\ UNCHANGED <<connVars, online, justBound, tokenInvalid, unbinds, pc, sendVars,
                 recvVars, netVars, history>>

\* A user who is offline need not log out.
Logout ==
  /\ "logout" \in AppOps /\ At("app", "idle") /\ online /\ unbinds < MaxQueue
  /\ Goto("app", "leaving")
  /\ UNCHANGED <<connVars, loginVars, sendVars, recvVars, netVars, history>>

\* The UNBIND is queued long before permitLogin is taken back.
PushUnbind ==
  /\ At("app", "leaving") /\ Goto("app", "loggingOut")
  /\ unbinds' = unbinds + 1
  /\ UNCHANGED <<connVars, online, justBound, tokenInvalid, permitLogin, sendVars,
                 recvVars, netVars, history>>

ForbidLogin ==
  /\ At("app", "loggingOut") /\ Goto("app", "idle")
  /\ permitLogin' = FALSE
  /\ UNCHANGED <<connVars, online, justBound, tokenInvalid, unbinds, sendVars,
                 recvVars, netVars, history>>

Destroy ==
  /\ "destroy" \in AppOps /\ At("app", "idle") /\ Goto("app", "joinSend")
  /\ UNCHANGED <<connVars, loginVars, sendVars, recvVars, netVars, history>>

\* Mutant: the destructor does not reset the connection.
JoinSendNoReset ==
  /\ At("app", "joinSend") /\ At("send", "done") /\ Goto("app", "joinRest")
  /\ UNCHANGED <<connVars, loginVars, sendVars, recvVars, netVars, history>>

JoinSend ==
  /\ At("app", "joinSend") /\ At("send", "done") /\ Goto("app", "close")
  /\ UNCHANGED <<connVars, loginVars, sendVars, recvVars, netVars, history>>

JoinRest ==
  /\ At("app", "joinRest") /\ At("receive", "done") /\ At("check", "done")
  /\ Goto("app", "gone")
  /\ UNCHANGED <<connVars, loginVars, sendVars, recvVars, netVars, history>>

Finish == PushUnbind \/ ForbidLogin \/ JoinSend \/ JoinRest \/ ResetSock("app")
Application == Login \/ Logout \/ Destroy \/ Finish

-----------------------------------------------------------------------------
(* Time, the network and the server, which is not part of the repository. *)

Fault == faults < MaxFaults /\ faults' = faults + 1

\* RESETSOCK_TIMEOUT passes: the server is late only when something is wrong.
Expire ==
  /\ timer = "running" /\ timer' = "over"
  /\ IF sock = "open" THEN Fault ELSE UNCHANGED faults
  /\ UNCHANGED <<sock, state, key, loginVars, pc, sendVars, recvVars, toServer,
                 toClient, bound, history>>

\* LOGIN_TIMEOUT passes.
Age ==
  /\ justBound /\ justBound' = FALSE
  /\ UNCHANGED <<connVars, online, tokenInvalid, permitLogin, unbinds, pc, sendVars,
                 recvVars, netVars, history>>

Break ==
  /\ sock = "open" /\ Fault /\ sock' \in {"broken", "silent"}
  /\ toServer' = <<>> /\ bound' = FALSE
  /\ UNCHANGED <<state, key, timer, loginVars, pc, sendVars, recvVars, toClient,
                 history>>

\* The server takes a packet and answers a, which may find no reader.  UNBOUND is
\* a BIND or KICK that says offline: after logout() test/mimc_test.cpp:145 waits
\* for that, and only these handlers make a connected user offline.
Answer(a) ==
  /\ sock = "open" /\ toServer # <<>> /\ toServer' = Tail(toServer)
  /\ \/ Len(toClient) < MaxInFlight /\ toClient' = Append(toClient, a)
     \/ At("receive", "done") /\ UNCHANGED toClient
  /\ UNCHANGED <<connVars, loginVars, pc, sendVars, recvVars, history>>

Asked(cmd) == toServer # <<>> /\ Head(toServer).cmd = cmd
Authentic  == Head(toServer).key = "this"

AnswerConn == Asked("CONN") /\ Answer("CONN") /\ UNCHANGED <<bound, faults>>
AnswerPing == Asked("PING") /\ Answer("ACK") /\ UNCHANGED <<bound, faults>>
AcceptBind == Asked("BIND") /\ Authentic /\ Answer("BIND_OK") /\ bound' = TRUE
              /\ UNCHANGED faults
RefuseBind == Asked("BIND") /\ Authentic /\ bound' = FALSE /\ Fault
              /\ \E a \in {"BIND_NO", "EXPIRED"} : Answer(a)
AnswerUnbind == Asked("UNBIND") /\ Authentic /\ Answer("UNBOUND")
                /\ bound' = FALSE /\ UNCHANGED faults

\* A packet it cannot decrypt makes the server close the connection.
Reject ==
  /\ sock = "open" /\ (Asked("BIND") \/ Asked("UNBIND")) /\ ~Authentic
  /\ sock' = "broken" /\ toServer' = <<>> /\ bound' = FALSE
  /\ UNCHANGED <<state, key, timer, loginVars, pc, sendVars, recvVars, toClient,
                 faults, history>>

Kick ==
  /\ sock = "open" /\ bound /\ Fault /\ Len(toClient) < MaxInFlight
  /\ bound' = FALSE /\ toClient' = Append(toClient, "KICK")
  /\ UNCHANGED <<connVars, loginVars, pc, sendVars, recvVars, toServer, history>>

Serve == AnswerConn \/ AnswerPing \/ AcceptBind \/ AnswerUnbind \/ Reject
Environment == Expire \/ Age \/ Break \/ Serve \/ RefuseBind \/ Kick

-----------------------------------------------------------------------------
Next == Send \/ Receive \/ Check \/ Application \/ Environment

Spec == Init /\ [][Next]_vars

\* Every thread is scheduled, time passes and a working server answers.
Fairness ==
  /\ WF_vars(Send) /\ WF_vars(Receive) /\ WF_vars(Check) /\ WF_vars(Finish)
  /\ WF_vars(Expire /\ sock # "open") /\ WF_vars(Age) /\ WF_vars(Serve)

FairSpec == Spec /\ Fairness

-----------------------------------------------------------------------------
(* Properties. *)

FlagsOK ==
  /\ online \in BOOLEAN /\ justBound \in BOOLEAN /\ tokenInvalid \in BOOLEAN
  /\ permitLogin \in BOOLEAN /\ bound \in BOOLEAN
  /\ stale \in BOOLEAN /\ clean \in BOOLEAN /\ unused \in BOOLEAN

TypeOK ==
  /\ FlagsOK
  /\ sock \in {"closed", "open", "broken", "silent"}
  /\ state \in {"NOT_CONNECTED", "SOCK_CONNECTED", "HANDSHAKE_CONNECTED"}
  /\ key \in Keys /\ origin \in Keys
  /\ timer \in {"off", "running", "over"}
  /\ unbinds \in Nat /\ faults \in Nat
  /\ pc \in [Threads -> Labels]
  /\ out \in [cmd : Requests \union {"none"}, key : Keys]
  /\ held \in Answers \union {"none"}
  /\ toServer \in Seq([cmd : Requests, key : Keys])
  /\ toClient \in Seq(Answers)

\* A clean connection's socket is closed when connect() begins to overwrite the
\* descriptor.  What connect() itself opens for an address without a port it does
\* overwrite open (unused): such a socket was never connected.
ConnectedIsClosed == clean /\ At("send", "connecting") => sock = "closed"

\* Once a clean connection is through its handshake, and as long as no thread
\* has begun to reset it, the key is the one the server made for it.
HandshakeHasKey ==
  clean /\ sock # "closed" /\ state = "HANDSHAKE_CONNECTED" => key = "this"

\* A user who is online on a clean connection is bound at the server, or the
\* word that it is not is on its way.
OnlineIsBound ==
  clean /\ sock = "open" /\ online /\ ~Destroying =>
    bound \/ held \in Denials \/ \E i \in 1 .. Len(toClient) : toClient[i] \in Denials

\* Whoever waits for the answer to CONN on a clean connection is watched by
\* the timer: nothing else ends a handshake with a silent server.
HandshakeIsWatched ==
  clean /\ At("send", "top") /\ state = "SOCK_CONNECTED" /\ sock # "closed" =>
    timer # "off" \/ pc["receive"] \in {"decode", "shake", "close"}

-----------------------------------------------------------------------------
(* An invariant that every step keeps, for FrontendConn_proofs. *)

Past == Resets \ {"close"}

\* The destructor resets the connection when the send thread is done.
ResetAfterSend == pc["app"] \in Resets \union {"joinRest", "gone"} => At("send", "done")

\* Who resets a clean connection has closed its socket.
ResetHasClosed == clean /\ (\E t \in Threads : pc[t] \in Past) => sock = "closed"
ClosedOrConnected ==
  clean /\ state = "NOT_CONNECTED" => sock = "closed" \/ At("send", "connected")

\* What the threads hold is there when it is used.
PacketInHand ==
  /\ (pc["receive"] \in {"clear", "decode"}) <=> (held # "none")
  /\ (pc["send"] \in {"arm", "write"}) <=> (out.cmd # "none")
  /\ At("send", "pop") => unbinds > 0
HandlesThis ==
  clean /\ sock # "closed" /\ pc["receive"] \in {"read", "clear", "decode", "shake"} =>
    origin = "this"
ShakesWithKey ==
  clean /\ sock # "closed" /\ At("receive", "shake") => key = "this"

\* Before a clean connection is through its handshake nothing but CONN is sent.
Conns == [cmd : {"CONN"}, key : Keys]
FirstIsConn ==
  clean /\ sock # "closed" /\ state # "HANDSHAKE_CONNECTED" =>
    /\ ~bound /\ held \in {"none", "CONN"} /\ out.cmd \in {"none", "CONN"}
    /\ pc["send"] \notin {"bind", "pop"}
    /\ toServer \in Seq(Conns) /\ toClient \in Seq({"CONN"})

JustConnected ==
  clean /\ sock # "closed" /\ At("send", "connected") =>
    /\ state = "NOT_CONNECTED" /\ toServer = <<>> /\ toClient = <<>> /\ ~bound
    /\ pc["receive"] \notin {"clear", "decode", "shake"}

WaitsWatched ==
  clean /\ sock # "closed" /\ state = "SOCK_CONNECTED" /\ ~At("send", "arm") =>
    timer # "off" \/ pc["receive"] \in {"decode", "shake", "close"}

IInv ==
  /\ TypeOK /\ ResetAfterSend /\ ResetHasClosed /\ ClosedOrConnected
  /\ ConnectedIsClosed
  /\ PacketInHand /\ HandlesThis /\ ShakesWithKey /\ HandshakeHasKey
  /\ FirstIsConn /\ JustConnected /\ WaitsWatched

\* Why OnlineIsBound holds.  The server's denials come after its BIND_OK, and a
\* connection begins offline.
ReceiverStops  == At("receive", "done") => Destroying
ReadsFromOne   ==
  pc["receive"] \in {"read", "clear", "decode", "shake"} => origin # "none"

WasReset == state = "NOT_CONNECTED" /\ ~stale /\ ~At("send", "connected")
ResetForgets ==
  WasReset => \/ key = "none" \/ At("receive", "shake")
              \/ \E t \in Threads : pc[t] \in {"offline", "forget"}
ResetGoesOffline ==
  WasReset /\ online => \E t \in Threads : At(t, "offline")

Denied(n) == \E i \in n .. Len(toClient) : toClient[i] \in Denials
DenialFollows ==
  clean /\ sock = "open" /\ ~bound /\ ~Destroying =>
    /\ held = "BIND_OK" => Denied(1)
    /\ \A i \in 1 .. Len(toClient) : toClient[i] = "BIND_OK" => Denied(i + 1)
    /\ online => held \in Denials \/ Denied(1)

BindInv == /\ IInv /\ ReceiverStops /\ ReadsFromOne
           /\ ResetForgets /\ ResetGoesOffline /\ DenialFollows

-----------------------------------------------------------------------------
\* No request to bind is being made or answered.
NoBind ==
  /\ pc["send"] # "bind" /\ out.cmd # "BIND" /\ held # "BIND_OK"
  /\ \A i \in 1 .. Len(toServer) : toServer[i].cmd # "BIND"
  /\ \A i \in 1 .. Len(toClient) : toClient[i] # "BIND_OK"

\* A user who has logged out, once it is offline with no request to bind left
\* over, does not bind again of its own accord, whatever happens to the
\* connection.
OfflineStays ==
  [][~permitLogin /\ ~online /\ NoBind => ~online' /\ NoBind']_vars

Reconnecting == permitLogin /\ clean /\ ~Destroying

\* When faults have ceased, connections are clean and the application wants
\* to be logged in, the user is online again and again.
Reconnects == <>[]Reconnecting => []<>online

\* The handshake of a clean connection comes to an end.  The destructor stops
\* the threads that would end it.
HandshakeEnds ==
  clean /\ state = "SOCK_CONNECTED" ~>
    ~clean \/ Destroying \/ state # "SOCK_CONNECTED"

\* The destructor returns when no UNBIND waits to be sent.
DestroyEnds == Destroying /\ unbinds = 0 ~> At("app", "gone")

=============================================================================
