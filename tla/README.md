# Verification of the MIMC C++ SDK

TLA+ models of the client library in `src/`, their TLC runs and TLAPS proofs.
The library gives an application a messaging account (log in, send and receive
instant messages) and real-time calls (dial, answer, stream data over a relay
or a direct connection).  What makes it hard is that one `User` is worked on by
many threads with few locks: this project concentrates on those interleavings,
and on the transport protocol under the calls.

## The system

| Part | Code | State | Operations | Hard because |
|---|---|---|---|---|
| RTS call table | `src/src/user.cpp`, `packet_manager.cpp`, `rts_send_signal.cpp`, `rts_send_data.cpp`, `rts_stream_handler.h`, `rts_connection_handler.h` | `currentCalls`, `currentCallVec`, `onlaunchCalls`, `relayConnId`, `relayLinkState`, `bindRelayResponse` | `dialCall`, `closeCall`, `logout`, `INVITE_REQUEST`, `CREATE_RESPONSE`, `BYE_*`, `UPDATE_REQUEST`, `onLaunched`, both scans, relay callbacks | five kinds of threads, one read-write lock taken in pieces, asynchronous cancellation |
| P2P connections | `p2p_processor.cpp`, `rts_connection_handler.h` | one processor and thread per call, its `mP2PState`, the links of the session | detect, exchange, punch, connect, start, stop | stopped (joined) while the call table is locked; pointers used after their lock is released |
| Frontend connection and login | `user.cpp`, `connection.cpp`, `packet_manager.cpp` | connection state, online status, `permitLogin`, reset time | send loop, receive loop, check loop, `login`, `logout` | three threads reset and advance one connection without a lock |
| Instant messages | `packet_manager.cpp`, `user.cpp` | messages waiting for an ack, sequences received | send, ack, time-out scan, delivery | the ack races the time-out; the server sends again |
| XMD transceiver | `msg-libs/xmdtransceiver/src` | connections, streams, packets to resend, callbacks to make | acknowledged streams, FEC streams, handshake, ping | datagrams are lost, duplicated, reordered |
| Back-off, token and address fetching | `backoff.cpp`, `user.cpp`, `serverfetcher.cpp` | delays, cached addresses | fetch, retry | mostly I/O |
| C interface | `user_c.cpp` | none of its own | forwards to `User` | no |

### Who runs

- **Application threads** call `login`, `sendMessage`, `dialCall`, `closeCall`,
  `logout` at any time, from any number of threads.
- The **send**, **receive** and **check** threads of a `User` share its
  frontend `Connection` and its `PacketManager`.  The receive thread calls the
  application's handlers; the check thread (one round per second) reports
  message and call timeouts.
- One **launch thread** per incoming call runs `User::onLaunched`, which asks
  the application and may wait for its answer for ever.
- The **XMD transceiver** has its own worker, timer, send and receive threads;
  its worker calls back into the `User` when a relay or a direct connection
  opens, fails, closes or carries data.
- A **P2P processor** thread per call tries to make a direct connection.

They meet in the call table (`mutex_0`, a read-write lock taken and released
several times within one operation), in the queue `packetsWaitToSend`, in the
two maps of unanswered messages (`packetsTimeoutMutex`, which the senders do
not take), and in fields read and written with no lock (`relayLinkState`,
`relayConnId`, the connection's state, the online status).

### What makes each part correct

- *Call table*: every call in the map is seen by the scans; an ended call stays
  ended; a waiting call is answered or timed out; both sides agree on which
  calls run; no thread keeps the lock.
- *Acknowledged streams*: data is handed over in order, whole, at most once;
  `sendRTData` gets one answer, and a success only for data that arrived; a
  gap holds up the stream for a bounded time.
- *Instant messages*: a message is timed from before it can leave until its
  answer; no timeout after an acknowledgement; nothing the application has not
  settled is acknowledged to the server; what was refused comes again.
- *Frontend connection and login*: a connection is closed before another is
  made; a handshake has its key
  and comes to an end; who is online is bound; who logged out stays offline;
  who wants to be online is so again after faults; the destructor returns.
- *XMD connections*: a creation gets one answer; an end whose peer has gone
  finds out; what the application was told last of its connection is true.
- *P2P connections*: a processor outlives its thread and a session its users;
  hanging up leaves no processor and no connection; punching and closing end.
- *Back-off*: the delay stays between its minimum and its maximum.

## Modules

| Module | What it is |
|---|---|
| `CallLifecycle` | abstract: what the call table promises the application about one call |
| `RtsCalls` | the call table, its lock, the relay link and the threads that use them; each call implements `CallLifecycle` |
| `MCRtsCalls` | model values for it |
| `RtsCalls_proofs` | its inductive invariant and the refinement, for every value of the constants |
| `RtsHealthy_proofs` | what more holds of the call table when nobody cancels, when the relay comes up, or when it also stays; and, without condition, which steps drop a call silently |
| `P2PCall`, `MCP2PCall`, `P2PCall_proofs` | the direct connections of one running call: the processor's thread, the worker's callbacks, the threads that close the call |
| `FrontendConn`, `MCFrontendConn`, `FrontendConn_proofs` | the connection to the frontend, the login and the destructor, between the send, receive and check threads |
| `StreamDelivery` | abstract: what a reliable stream promises to its two applications |
| `AckStream` | an ACK or BATCH_ACK stream: slices, queues, resend timers, acknowledgements, reassembly, ordering buffer; it implements `StreamDelivery` |
| `MCAckStream`, `AckStream_proofs` | small streams; the invariant and the refinement |
| `ConnLifecycle` | abstract: what a connection promises to the applications at its two ends |
| `XmdConn` | one connection: handshake, resends, pings, close, reset, silence; it implements `ConnLifecycle` |
| `MCXmdConn`, `XmdConn_proofs` | a small connection; the invariant and the refinement |
| `MessageLife` | abstract: what is promised of one message that the application sends |
| `ImSend`, `MCImSend`, `ImSend_proofs` | messages on their way out: the maps of unanswered messages between three kinds of threads; each message implements `MessageLife` |
| `StoredDelivery` | abstract: what is promised of the messages that the server has stored for a user |
| `ImReceive`, `MCImReceive`, `ImReceive_proofs` | stored messages on their way in: compounds, refusals, acknowledgements, pulls; they implement `StoredDelivery` |

Each `MC` module EXTENDS its component; the `.cfg` files give the constants.
Names beginning with `V` are configurations whose property is violated.
Definitions marked *Mutant of X* are alternative, wrong versions of `X`: they
take no part in the specification, and show what each property would notice.

### RtsCalls and the code

A step is the code between two points at which another thread can change what
the step reads: a critical section of `mutex_0`, or a run of unlocked code that
touches shared state once.  `pc[t]`, `arg[t]`, `after[t]` say where thread `t`
is, on which call, and where the shared tail returns to.

| State | Code |
|---|---|
| `call`, `callVec` | `currentCalls` (state of each session) and `currentCallVec` |
| `aged` | calls whose `latestLegalCallStateTs` is `RTS_CALL_TIMEOUT` ago |
| `launchCalls`, `lock` | `onlaunchCalls`; the launch thread holding `mutex_0` by a raw `pthread_rwlock_wrlock` |
| `relayConnId`, `relayLinkState`, `bound` | the fields of the same names, `bindRelayResponse` |
| `conn`, `p2p` | what the transport knows of relay and direct connections |
| `birth` | how far the insertion of a call has come |
| `sent`, `got`, `told` | signalling to and from the server, callbacks made |

`dialCall` and `INVITE_REQUEST` share `RelayBranch`, `CreateRelay`, `OpenRelay`,
`SetRelay`, `Insert*`, because they read the link's state, open the relay and
insert the call in separate steps; the link's state is read once for each
branch, and a dial that finds it changed back returns 0.  `CREATE_RESPONSE`, `BYE_*` and
`UPDATE_REQUEST` check the call in one critical section and use it in another.
`closeCall` copies the session, cancels the launch thread (`Cancel`, at whatever
step that thread is), erases (`Delete`), perhaps closes the relay
(`CloseRelayWhenNoCall`, `DropRelay`) and calls back.  `currentCalls.at` of a
missing call throws where nothing catches: the thread goes to `aborted`, and
the process takes no further step.

Left out of this module: the update states (no path of this version enters
them), malformed signalling, the online status, `FE/UNBIND` pushes, a failure
of `getLocalInfo`, and call data.  `RelayScan` lets the `BEING_CREATED` timeout
pass at any moment, which allows more than the clock does.  Cancellation is the
`pthread_cancel` of the non-Android build; a cancel that strikes while the
thread waits for a lock or allocates memory is not modelled.  Callbacks made
under the lock do not call back into the `User`.  A connection id is used again
once nothing refers to it.

`CallLifecycle` is one call as the application sees it, and `RtsCalls`
implements it once for each call (`Life(c)`): `Stage` is the call's place in the
table, `Owed` the callbacks that some thread is on its way to make, `told` is
shared.  A call never goes back, is launched at most once, and a dialled call
hears `onAnswered(true)` at most once and never together with
`onAnswered(false)`, however an answer races the scan, a hang-up, a logout or
a relay fault.  That rests on the server giving a `CREATE_REQUEST` one response
at most, a success or a failure (`CreateResponse`).  Not promised, because
the code does not keep it: that an end is told, told once, or told after the
acceptance.

### StreamDelivery, AckStream and the code

The worker thread of an end handles one queue entry at a time and owns the
stream's maps, so a step is one handler: `BuildAckStreamPacket`
(`PacketBuilder`), `SendPacket` (send thread), `GiveUp` / `StopResend` /
`Resend` (`HandleResendTimeout`), `ReceivePacket` (`handleAckStreamData`,
`insertAckStreamPacket`, `CallbackAckStreamData`), `HandleAck` (single and
batch), `SendBatchAck`, `DeleteAckGroup`, `CheckCallbackBuffer`, and
`deleteConn` at either end.  `where`, `left`, `recvAck`, `info` are a packet's
place and its entries in the resend maps; `sendCb` and `ackedSlices` are
`streamDataSendCbMap_` and its slices; `part`, `buffer`, `late`, `checks`,
`last` are the partial groups, `callbackDataMap_`, the waits that are over, the
running check timers and `lastCallbackGroupId`.

The network is two sets that only grow: an element may be received never, once
or again, in any order, which covers loss, duplication and reordering.  Timers
and the worker's queue are unordered.  Every group's wait is finite because the
wait time on the wire is a `uint16`.  Slices have no contents.  A stream is
never closed alone (nothing in the SDK calls `closeStream`), so a worker that has
the connection has the stream: the refusals for a stream that does not exist
(`XMDWorkerThread.cpp:278`, `PacketCallback.cpp:40`) are left out.  Data has at
least one byte, as what the SDK sends has, which is serialised with its fields
set.  (`sendRTData` itself lets empty data through: `PacketBuilder.cpp:230` then
makes a group of no slices, which no acknowledgement completes and no timer
gives up, so it is never answered.)

`StreamDelivery` has five variables and four actions.  `AckStream` maps `sent`
to `nextGroup` and `received` to the groups all of whose slices have arrived;
the delivery and answer counts are shared.  What both abstract specifications
of the transport are for is their invariant `Promised`: for a stream, that
every group is delivered at most once, only if it was sent and has arrived, and
answered at most once.

### ConnLifecycle, XmdConn and the code

Both ends run this code; an end's worker thread handles one queue entry at a
time, so a step is one handler.  The creator queues `WORKER_CREATE_NEW_CONN`
(`CreateConnection`), its worker enters the connection (`HandleCreate`), the
send thread writes `CONN_BEGIN` and starts the resend timer (`SendBegin`), and
each of the four outcomes of `HandleResendTimeout` for packet 0 is an action
(`DropBegin`, `StopBegin`, `FailBegin`, `ResendBegin`).  The acceptor answers
every `CONN_BEGIN`, and makes the connection if it does not have it.

| State | Code |
|---|---|
| `create`, `begin`, `left` | the worker's entry; where the `SendQueueData` of `CONN_BEGIN` is, and its `reSendCount` |
| `recvAck`, `info` | the entries for packet 0 in `isPacketRecvAckMap_` and `packetCallbackInfoMap_` |
| `conn`, `heard` | `connectionMap_` with `connState`; `lastPacketTimeMap_`: no entry, a recent time, a time older than the timeout |
| `pings`, `checks`, `pongDue` | running timers of each kind; they carry a connection id only, so those of a closed connection go on with one made again |
| `net` | the packets on their way |
| `succ`, `fail`, `accepts`, `told` | callbacks made; the last one was of an open or an ended connection |
| `closed`, `gaveUp` | ends whose application closed what they have; ends that ever gave up |

The network is a set: a packet that arrives may stay for another copy, may be
lost, and overtakes any other.  `PING` and `PONG` stand for every packet that
needs an open connection.  Several pong timers of an end send the same packet
and are one.  Left out: changed addresses (a packet from another address moves
the connection there), statistics, the streams, which `AckStream` has.  What is
sent to a network that already holds `MaxPackets` packets is lost.

`ConnLifecycle` sees each end's connection as "idle", "asked", "up" or "over".
A success needs an acceptor that was told, there is one answer, and an end that
loses the connection has given it up, or some end has before.  An acceptor may
get the connection again: `CONN_BEGIN` is answered whenever it comes.  Its
`Promised`: one answer, a success only with an acceptor that was told, a
connection that is up was answered with success, one that failed is over, and
no end is over unless some end gave up.

### ImSend and the code

`waiting` is both `packetsWaitToTimeout` and `groupPacketWaitToTimeout`.
`sendMessage` is three steps: it stamps the packet and starts the unlocked
`insert` (`Send`), the insert ends (`Insert`), the packet is queued (`Push`).
The receive thread calls `handleServerAck` (`HandleServerAck`) and then erases
under the mutex (`EraseAcked`); the check thread reports (`ReportTimeouts`) and
erases (`EraseTimeouts`) in one critical section.  An unlocked `std::map::insert`
that meets another access is a data race: the model lets entries be lost or
missed, keeps these in `raced`, and promises nothing about them.  A crash from
the same race is not modelled.  `SendPacket` may find a connection that is not
bound yet; the server ignores what it gets there.

`MessageLife` is one message: taken, queued, left, and beside that its answer
(at the server or on its way, reported, dealt with) and its timeout.  `ImSend`
implements it once for each message (`Life(m)`, with `Place` and `Answer`): a
message leaves at most once however often the connection is made again, its
acknowledgement is reported at most once and only if the server gave one, its
timeout at most once, only for `sendMessage`, and not after the acknowledgement
was dealt with unless the entry had `raced`.

### ImReceive and the code

The server is external: it keeps messages in a sequence, pushes all it keeps
when one is stored, at `BIND` and on `PULL`, and sends a notification in place
of more than `Limit` messages.  `HandleNormal` is the whole COMPOUND handler:
both handlers are called, and one refusal replaces the acknowledgement by a
`pull()`, which does nothing offline.  `HandleExceeded` is the notification.
`Remembered` is `{}` because `addCompoundSequenceAndCleanOld` names its
parameter like the member and inserts a map into itself; so
`sequencesReceived` stays empty and its cleaning has nothing to do.
`Disconnect` keeps the packet that the receive thread already holds.

`StoredDelivery` knows no packets and no connection, only what is stored,
forgotten (`dropped`), accepted, and told to be fetched.  `ImReceive` implements
it: a batch that is handed over lies within the `Limit` messages behind a
stretch that is settled, a longer stretch is announced, and the server forgets
only from the front and only what is settled; messages for no handler
(`Kind` "other") count as settled.  That a message is handed over once is not
promised, and is false (`DeliveredOnce`).

### FrontendConn and the code

`Connection` and the login fields of `User` are used by three threads and the
application without a lock, so a step is one write (or one read that decides).

| State | Code |
|---|---|
| `sock` | `socketfd`: not connected, or what is at its other end: an answering peer, one that has gone, one that says nothing |
| `unused` | `socketfd` is a socket that `connect()` made for an address it then left |
| `state`, `key`, `timer` | `Connection::state`, `challenge` and `body_key`, `nextResetSockTimestamp` (not set, set, passed) |
| `online`, `justBound`, `tokenInvalid`, `permitLogin` | `onlineStatus`, `lastLoginTimestamp` within `LOGIN_TIMEOUT`, and the fields of the same names |
| `unbinds` | the `UNBIND` packets in `packetsWaitToSend` |
| `out`, `held`, `origin` | the packet each thread works on; the connection it was read from |
| `toServer`, `toClient`, `bound` | the TCP stream, in order, and the server's view |
| `stale`, `clean` | history, see below |

`Send` is a turn of `User::sendPacket`: the look at the state (`StartConnect`),
the turns of the loop in `Connection::connect` (`SkipAddress`, `ConnectFails`,
`Connect`) and `CONN`; the bind branch, in
which permission is looked at once; otherwise the queue, otherwise a ping; then
`trySetNextResetTs` and the write.  `Receive` is a turn of
`User::receivePacket` with `decodePacketAndHandle`: the read, the clearing of
the timer, decryption (with the key there is then) and the handler.  `Check` is
the timer of `User::checkTimeout`.  `ResetSock(t)` is `Connection::resetSock`
in five steps, run by any of them and by the destructor (`JoinSend`).

A reset is not atomic and `connect()` does not wait for one that is still going
on, so the end of a slow reset takes the state, the key or the timer from the
next connection; and the receive thread goes on with the packet it holds.  The
model has all of that.  `clean` says that `connect()` found the other threads
at rest and that no packet of the connection before was handled after its
reset had begun: the invariants about a connection are stated for clean ones
and are false for others.

`connect()` overwrites `socketfd` with a new socket for every address it tries.
`ConnectedIsClosed` says that the connection before was closed by then.  It does
not say that no socket is ever lost, which is false: for an address without a
port the loop has opened a socket (`connection.cpp:66`), goes on without closing
it (line 75) and overwrites it (line 66 or 147).  The model has that socket
(`unused`); it was never connected, and no property is about it.  On Windows,
which is not modelled, every turn opens a second socket over the first (lines 61
and 86).  A refused connection closes its socket and is a fault (`ConnectFails`);
whether the list of addresses or the domain is tried next is open.

A read takes the `socketfd` of the moment: a thread that was about to read from
the connection before reads from the new one.  A read that was already waiting
on the old socket fails.

The server is external: it answers `CONN`, `PING`, `BIND`, `UNBIND`, kicks and
refuses (each a fault), and closes a connection whose packet it cannot decrypt.
Its answer to `UNBIND` is taken to be a `BIND` or `KICK` that denies the login:
`packet_manager.cpp:223-274` has no branch for `UNBIND`, only those two make a
connected user offline, and `test/mimc_test.cpp:145` expects a user to be
offline after `logout()`.
A failed token fetch leaves the turn to be repeated after a back-off of any
length.  Left out: messages in the queue (`ImSend`), the calls that `logout` ends
(`RtsCalls`), the status callbacks, a handler that is NULL.

### P2PCall and the code

One call and one processor.  Direct connections are off by default
(`user.cpp:58`) and are switched on by `enableP2P` (`user.h`;
`demo/rts_echo_demo.cpp:215` does).

| State | Code |
|---|---|
| `mState`, `mStop`, `detects`, `exchanges`, `punches` | `mP2PState`, `mStop`, the counters of `run` |
| `wan`, `peerWan` | the internet addresses in `mNetInfo` and `mPeerNetInfo` are known |
| `proc`, `gMutex` | the entry of `gP2PProcessors`; who holds its mutex, to list a processor or to stop one |
| `call`, `burrowed`, `connId`, `mutex0` | the `P2PCallSession`, its burrow states and connection ids; who holds `mutex_0` for writing |
| `conn` | the transport's connection of each link |
| `launched`, `relay` | the entry of `onlaunchCalls`; `bindRelayResponse` is set |
| `answered` | requests this side answered, so that the peer may connect |
| `late`, `dropped`, `broken` | history, see below |

`Run` is a turn of `P2PProcessor::run`: the turns of `START` and `NET_DETECT`
(`TurnDetect`, `TurnDetected`), of the exchange and of punching, each with its
counter, and the stop.  `sendNetInfo` and `sendBurrowRequest` look the session
up under `mutex_0` and use it after (`NetInfoSession`/`NetInfoSend`,
`PunchSession`/`PunchSend`).  `updateP2PState` is `Compare` and `Assign`, on
three threads.  `Handle` is what the worker thread does with detection answers
and burrow packets; `Connected`, `ConnEnds`, `ConnLost`, `RelayLost` and
`CloseCalls` are `RTSConnectionHandler` and `checkAndCloseCalls`.  `Continue(t)`
is the tail of `closeCall`, `BYE_*` and `logout`: cancel the launch thread, take
`mutex_0`, `closeP2PConn`, `stopP2P` (`StopP2P`, `Join`, `Delete`: the look at
`mThread` and its join, then the deletion, under `gMutex`), erase.  `onLaunched`
takes `mutex_0` (`LaunchLock`) and releases it with its decision (`LaunchAccept`,
`LaunchRefuse`, `LaunchGone`); `startP2P` lists the processor under `gMutex`
(`Insert`, `Listed`) and starts it after (`Start`).  A launch thread may be
cancelled between any two of these steps (`KillLaunch`), and then releases
nothing.

The counters count only the turns in which something is sent; the turns in
between let time pass and change nothing.  A step that uses a pointer that is
NULL or deleted, or `at` of a missing call, sets `broken`, where the model
stops.  `dropped` says that the table let the call go without `closeP2PConn`
(`clearCurrentCallsMap`, for which `ClearCalls` stands, at any time, as the check
thread's relay scan calls it too; `checkAndCloseCalls`), or that a launch thread
that nobody could find any more listed the processor of a call that was already
closed.  `late` says that such a thread had listed it in time and started it only
after `stop()` had looked for its thread, perhaps on a deleted processor: the
thread then runs on what is gone (`broken` at its first use).

The code has two deadlocks.  `JoinDeadlock`: `closeP2PConn` joins the processor's
thread while its caller holds `mutex_0`, and the thread waits for `mutex_0` in
`sendNetInfo` or `sendBurrowRequest`.  `KilledHolder`: a launch thread that was
cancelled between `user.cpp:520` and 540, or `p2p_processor.cpp:108` and 115, has
taken `mutex_0` or `gMutex` with it, and whoever needs that lock waits for ever,
the closer that cancelled it first of all (`CloseCompletes` is violated for the
same reason).  `OnlyKnownDeadlocks` says that there is no third: apart from these
states, whoever waits for `mutex_0`, for `gMutex` or for the thread waits for
somebody who is at work (never for a thread that has returned with the lock) and
who can go on, or waits for one who can.  The properties name each of `late`,
`dropped`, `broken` and the two deadlocks where they except it, and every one of
these exceptions is needed.  Left out: the kind of NAT, a second
`CREATE_RESPONSE` for a running call, a `closeCall` made from `onP2PResult`, a
cancel that strikes while the launch thread waits for a lock.  The single
worker is the code's: `user.cpp:1704` makes one.

## Runs

| Run | Instance | Asks | States |
|---|---|---|---|
| `rts_healthy` | 1 dialled, 1 invited call, 1 application thread that dials and closes, a relay that may refuse to be opened and otherwise works | `NoSilentDrop`, `AcceptedIsRunning` | 3.4 M, 100 s |
| `rts_live` | 1 dialled, 1 invited call, limit 1, dial and logout, every relay fault, direct connections, fair | `EveryCallScanned`, `EndedIsFinal`, `LockHasOwner`, `ImplementsLifecycle`, `WaitingEnds` | 524 k, 175 s |
| `rts_close_completes` | invitation and `closeCall`, fair | `CloseCompletes` is violated | |
| `p2p_call` | caller or callee, one request of each kind, 2 events, any thread closes, fair | `ProcessorOutlivesThread`, `SessionOutlivesSender`, `NothingLeft`, `LinksAreKnown`, `OnlyKnownDeadlocks`, `PunchingEnds`, `CloseEnds` | 928 k, 135 s |
| `stream_order` | 3 groups of 2, 1, 1 slices, the first resent for ever, either end may close, fair | `BufferIsChecked`, `EveryGroupIsOwned`, `ImplementsDelivery`, `EveryGroupAnswered`, `BufferDrains` | 243 k, 140 s |
| `stream_batch` | 2 groups of 2 and 1 slices, the second resent once, batch acknowledgements | `ImplementsDelivery` | 1.2 M, 110 s |
| `xmd_conn` | one resend, `CONN_BEGIN` makes the connection up to twice, 2 different packets on the way, fair | `OpenIsWatched`, `ApplicationKnows`, `ImplementsLifecycle`, `CreateAnswered`, `HalfOpenEnds` | 519 k, 110 s |
| `im_send` | 2 messages, 1 group message, fair | `WaitsUntilAnswered`, `NoLateTimeout`, `ImplementsLife`, `P2PAnswered` | 166 k, 17 s |
| `im_receive` | 4 messages of three kinds, limit 2, every handler may refuse, 3 packets on the way, fair | `ForgottenIsSettled`, `ImplementsDelivery`, `EveryMessageSettled` | 129 k, 25 s |
| `im_delivered_once` | 2 messages | `DeliveredOnce` is violated | |
| `fe_conn` | login, logout, destroy; 1 fault, 1 `UNBIND`, 1 packet each way | `ConnectedIsClosed`, `HandshakeHasKey`, `OnlineIsBound`, `HandshakeIsWatched`, `OfflineStays` | 4.1 M, 40 s |
| `fe_live` | login and destroy, same bounds, fair | `Reconnects`, `HandshakeEnds`, `DestroyEnds` | 474 k, 100 s |

Why these bounds are enough to be interesting.  Two calls are the least that
share a relay, fill a limit of one, and let one call's end act on the other's
state; the threads that work on them are all there.  One relay connection can
be opened, lost and opened again.  Three groups, one of two slices, are the
least with a gap, a group behind it in the buffer and an incomplete group.  Two
`sendMessage` calls race in one map; the group message has the other.  Four
stored messages with a limit of two give overlapping compounds of both kinds.
`MaxPackets` bounds what is on the connection in `ImReceive`.  For a
connection, one resend gives two copies of the request, each of which may make
it; two different packets on the way are the least that overtake each other.

The frontend connection is replaced any number of times in `fe_conn`: a
connection that breaks once (`MaxFaults` 1) is made again, and threads still at
work on the old one meet the new one; resets that follow from a wrong key or a
closed socket are not counted as faults, a connect that fails is. One packet each way on the wire, one
in each thread's hands and one in the queue are enough for an answer to arrive
late. In `p2p_call` each counter is 1, so each request is sent once and then
given up; two events are the least in which an answer and a loss, or answers
for both links, follow one another. The code's counts (10, 5 and 25 sends)
repeat the same turns; the proofs hold for any.

The type invariants are in no run: they are proved, for all bounds.

`CHECK_DEADLOCK FALSE` stands in every configuration: calls, groups and
messages are used up, and a process that aborted stops.

### What the violated properties say

- **`CloseCompletes`** (`user.cpp:1520`).  `closeCall` cancels a launch thread
  that may hold the write lock taken at `user.cpp:520`; the lock is never
  released, and `closeCall` waits for it at line 1532.  For this reason
  `rts_live` has an application that dials and logs out and none that closes
  calls: `WaitingEnds` would fail with it, and `LockHasOwner` too.
- **`DeliveredOnce`** (`packet_manager.cpp:776`).  See `Remembered` above.

More observations from reading and from the models are recorded under
"hazards": `maxCallNum` is compared with `==` under a lock that is released
before the call is inserted, so that the table may grow past it; `closeP2PConn`
can deadlock with the processor's thread; a launch thread started late leaves a
thread on a deleted processor; `connect()` loses the socket it opened for an
address without a port; a cleared table leaves processors
behind; an overlapping reset damages the next connection; the destructor waits
for ever for an `UNBIND` that cannot be sent; a late `CONN_BEGIN` makes a
closed connection again, which only resets and the check timer end;
`deleteConn` reports success for a connection that is not there; a relay fault
drops dialled calls without a callback, and so does the end of a direct
connection when there is no relay (`NoSilentDrop` is violated in an instance
with direct connections); an answer that races the timeout scan makes two
`onAnswered(false)` calls; the timeout of a group message is never reported.

### Fairness

Threads that can take a step take it (weak fairness of each thread's own
steps), and seconds pass (`Age`, the scans, the stream's timers). Not assumed:
that the application's `onLaunched` returns (`LaunchLock` has none), that it
calls anything, that a relay, peer or network answers, that a connection comes
back. `XmdConn` assumes that the worker and send threads run, that the resend
and check timers fire, that time passes (`Silence`) and that no packet stays in
the network for ever (`Lose`); no packet has to arrive and no ping to be sent.
`ImReceive` is the exception, as its promise is about delivery: there the
server pushes what is due, the user's connection stays (`<>[](link =
"online")`, a premise of the property), and the application does not refuse for
ever (strong fairness of `HandleNormal(TRUE, TRUE)`: it is called again and
again and not every time refuses).

`FrontendConn`: the three loops and the application's operations go on once
begun; the login time runs out (`Age`); the server answers what it has received
(`Serve`) as long as the connection is open, and the reset timer of a
connection that is not open expires.  Nothing is assumed of the network, of
kicks and refusals (which `MaxFaults` ends), or of what the application calls;
that faults are bounded is the premise of `Reconnects`, which also asks for
permission to log in and clean connections from some time on.

`P2PCall`: the processor's thread runs, and threads inside a closing operation,
or inside a handler of the receive thread, go on, and so does the launch thread
while it holds a lock and is not cancelled.  Nothing else is assumed of the launch
thread, and nothing of the worker thread, the peer or the network: neither the
processor nor a closer may wait for them.

## Proofs

`tlapm` proves, for all values of the constants:

| Theorem | Module | Says |
|---|---|---|
| `TypeCorrect` | each `_proofs` module but `RtsHealthy_proofs`, which uses that of `RtsCalls_proofs` | `Spec => []TypeOK` |
| `CallsAreScanned` | `RtsCalls_proofs` | `[]EveryCallScanned` |
| `EndedStaysEnded` | `RtsCalls_proofs` | `[]EndedIsFinal` |
| `Implementation` | `RtsCalls_proofs` | `ImplementsLifecycle`: each call refines `CallLifecycle`, under all faults and cancellations |
| `VerdictsAreFinal` | `RtsCalls_proofs` | `OneVerdict` of `CallLifecycle` for every call: accepted once at most and never with refused, launched once at most, an end told only of a call that is gone |
| `BufferIsAlwaysChecked` | `AckStream_proofs` | `[]BufferIsChecked` |
| `NoGroupIsLost` | `AckStream_proofs` | `[]EveryGroupIsOwned` |
| `Implementation`, `PromisesHold` | `AckStream_proofs` | `ImplementsDelivery`: the stream refines `StreamDelivery`; its `Promised` |
| `LockIsOwned` | `RtsHealthy_proofs` | `[]LockHasOwner`, if no `closeCall` and no `BYE_REQUEST` cancels a launch thread |
| `AcceptedRuns` | `RtsHealthy_proofs` | `[]AcceptedIsRunning`, if the relay, once opened, connects and binds (it may refuse to open, and may be lost later; with or without logout and direct connections) |
| `NothingGoesSilently` | `RtsHealthy_proofs` | `[]NoSilentDrop`, if the relay is also never lost, with no logout and no direct connections (as in `rts_healthy`) |
| `DropsAreKnown` | `RtsHealthy_proofs` | under any faults, a dialled call leaves the table with its end reported (or about to be), except in `clearCurrentCallsMap`, and, if it was not answered, in `logout` and `checkAndCloseCalls` |
| `OnlyClearForgets` | `RtsHealthy_proofs` | under any faults, an accepted invitation is dropped without hanging up or a report only in `clearCurrentCallsMap` |
| `SocketsAreClosed`, `KeysMatch`, `HandshakesWatched` | `FrontendConn_proofs` | `[]ConnectedIsClosed`, `[]HandshakeHasKey`, `[]HandshakeIsWatched` |
| `OnlineMeansBound` | `FrontendConn_proofs` | `[]OnlineIsBound` |
| `OfflineIsKept` | `FrontendConn_proofs` | `OfflineStays`, an action property |
| `ProcessorsOutlive`, `SessionsOutlive` | `P2PCall_proofs` | `[]ProcessorOutlivesThread`, `[]SessionOutlivesSender` |
| `LinksKnown`, `NothingIsLeft` | `P2PCall_proofs` | `[]LinksAreKnown`, `[]NothingLeft` |
| `LocksGoOn` | `P2PCall_proofs` | `[]OnlyKnownDeadlocks` |
| `OpenIsAlwaysWatched`, `CallbacksFollow` | `XmdConn_proofs` | `[]OpenIsWatched`, `[]ApplicationKnows` |
| `Implementation`, `PromisesHold` | `XmdConn_proofs` | `ImplementsLifecycle`: the connection refines `ConnLifecycle`; its `Promised` |
| `TimedUntilAnswered` | `ImSend_proofs` | `[]WaitsUntilAnswered` |
| `TimeoutsAreFinal` | `ImSend_proofs` | `NoLateTimeout`, an action property |
| `Implementation` | `ImSend_proofs` | `ImplementsLife`: each message refines `MessageLife` |
| `NothingIsForgotten` | `ImReceive_proofs` | `[]ForgottenIsSettled` |
| `Implementation`, `PromisesHold` | `ImReceive_proofs` | `ImplementsDelivery`: stored messages refine `StoredDelivery`; its `Promised` |

Each rests on an inductive invariant `IInv`, proved by a lemma per conjunct and
a case per action.

- **`RtsCalls`**: that an ended call stays ended needs to know who may still
  insert or revive it.  `OneOwner` (a thread about to insert is alone with its
  call), `Unentered` (nothing has happened to a call before its insertion),
  `LaunchesInvited`, `HandlesEntered` (handlers work on inserted calls),
  `EndingIsRemoved` (a thread that will report an end has removed the call) and
  `AnswersLocked` (a launch thread that accepts holds the lock, and its call
  stays until it runs) give that.  The refinement of `CallLifecycle` adds
  `OnlyDialledAnswered` (only the receive thread answers, and only dialled
  calls), `OneAnswer` (an accepted call runs or is gone, and no other answer to
  it is in hand) and `LaunchedOnce`.  The step that needs most is `AnswerOk`:
  the call was found in one critical section and is used in a later one, and
  `OneAnswer` with `EndedIsFinal` says that it can only have gone meanwhile.
- **`RtsCalls` under a condition** (`RtsHealthy_proofs`): the lock's owner is
  there because no thread is ever about to cancel (`NoCancel`).  For the calls,
  `LaunchesOwn` (a launch thread works on its own call, entered, no longer
  waiting to be launched) and `AcceptedOnce` hold under any faults.
  `NothingClears` (no thread gets to clear the table) needs a relay that comes
  up, and carries `AcceptedIsSettled`; `NothingCloses` (no thread closes calls
  for want of a relay) needs one that stays, and carries `GoneIsSettled` (a
  dialled call that is gone was told, or a thread is on its way to tell).
  Both come from what holds under any faults: what is about to be reported is
  (`SettledStays`), and a call goes unreported only in the three places of
  `DropsAreKnown` (`NextEnds`, `NextFollowed`), of which the conditions rule out
  one or all.
  No part of either condition can be dropped: without it TLC finds a
  counterexample to the conclusion in a small instance.
- **`FrontendConn`**: who resets a clean connection has closed its socket
  (`ResetHasClosed`), a connection that is not connected has no socket
  (`ClosedOrConnected`), a packet in hand belongs to the connection
  (`HandlesThis`, `PacketInHand`, `ShakesWithKey`), before the handshake there
  is nothing but `CONN` on the wire (`FirstIsConn`, so that nothing else can
  clear the timer) and `WaitsWatched`; the destructor resets after the send
  thread has ended (`ResetAfterSend`).  `OnlineIsBound` needs more (`BindInv`):
  a denial is behind every `BIND_OK` that it takes back (`DenialFollows`), and
  what is left of a reset is offline and has no key (`ResetGoesOffline`,
  `ResetForgets`), so that every clean connection begins offline.
- **`P2PCall`**: before a call is accepted there is nothing to stop
  (`WaitingIsClean`), whoever closes its links holds `mutex_0` until it is
  erased (`CloserHoldsMutex`), and `EndedIsStopped`, `StopsWithoutLinks`; the
  properties themselves complete it.  For the locks, `HoldersAtWork`: who holds
  one is at a step inside its critical section; that and the order in which the
  steps take the locks give `OnlyKnownDeadlocks` by cases on who waits.
  `StarterHoldsMutex` (the receive thread starts under `mutex_0`, a launch thread
  only what it has listed), `DeletesStopped` (what is deleted was joined) and
  `SendsOnProcessor` (a thread that sends has its processor, also if started late)
  carry the join over to the deletion.
- **`AckStream`**: `OnlySent` and `OnlyArrived` bound what can be on its way or
  counted; `OpenSlices` says that a waiting group has an unacknowledged slice
  and that each such slice has all its resend timer needs; `OneAnswer` counts
  answers; `OrderKept` bounds what was handed over.  The refinement maps each
  action to a `StreamDelivery` step or a stutter from these facts.
- **`XmdConn`**: `OneCreation` (nothing before the creation is handled; no
  answer and no ping of the creator while it waits for one), `PeerAccepted`
  (the creator's connection is open, a response is on its way, or a ping or
  pong to the acceptor, only after the acceptor was told) and
  `EndHasCause` (while nobody has given up, no end has lost its connection and
  no close or reset is on its way).  The last gives the `gaveUp` guard of the
  abstract step, the second the guard of a success.
- **`ImSend`**: `KnownIsInserted` (what travels or was answered had been
  inserted) and `ReportedFirst` beside `WaitsUntilAnswered` itself.  The
  refinement adds `SentOnce`: the queue holds no message twice, a message is at
  one of queue, wire, server and receive thread at a time (`InOnePlace`), and
  what is being acknowledged is not yet settled.
- **`ImReceive`**: `CompoundsFollow` (a compound begins where all before it is
  settled) and `ReceivedIsAccepted`.  The refinement adds `NothingAhead`: no
  packet in either direction speaks of messages that are not stored, and a
  compound is a batch or an announcement as the limit says (`SaysTrue`).

An abstract specification states what its implementation promises step by step;
`PromisesHold` and `VerdictsAreFinal` prove an invariant of the abstract
specification (`Inv`) once, on its own five or six actions, and carry it over
the refinement.

Assumptions on constants: sets of ids are disjoint and calls finite, the
markers (`NoCall`, `NoConn`, `NoMessage`, ...) lie outside the sets, sizes and
limits are naturals, resend counts are naturals or -1.  TLC evaluates them in
the runs.

Every invariant and action property that a passing run checks is proved. Only
model-checked: liveness (`WaitingEnds`, `EveryGroupAnswered`, `BufferDrains`,
`CreateAnswered`, `HalfOpenEnds`, `P2PAnswered`, `EveryMessageSettled`,
`Reconnects`, `HandshakeEnds`, `DestroyEnds`, `PunchingEnds`, `CloseEnds`):
liveness under fairness and ENABLED are beyond the prover, as are induction
over data and recursive operators, of which these modules have none. The two
violated properties are refuted by their runs.

## Not modelled

- **FEC streams** (audio and video): no retransmission; a group is rebuilt from
  parity packets by Galois-field arithmetic on payload bytes, which is out of
  TLC's reach.  What `PacketRecover.cpp` delivers rests on that, and little is
  promised without it: groups may be lost, come out of order, or, when a packet
  repeats, come again.
- **Composition**.  Each module has its neighbours as environment: `RtsCalls`
  lets the relay connect, fail or be lost at any time, where `XmdConn` says how;
  `ImSend` loses packets where `FrontendConn` says which; `P2PCall` has one call
  of `RtsCalls`' table.  The product of two of them is beyond what can be
  explored, and each environment allows at least what its neighbour does.
- **The update states** of a call: no path of this version enters them.
- **C interface** (forwards each call), **token and address fetching** (HTTP,
  JSON, a cache file), **back-off** (a random delay, left open in
  `FrontendConn`), **encodings and ciphers** (bytes to bytes, no state),
  sockets, epoll and pacing of the transport's own threads.
- **Generated and third-party code**: protocol-buffer classes and the vendored
  copies of libraries.  They are by far the most lines of the repository (the
  `*.pb.h` and `*.pb.cc` files alone, several of them twice, and the protobuf,
  json and logging headers) and have no protocol of their own.  The models
  cover the SDK's own logic, a small part of the lines: about 20 000 in
  `src/src`, `src/include/mimc` and `src/msg-libs/xmdtransceiver`.

Worth doing next: two calls with one processor each
in `P2PCall`, which share `gMutex`; two threads of an application in `ImSend`
with `FrontendConn`'s connection.
