------------------------------ MODULE AckStream ------------------------------
(***************************************************************************)
(* One reliable (ACK or BATCH_ACK) stream of the XMD transceiver between   *)
(* two ends that both run this code: the sender's application, worker,     *)
(* send and timer threads, a network that loses, duplicates and reorders,  *)
(* and the receiver's worker thread.                                       *)
(*                                                                         *)
(* The worker thread of an end handles one queue entry at a time and owns  *)
(* all the maps below, so a step is one handler.  Timer and queue entries  *)
(* are handled in any order: the network reorders what they lead to anyway.*)
(*                                                                         *)
(* A group is one sendRTData; its slices travel as packets <<group, slice>>*)
(* (the packet id is unique in the connection).  Closing a connection also *)
(* forgets its group ids; whatever is sent afterwards fails, so it is the  *)
(* data and not the number that a group stands for here.                   *)
(***************************************************************************)
EXTENDS Integers, FiniteSets

CONSTANTS
  NumGroups,    \* how often the application sends
  Size,         \* groupSize: the number of slices of each group
  ResendCount,  \* resendCount of each group, -1: for ever
  BatchAck,     \* the stream's type is BATCH_ACK_STREAM
  Closers       \* the ends that may lose the connection: "sender", "receiver"

Groups == 0 .. NumGroups - 1
PacketsOf(g) == {g} \X (0 .. Size[g] - 1)
Packets == UNION {PacketsOf(g) : g \in Groups}

ASSUME GroupsAssumption == NumGroups \in Nat
ASSUME SizeAssumption == Size \in [Groups -> Nat \ {0}]
ASSUME ResendAssumption == ResendCount \in [Groups -> Nat \union {-1}]
ASSUME BatchAssumption == BatchAck \in BOOLEAN

VARIABLES
  \* the sender
  open,          \* the connection is in connectionMap_
  nextGroup,     \* groupIdMap_: the next group id
  pending,       \* WORKER_SEND_RTDATA entries in the worker queue
  where,         \* a packet's SendQueueData: in the socket queue or the timer
  left,          \* its reSendCount
  recvAck,       \* isPacketRecvAckMap_
  info,          \* packetCallbackInfoMap_
  sendCb,        \* streamDataSendCbMap_: groups waiting for their result
  ackedSlices,   \* the sliceMaps of sendCb
  \* the network: what was sent may be received at any time, again, or never
  net,           \* data packets
  acks,          \* acknowledgements, each of a set of packets
  \* the receiver
  rOpen,         \* the connection is in connectionMap_
  part,          \* ackGroupMap_: slices of incomplete groups
  last,          \* lastCallbackGroupIdMap_, -1: no entry
  buffer,        \* callbackDataMap_: complete groups that wait for their turn
  late,          \* those that have waited longer than StreamWaitTime
  checks,        \* WORKER_CHECK_CALLBACK_BUFFER timers
  batch,         \* batchAckMap_
  \* what the two applications have seen
  arrived,       \* packets that reached the receiver
  delivered,     \* calls of RecvStreamData
  succ,          \* calls of sendStreamDataSucc
  fail           \* calls of sendStreamDataFail

sender == <<open, nextGroup, pending, where, left, recvAck, info, sendCb, ackedSlices>>
network == <<net, acks>>
receiver == <<rOpen, part, last, buffer, late, checks, batch>>
seen == <<arrived, delivered, succ, fail>>
vars == <<sender, network, receiver, seen>>

Init ==
  /\ open = TRUE
  /\ nextGroup = 0
  /\ pending = {}
  /\ where = [p \in Packets |-> "none"]
  /\ left = [p \in Packets |-> 0]
  /\ recvAck = [p \in Packets |-> "none"]
  /\ info = {}
  /\ sendCb = {}
  /\ ackedSlices = {}
  /\ net = {}
  /\ acks = {}
  /\ rOpen = TRUE
  /\ part = [g \in Groups |-> {}]
  /\ last = -1
  /\ buffer = {}
  /\ late = {}
  /\ checks = 0
  /\ batch = {}
  /\ arrived = {}
  /\ delivered = [g \in Groups |-> 0]
  /\ succ = [g \in Groups |-> 0]
  /\ fail = [g \in Groups |-> 0]
-----------------------------------------------------------------------------
(* The sender.                                                             *)

\* sendRTData: take the next group id and queue the data for the worker.
SendRTData ==
  /\ nextGroup < NumGroups
  /\ nextGroup' = nextGroup + 1
  /\ pending' = pending \union {nextGroup}
  /\ UNCHANGED <<open, where, left, recvAck, info, sendCb, ackedSlices,
                 network, receiver, seen>>

\* The worker cuts the group into packets, queues all of them for the socket
\* and registers what their acknowledgements will need.
BuildAckStreamPacket(g) ==
  /\ g \in pending
  /\ open
  /\ pending' = pending \ {g}
  /\ sendCb' = sendCb \union {g}
  /\ where' = [p \in Packets |-> IF p \in PacketsOf(g) THEN "queue" ELSE where[p]]
  /\ left' = [p \in Packets |-> IF p \in PacketsOf(g) THEN ResendCount[g] ELSE left[p]]
  /\ recvAck' = [p \in Packets |-> IF p \in PacketsOf(g) THEN "no" ELSE recvAck[p]]
  /\ info' = info \union PacketsOf(g)
  /\ UNCHANGED <<open, nextGroup, ackedSlices, network, receiver, seen>>

\* The worker refuses the group: the connection is gone, or a queue is full
\* (never a reason for data that is resent for ever).
RefuseRTData(g) ==
  /\ g \in pending
  /\ ~open \/ ResendCount[g] # -1
  /\ pending' = pending \ {g}
  /\ fail' = [fail EXCEPT ![g] = @ + 1]
  /\ UNCHANGED <<open, nextGroup, where, left, recvAck, info, sendCb, ackedSlices,
                 network, receiver, arrived, delivered, succ>>

\* The send thread writes the packet to the socket and starts its resend timer.
SendPacket(p) ==
  /\ where[p] = "queue"
  /\ where' = [where EXCEPT ![p] = "timer"]
  /\ net' = net \union {p}
  /\ UNCHANGED <<open, nextGroup, pending, left, recvAck, info, sendCb, ackedSlices,
                 acks, receiver, seen>>

\* Mutant of GiveUp: the callback is made without a look at streamDataSendCbMap_.
GiveUpTwice(p) ==
  /\ where[p] = "timer"
  /\ ~open \/ (recvAck[p] = "no" /\ left[p] = 0)
  /\ where' = [where EXCEPT ![p] = "done"]
  /\ recvAck' = [recvAck EXCEPT ![p] = "none"]
  /\ info' = info \ {p}
  /\ sendCb' = sendCb \ {p[1]}
  /\ ackedSlices' = ackedSlices \ PacketsOf(p[1])
  /\ fail' = IF p \in info THEN [fail EXCEPT ![p[1]] = @ + 1] ELSE fail
  /\ UNCHANGED <<open, nextGroup, pending, left, network, receiver,
                 arrived, delivered, succ>>

\* Mutant of GiveUp: the last resend is not noticed, only a closed connection.
GiveUpClosed(p) ==
  /\ where[p] = "timer"
  /\ ~open
  /\ where' = [where EXCEPT ![p] = "done"]
  /\ recvAck' = [recvAck EXCEPT ![p] = "none"]
  /\ info' = info \ {p}
  /\ IF p \in info /\ p[1] \in sendCb
     THEN /\ sendCb' = sendCb \ {p[1]}
          /\ ackedSlices' = ackedSlices \ PacketsOf(p[1])
          /\ fail' = [fail EXCEPT ![p[1]] = @ + 1]
     ELSE UNCHANGED <<sendCb, ackedSlices, fail>>
  /\ UNCHANGED <<open, nextGroup, pending, left, network, receiver,
                 arrived, delivered, succ>>

\* The resend timer: the connection is gone or the last resend is unanswered,
\* so the group fails, unless another packet has already settled it.
GiveUp(p) ==
  /\ where[p] = "timer"
  /\ ~open \/ (recvAck[p] = "no" /\ left[p] = 0)
  /\ where' = [where EXCEPT ![p] = "done"]
  /\ recvAck' = [recvAck EXCEPT ![p] = "none"]
  /\ info' = info \ {p}
  /\ IF p \in info /\ p[1] \in sendCb
     THEN /\ sendCb' = sendCb \ {p[1]}
          /\ ackedSlices' = ackedSlices \ PacketsOf(p[1])
          /\ fail' = [fail EXCEPT ![p[1]] = @ + 1]
     ELSE UNCHANGED <<sendCb, ackedSlices, fail>>
  /\ UNCHANGED <<open, nextGroup, pending, left, network, receiver,
                 arrived, delivered, succ>>

\* The resend timer: the packet has been acknowledged.
StopResend(p) ==
  /\ where[p] = "timer"
  /\ open
  /\ recvAck[p] # "no"
  /\ where' = [where EXCEPT ![p] = "done"]
  /\ recvAck' = [recvAck EXCEPT ![p] = "none"]
  /\ info' = info \ {p}
  /\ UNCHANGED <<open, nextGroup, pending, left, sendCb, ackedSlices,
                 network, receiver, seen>>

\* The resend timer: once more.
Resend(p) ==
  /\ where[p] = "timer"
  /\ open
  /\ recvAck[p] = "no"
  /\ left[p] # 0
  /\ where' = [where EXCEPT ![p] = "queue"]
  /\ left' = [left EXCEPT ![p] = IF @ = -1 THEN -1 ELSE @ - 1]
  /\ UNCHANGED <<open, nextGroup, pending, recvAck, info, sendCb, ackedSlices,
                 network, receiver, seen>>

\* Mutant of Completed: the first acknowledged slice completes a group.
CompletedEarly(A) == {g \in sendCb : PacketsOf(g) \intersect A \intersect info # {}}

\* The groups whose last slice is acknowledged when those of A are.
Completed(A) ==
  {g \in sendCb : /\ PacketsOf(g) \intersect A \intersect info # {}
                  /\ PacketsOf(g) \subseteq ackedSlices \union (A \intersect info)}

\* handleStreamDataAck, handleBatchAck.
HandleAck(A) ==
  /\ open
  /\ A \in acks
  /\ recvAck' = [p \in Packets |->
                   IF p \in A /\ recvAck[p] = "no" THEN "yes" ELSE recvAck[p]]
  /\ info' = info \ A
  /\ sendCb' = sendCb \ Completed(A)
  /\ ackedSlices' = {p \in ackedSlices \union (A \intersect info) :
                       p[1] \in sendCb \ Completed(A)}
  /\ succ' = [g \in Groups |-> IF g \in Completed(A) THEN succ[g] + 1 ELSE succ[g]]
  /\ UNCHANGED <<open, nextGroup, pending, where, left, network, receiver,
                 arrived, delivered, fail>>

\* closeConnection, the peer's CONN_CLOSE or CONN_RESET, or the silence timer:
\* deleteConn.  What the resend timers need stays for them.
LoseConnection ==
  /\ "sender" \in Closers
  /\ open
  /\ open' = FALSE
  /\ UNCHANGED <<nextGroup, pending, where, left, recvAck, info, sendCb, ackedSlices,
                 network, receiver, seen>>
-----------------------------------------------------------------------------
(* The receiver.                                                           *)

\* CallbackAckStreamData: hand the group over when it is the next one, else
\* let it wait in the buffer and start a timer to look after it.
Callback(g) ==
  IF g = last + 1
  THEN /\ delivered' = [delivered EXCEPT ![g] = @ + 1]
       /\ last' = g
       /\ UNCHANGED <<buffer, checks>>
  ELSE /\ buffer' = buffer \union {g}
       /\ checks' = IF g \in buffer THEN checks ELSE checks + 1
       /\ UNCHANGED <<delivered, last>>

\* handleAckStreamData: every packet is acknowledged, a repeated one too.
Acknowledge(p) ==
  IF BatchAck
  THEN /\ batch' = batch \union {p}
       /\ UNCHANGED acks
  ELSE /\ acks' = acks \union {{p}}
       /\ UNCHANGED batch

\* insertAckStreamPacket: a slice of a group that was handed over, or passed
\* over, is dropped; the last missing slice completes its group.
ReceivePacket(p) ==
  LET g == p[1]
      slices == part[g] \union {p}
  IN /\ rOpen
     /\ p \in net
     /\ arrived' = arrived \union {p}
     /\ Acknowledge(p)
     /\ \/ /\ last >= g
           /\ UNCHANGED <<part, last, buffer, checks, delivered>>
        \/ /\ last < g
           /\ slices # PacketsOf(g)
           /\ part' = [part EXCEPT ![g] = slices]
           /\ UNCHANGED <<last, buffer, checks, delivered>>
        \/ /\ last < g
           /\ slices = PacketsOf(g)
           /\ part' = [part EXCEPT ![g] = {}]
           /\ Callback(g)
     /\ UNCHANGED <<sender, net, rOpen, late, succ, fail>>

\* HandleDeleteAckGroupTimeout: the slices of a group are kept for 10 s.
DeleteAckGroup(g) ==
  /\ part[g] # {}
  /\ part' = [part EXCEPT ![g] = {}]
  /\ UNCHANGED <<sender, network, rOpen, last, buffer, late, checks, batch, seen>>

\* A group in the buffer has waited longer than StreamWaitTime.
WaitTooLong(g) ==
  /\ g \in buffer \ late
  /\ late' = late \union {g}
  /\ UNCHANGED <<sender, network, rOpen, part, last, buffer, checks, batch, seen>>

\* Mutant of Waits: StreamWaitTime is not looked at.
WaitsForEver(g) == g - 1 \notin buffer \union {last}

\* CheckCallbackBuffer walks the buffer in group order up to the first group
\* that still has to wait for one before it; the timer goes on while the
\* buffer is not empty.
Waits(g) == g \notin late /\ g - 1 \notin buffer \union {last}
\* Mutant of Released: what was handed over since is not dropped.
ReleasedAgain == {g \in buffer : \A h \in buffer : h <= g => ~Waits(h)}
Released == {g \in buffer : g > last /\ \A h \in buffer : (last < h /\ h <= g) => ~Waits(h)}
Blocked == {g \in buffer : g > last} \ Released

\* Mutant of CheckCallbackBuffer: the timer is not started again.
CheckCallbackBufferOnce ==
  /\ checks > 0
  /\ delivered' = [g \in Groups |-> IF g \in Released THEN delivered[g] + 1 ELSE delivered[g]]
  /\ \/ Released = {} /\ last' = last
     \/ \E g \in Released : (\A h \in Released : h <= g) /\ last' = g
  /\ buffer' = Blocked
  /\ late' = late \intersect Blocked
  /\ checks' = checks - 1
  /\ UNCHANGED <<sender, network, rOpen, part, batch, arrived, succ, fail>>

CheckCallbackBuffer ==
  /\ checks > 0
  /\ delivered' = [g \in Groups |-> IF g \in Released THEN delivered[g] + 1 ELSE delivered[g]]
  /\ \/ Released = {} /\ last' = last
     \/ \E g \in Released : (\A h \in Released : h <= g) /\ last' = g
  /\ buffer' = Blocked
  /\ late' = late \intersect Blocked
  /\ checks' = IF Blocked = {} THEN checks - 1 ELSE checks
  /\ UNCHANGED <<sender, network, rOpen, part, batch, arrived, succ, fail>>

\* HandleSendBatchAck
SendBatchAck ==
  /\ rOpen
  /\ batch # {}
  /\ acks' = acks \union {batch}
  /\ batch' = {}
  /\ UNCHANGED <<sender, net, rOpen, part, last, buffer, late, checks, seen>>

\* deleteConn at the receiver: the order and the buffer are forgotten.
LoseReceiver ==
  /\ "receiver" \in Closers
  /\ rOpen
  /\ rOpen' = FALSE
  /\ last' = -1
  /\ buffer' = {}
  /\ late' = {}
  /\ batch' = {}
  /\ UNCHANGED <<sender, network, part, checks, seen>>
-----------------------------------------------------------------------------
Next ==
  \/ SendRTData
  \/ \E g \in Groups : BuildAckStreamPacket(g) \/ RefuseRTData(g)
  \/ \E p \in Packets :
       SendPacket(p) \/ GiveUp(p) \/ StopResend(p) \/ Resend(p) \/ ReceivePacket(p)
  \/ \E A \in acks : HandleAck(A)
  \/ LoseConnection
  \/ \E g \in Groups : DeleteAckGroup(g) \/ WaitTooLong(g)
  \/ CheckCallbackBuffer
  \/ SendBatchAck
  \/ LoseReceiver

Spec == Init /\ [][Next]_vars

\* The threads of both ends run and their timers fire.  Nothing is asked of
\* the application or of the network.
Fairness ==
  /\ \A g \in Groups : WF_vars(BuildAckStreamPacket(g) \/ RefuseRTData(g))
  /\ \A p \in Packets : /\ WF_vars(SendPacket(p))
                        /\ WF_vars(GiveUp(p) \/ StopResend(p) \/ Resend(p))
  /\ \A g \in Groups : WF_vars(WaitTooLong(g))
  /\ WF_vars(CheckCallbackBuffer)

FairSpec == Spec /\ Fairness
-----------------------------------------------------------------------------
\* The values of the variables: the maps' keys and values.
TypeOK ==
  /\ open \in BOOLEAN
  /\ nextGroup \in 0 .. NumGroups
  /\ pending \subseteq Groups
  /\ where \in [Packets -> {"none", "queue", "timer", "done"}]
  /\ left \in [Packets -> Nat \union {-1}]
  /\ recvAck \in [Packets -> {"none", "no", "yes"}]
  /\ info \subseteq Packets
  /\ sendCb \subseteq Groups
  /\ ackedSlices \subseteq Packets
  /\ net \subseteq Packets
  /\ acks \subseteq SUBSET Packets
  /\ rOpen \in BOOLEAN
  /\ part \in [Groups -> SUBSET Packets]
  /\ last \in Groups \union {-1}
  /\ buffer \subseteq Groups
  /\ late \subseteq buffer
  /\ checks \in Nat
  /\ batch \subseteq Packets
  /\ arrived \subseteq Packets
  /\ delivered \in [Groups -> Nat]
  /\ succ \in [Groups -> Nat]
  /\ fail \in [Groups -> Nat]

\* A group given to sendRTData is in exactly one place: in the worker queue;
\* in streamDataSendCbMap_ with an unacknowledged packet whose resend timer
\* will settle it; or answered, by one callback.
EveryGroupIsOwned ==
  \A g \in Groups :
    LET answers == succ[g] + fail[g]
        coming == \E p \in PacketsOf(g) : p \in info /\ where[p] \in {"queue", "timer"}
    IN IF g >= nextGroup THEN g \notin pending \union sendCb /\ answers = 0
       ELSE \/ g \in pending /\ g \notin sendCb /\ answers = 0
            \/ g \in sendCb /\ g \notin pending /\ answers = 0 /\ coming
            \/ g \notin pending \union sendCb /\ answers = 1

\* Data that waits for its turn is looked after: the check timer runs.
BufferIsChecked == buffer # {} => checks > 0

\* The stream keeps the promises of StreamDelivery: groups are handed over in
\* order, once, and complete; each is answered once, and with success only
\* when all of it has reached the peer.
Complete == {g \in Groups : PacketsOf(g) \subseteq arrived}
Delivery == INSTANCE StreamDelivery WITH sent <- nextGroup, received <- Complete
ImplementsDelivery == Delivery!Spec

\* The parts of the inductive invariant.
\* Only data that was sent is on its way.
OnlySent ==
  /\ \A p \in Packets :
       /\ where[p] # "none" => p[1] < nextGroup
       /\ p \in net => p[1] < nextGroup
  /\ arrived \subseteq net

\* Whatever counts as acknowledged, collected or complete has arrived.
OnlyArrived ==
  /\ \A A \in acks : A \subseteq arrived
  /\ batch \subseteq arrived
  /\ ackedSlices \subseteq arrived
  /\ \A g \in Groups : part[g] \subseteq arrived
  /\ buffer \subseteq Complete

\* A group that waits for its result has a slice without acknowledgement, and
\* every such slice has all that its resend timer needs to settle the group.
OpenSlices ==
  /\ \A p \in ackedSlices : p[1] \in sendCb
  /\ \A g \in sendCb :
       /\ PacketsOf(g) \ ackedSlices # {}
       /\ \A p \in PacketsOf(g) \ ackedSlices :
            p \in info /\ where[p] \in {"queue", "timer"} /\ recvAck[p] = "no"

\* EveryGroupIsOwned without the packets.
OneAnswer ==
  \A g \in Groups :
    /\ g >= nextGroup => g \notin pending \union sendCb /\ succ[g] + fail[g] = 0
    /\ g \in pending => g \notin sendCb
    /\ g \in pending \union sendCb => succ[g] + fail[g] = 0
    /\ g < nextGroup /\ g \notin pending \union sendCb => succ[g] + fail[g] = 1

\* Nothing beyond last was handed over; a lost connection holds no data.
OrderKept ==
  /\ rOpen => \A g \in Groups : delivered[g] > 0 => g <= last
  /\ ~rOpen => buffer = {}

IInv ==
  /\ TypeOK
  /\ OnlySent
  /\ OnlyArrived
  /\ OpenSlices
  /\ OneAnswer
  /\ OrderKept
  /\ BufferIsChecked

\* Whatever the network does and whoever closes, data with a bounded number of
\* resends is answered in the end.
EveryGroupAnswered ==
  \A g \in Groups : ResendCount[g] # -1 => (g \in pending ~> succ[g] + fail[g] > 0)

\* A missing group holds up the groups after it only for a while.
BufferDrains == \A g \in Groups : g \in buffer ~> g \notin buffer
=============================================================================
