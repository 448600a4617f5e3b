------------------------------- MODULE ImSend -------------------------------
(***************************************************************************)
(* How instant messages leave the client: sendMessage and sendGroupMessage *)
(* in the application's threads, the send thread that empties              *)
(* packetsWaitToSend, the receive thread that handles PACKET_ACK, and the  *)
(* check thread that reports messages without an answer.                   *)
(*                                                                         *)
(* packetsWaitToTimeout and groupPacketWaitToTimeout are std::maps which   *)
(* the receive and check threads change under packetsTimeoutMutex and the  *)
(* application's threads without it.  Where an insert meets another access *)
(* to its map, an entry may be lost or missed; such entries are in raced,  *)
(* and the properties promise nothing about them.                          *)
(***************************************************************************)
EXTENDS Naturals, Sequences

CONSTANTS
  P2P,       \* messages the application sends with sendMessage
  Group,     \* messages it sends with sendGroupMessage
  NoMessage

Messages == P2P \union Group

ASSUME KindsAssumption == P2P \intersect Group = {}
ASSUME NoMessageAssumption == NoMessage \notin Messages

VARIABLES
  link,              \* "down", "connected" (not bound), "online"
  stage,             \* how far the call that sends a message has come
  crossed,           \* messages whose insert another access to the map has met
  raced,             \* messages whose entry was lost or missed
  packetsWaitToSend,
  waiting,           \* both maps of messages without an answer
  old,               \* messages sent SEND_TIMEOUT ago or earlier
  wire,              \* packets on the connection
  acks,              \* PACKET_ACKs on the connection
  acking,            \* the message whose answer the receive thread handles
  expired,           \* the check thread's packetsWaitToDelete, in the mutex
  acked,             \* calls of handleServerAck
  settled,           \* of these, those whose handling is complete
  timedOut           \* calls of handleSendMsgTimeout

connection == <<link, wire, acks>>
reports == <<acked, settled, timedOut>>
vars == <<connection, stage, crossed, raced, packetsWaitToSend, waiting, old,
          acking, expired, reports>>

Init ==
  /\ link = "down"
  /\ stage = [m \in Messages |-> "idle"]
  /\ crossed = {}
  /\ raced = {}
  /\ packetsWaitToSend = <<>>
  /\ waiting = {}
  /\ old = {}
  /\ wire = {}
  /\ acks = {}
  /\ acking = NoMessage
  /\ expired = {}
  /\ acked = {}
  /\ settled = {}
  /\ timedOut = {}

\* The map that holds m.
MapOf(m) == IF m \in P2P THEN P2P ELSE Group
\* Calls that are inside the insert into the map of m.
Inserting(m) == {n \in MapOf(m) : stage[n] = "inserting"}
-----------------------------------------------------------------------------
(* The application's threads.                                              *)

\* sendMessage, sendGroupMessage: refused unless online; the packet takes its
\* time stamp and the unlocked insert begins.
Send(m) ==
  /\ stage[m] = "idle"
  /\ link = "online"
  /\ stage' = [stage EXCEPT ![m] = "inserting"]
  /\ UNCHANGED <<connection, crossed, raced, packetsWaitToSend, waiting, old,
                 acking, expired, reports>>

\* The insert ends; if it met another access, entries of the map may be lost.
Insert(m) ==
  /\ stage[m] = "inserting"
  /\ stage' = [stage EXCEPT ![m] = "inserted"]
  /\ \E lost \in SUBSET ((waiting \intersect MapOf(m)) \union {m}) :
       /\ m \in crossed \/ lost = {}
       /\ waiting' = (waiting \union {m}) \ lost
       /\ raced' = raced \union lost
  /\ crossed' = (crossed \union Inserting(m)) \ {m}
  /\ UNCHANGED <<connection, packetsWaitToSend, old, acking, expired, reports>>

\* Mutant of Push: the message is queued before it is in the map.
PushEarly(m) ==
  /\ stage[m] = "inserted" \/ (stage[m] = "inserting" /\ Len(packetsWaitToSend) < 2)
  /\ stage' = [stage EXCEPT ![m] = IF @ = "inserted" THEN "pushed" ELSE @]
  /\ packetsWaitToSend' = Append(packetsWaitToSend, m)
  /\ UNCHANGED <<connection, crossed, raced, waiting, old, acking, expired, reports>>

\* The packet is queued for the send thread, and the call returns its id.
Push(m) ==
  /\ stage[m] = "inserted"
  /\ stage' = [stage EXCEPT ![m] = "pushed"]
  /\ packetsWaitToSend' = Append(packetsWaitToSend, m)
  /\ UNCHANGED <<connection, crossed, raced, waiting, old, acking, expired, reports>>

\* Twenty seconds pass.
Age(m) ==
  /\ stage[m] # "idle"
  /\ old' = old \union {m}
  /\ UNCHANGED <<connection, stage, crossed, raced, packetsWaitToSend, waiting,
                 acking, expired, reports>>
-----------------------------------------------------------------------------
(* The connection and the server.                                          *)

\* resetSock: what is on the way is lost; the queue stays.
Disconnect ==
  /\ link # "down"
  /\ link' = "down"
  /\ wire' = {}
  /\ acks' = {}
  /\ UNCHANGED <<stage, crossed, raced, packetsWaitToSend, waiting, old, acking,
                 expired, reports>>

\* The handshake.
Connect ==
  /\ link = "down"
  /\ link' = "connected"
  /\ UNCHANGED <<wire, acks, stage, crossed, raced, packetsWaitToSend, waiting, old,
                 acking, expired, reports>>

\* BIND and KICK: the user goes online, or offline on a working connection.
Bind ==
  /\ link # "down"
  /\ link' \in {"connected", "online"}
  /\ UNCHANGED <<wire, acks, stage, crossed, raced, packetsWaitToSend, waiting, old,
                 acking, expired, reports>>

\* Mutant of SendPacket: a packet stays queued until a write succeeds, and what
\* a failed write has put on the connection is written again.
SendPacketAgain ==
  /\ link # "down"
  /\ packetsWaitToSend # <<>>
  /\ packetsWaitToSend' \in {packetsWaitToSend, Tail(packetsWaitToSend)}
  /\ wire' = wire \union {Head(packetsWaitToSend)}
  /\ UNCHANGED <<link, acks, stage, crossed, raced, waiting, old, acking,
                 expired, reports>>

\* The send thread pops one packet and writes it once; while the user is not
\* bound the server has no use for it, and a failed write does not keep it.
SendPacket ==
  /\ link # "down"
  /\ packetsWaitToSend # <<>>
  /\ packetsWaitToSend' = Tail(packetsWaitToSend)
  /\ wire' \in {wire, wire \union {Head(packetsWaitToSend)}}
  /\ UNCHANGED <<link, acks, stage, crossed, raced, waiting, old, acking,
                 expired, reports>>

\* The server answers a packet.
ServerAck(m) ==
  /\ m \in wire
  /\ wire' = wire \ {m}
  /\ acks' = acks \union {m}
  /\ UNCHANGED <<link, stage, crossed, raced, packetsWaitToSend, waiting, old, acking,
                 expired, reports>>
-----------------------------------------------------------------------------
(* The receive thread: PACKET_ACK.                                         *)

\* The application is told first, whatever the maps hold.
HandleServerAck(m) ==
  /\ acking = NoMessage
  /\ m \in acks
  /\ acks' = acks \ {m}
  /\ acking' = m
  /\ acked' = acked \union {m}
  /\ UNCHANGED <<link, wire, stage, crossed, raced, packetsWaitToSend, waiting, old,
                 expired, settled, timedOut>>

\* Mutant of EraseAcked: the answered message stays in its map.
EraseAckedNot(m) ==
  /\ acking = m
  /\ expired = {}
  /\ acking' = NoMessage
  /\ settled' = settled \union {m}
  /\ UNCHANGED <<connection, stage, crossed, raced, packetsWaitToSend, waiting, old,
                 expired, acked, timedOut>>

\* Then the entry goes, under the mutex.
EraseAcked(m) ==
  /\ acking = m
  /\ expired = {}
  /\ acking' = NoMessage
  /\ settled' = settled \union {m}
  /\ crossed' = IF m \in waiting THEN crossed \union Inserting(m) ELSE crossed
  /\ \/ /\ waiting' = waiting \ {m}
        /\ UNCHANGED raced
     \/ /\ Inserting(m) # {}
        /\ raced' = raced \union {m}
        /\ UNCHANGED waiting
  /\ UNCHANGED <<connection, stage, packetsWaitToSend, old, expired, acked, timedOut>>
-----------------------------------------------------------------------------
(* The check thread: checkMessageSendTimeout.                              *)

\* Mutant of Due: only what has left the queue.
DueSent ==
  {m \in waiting \intersect P2P \intersect old :
     \A i \in 1 .. Len(packetsWaitToSend) : packetsWaitToSend[i] # m}

\* Only packetsWaitToTimeout is scanned.
Due == waiting \intersect P2P \intersect old

\* In the mutex, every expired message of packetsWaitToTimeout is reported.
ReportTimeouts ==
  /\ expired = {}
  /\ Due # {}
  /\ expired' = Due
  /\ timedOut' = timedOut \union Due
  /\ UNCHANGED <<connection, stage, crossed, raced, packetsWaitToSend, waiting, old,
                 acking, acked, settled>>

\* Then they are erased.
EraseTimeouts ==
  /\ expired # {}
  /\ \E missed \in SUBSET expired :
       /\ missed # {} => \E n \in P2P : stage[n] = "inserting"
       /\ waiting' = waiting \ (expired \ missed)
       /\ raced' = raced \union missed
  /\ expired' = {}
  /\ crossed' = crossed \union {n \in P2P : stage[n] = "inserting"}
  /\ UNCHANGED <<connection, stage, packetsWaitToSend, old, acking, reports>>
-----------------------------------------------------------------------------
Next ==
  \/ \E m \in Messages : Send(m) \/ Insert(m) \/ Push(m) \/ Age(m)
  \/ Disconnect
  \/ Connect
  \/ Bind
  \/ SendPacket
  \/ \E m \in Messages : ServerAck(m) \/ HandleServerAck(m) \/ EraseAcked(m)
  \/ ReportTimeouts
  \/ EraseTimeouts

Spec == Init /\ [][Next]_vars

\* Time passes, a call of sendMessage returns and the check thread runs.
\* Nothing is asked of the connection or the server.
Fairness ==
  /\ \A m \in Messages : WF_vars(Insert(m)) /\ WF_vars(Push(m)) /\ WF_vars(Age(m))
  /\ WF_vars(ReportTimeouts)
  /\ WF_vars(EraseTimeouts)

FairSpec == Spec /\ Fairness
-----------------------------------------------------------------------------
\* The values of the variables.
TypeOK ==
  /\ link \in {"down", "connected", "online"}
  /\ stage \in [Messages -> {"idle", "inserting", "inserted", "pushed"}]
  /\ crossed \subseteq Messages
  /\ raced \subseteq Messages
  /\ packetsWaitToSend \in Seq(Messages)
  /\ waiting \subseteq Messages
  /\ old \subseteq Messages
  /\ wire \subseteq Messages
  /\ acks \subseteq Messages
  /\ acking \in Messages \union {NoMessage}
  /\ expired \subseteq P2P
  /\ acked \subseteq Messages
  /\ settled \subseteq acked
  /\ timedOut \subseteq P2P

\* A message that may already have reached the server is timed until its
\* acknowledgement has been handled or its timeout reported, and no longer:
\* neither an early answer nor a scan at any moment loses or keeps its entry.
WaitsUntilAnswered ==
  \A m \in Messages \ raced :
    stage[m] \in {"inserted", "pushed"} =>
      (m \in waiting <=> m \notin settled /\ (m \in timedOut => m \in expired))

\* Once the handling of its acknowledgement is complete, or its timeout was
\* reported, a message's timeout is never reported (again).
NoLateTimeout ==
  [][\A m \in expired' \ raced :
       m \notin expired => m \notin settled /\ m \notin timedOut]_vars

\* Every sendMessage is answered, even if the connection never comes back.
P2PAnswered ==
  \A m \in P2P : stage[m] = "pushed" ~> m \in acked \union timedOut \union raced

\* The parts of the inductive invariant.
\* What travels, is timed or was answered has been inserted before.
Queued(m) == \E i \in 1 .. Len(packetsWaitToSend) : packetsWaitToSend[i] = m
Known == wire \union acks \union acked \union timedOut \union waiting
KnownIsInserted ==
  \A m \in Messages :
    m \in Known \/ Queued(m) => stage[m] \in {"inserted", "pushed"}

\* Whatever is being erased has been reported, by one thread or the other.
ReportedFirst == expired \subseteq timedOut /\ acking \in acked \union {NoMessage}

IInv == TypeOK /\ KnownIsInserted /\ ReportedFirst /\ WaitsUntilAnswered

-----------------------------------------------------------------------------
(* ImSend implements MessageLife for every message.                        *)

Place(m) == IF stage[m] = "idle" THEN "new"
            ELSE IF stage[m] # "pushed" THEN "taken"
            ELSE IF Queued(m) THEN "queued" ELSE "left"

Answer(m) == IF m \in settled THEN "settled"
             ELSE IF m \in acked THEN "told"
             ELSE IF m \in wire \union acks THEN "due" ELSE "none"

Life(m) == INSTANCE MessageLife WITH
             Timed  <- m \in P2P,
             place  <- Place(m),
             answer <- Answer(m),
             late   <- m \in timedOut,
             raced  <- m \in raced

\* Each message lives as MessageLife promises: whatever the order of the three
\* kinds of threads and however often the connection breaks, it leaves once, its
\* acknowledgement is reported once, and its timeout once and not afterwards.
ImplementsLife ==
  /\ \A m \in Messages : Life(m)!Init
  /\ [][\A m \in Messages : [Life(m)!Next]_(Life(m)!vars)]_vars

\* What the refinement needs beside IInv: a message is in one place at a time.
InOnePlace(m) ==
  /\ Queued(m) => m \notin wire \union acks \union acked
  /\ m \in acks \union acked => m \notin wire
  /\ m \in acked => m \notin acks
  /\ Queued(m) \/ m \in wire \union acks \union acked => stage[m] = "pushed"

SentOnce ==
  /\ \A i, j \in 1 .. Len(packetsWaitToSend) :
       packetsWaitToSend[i] = packetsWaitToSend[j] => i = j
  /\ \A m \in Messages : InOnePlace(m)
  /\ acking \notin settled

LifeInv == IInv /\ SentOnce
=============================================================================
