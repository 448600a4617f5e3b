----------------------------- MODULE ImReceive -----------------------------
(***************************************************************************)
(* How stored messages reach the application: the server keeps them in a   *)
(* sequence until the client acknowledges, and pushes what is not yet      *)
(* acknowledged as a COMPOUND packet; the receive thread hands the messages*)
(* to the application, whose handlers may refuse them, and queues either a *)
(* SEQUENCE_ACK or a PULL for the send thread.                             *)
(*                                                                         *)
(* The server is external: it pushes when a message is stored, when it is  *)
(* asked to and when the user is bound; it pushes everything that has no   *)
(* acknowledgement, or, beyond Limit messages, the notification that there *)
(* is too much.  A sequence number stands for its message.                 *)
(***************************************************************************)
EXTENDS Naturals, Sequences

CONSTANTS
  NumMessages, \* how many messages are stored for the user
  Kind,        \* what each message is: "p2p", "p2t", or "other": skipped
  Limit,       \* the server's count limit
  MayRefuse,   \* "p2p", "p2t", "pull": the handlers that may return false
  MaxPackets   \* bound on compounds and answers that are on the way

Messages == 1 .. NumMessages

ASSUME NumAssumption == NumMessages \in Nat
ASSUME KindAssumption == Kind \in [Messages -> {"p2p", "p2t", "other"}]
ASSUME LimitAssumption == Limit \in Nat
ASSUME MaxPacketsAssumption == MaxPackets \in Nat

VARIABLES
  link,                      \* "down", "connected" (not bound), "online"
  stored,                    \* the server has stored 1 .. stored,
  dropped,                   \* and forgotten 1 .. dropped
  due,                       \* the server has a reason to push
  down,                      \* compounds on the connection
  packetsWaitToSend,         \* answers: a number is a SEQUENCE_ACK, 0 a PULL
  isSerialPullNotification,
  sequencesReceived,
  accepted,                  \* messages whose handler returned true
  repeated,                  \* of these, those that were handed over once more
  told,                      \* messages the application is to fetch itself
  declined                   \* messages whose notification it refused

server == <<stored, dropped, due>>
client == <<isSerialPullNotification, sequencesReceived>>
application == <<accepted, repeated, told, declined>>
vars == <<link, server, down, packetsWaitToSend, client, application>>

\* What a compound holds: messages after + 1 .. max, or a notification of them.
Compounds == [exceeds : BOOLEAN, after : 0 .. NumMessages, max : 0 .. NumMessages]
Pull == 0

Init ==
  /\ link = "down"
  /\ stored = 0
  /\ dropped = 0
  /\ due = FALSE
  /\ down = <<>>
  /\ packetsWaitToSend = <<>>
  /\ isSerialPullNotification = FALSE
  /\ sequencesReceived = {}
  /\ accepted = {}
  /\ repeated = {}
  /\ told = {}
  /\ declined = {}
-----------------------------------------------------------------------------
(* The server and the connection.                                          *)

\* Someone sends the user a message.
Store ==
  /\ stored < NumMessages
  /\ stored' = stored + 1
  /\ due' = TRUE
  /\ UNCHANGED <<link, dropped, down, packetsWaitToSend, client, application>>

\* The server pushes what it keeps.
ServerPush ==
  /\ due
  /\ link = "online"
  /\ Len(down) + Len(packetsWaitToSend) < MaxPackets
  /\ due' = FALSE
  /\ down' = IF stored = dropped THEN down
             ELSE Append(down, [exceeds |-> stored - dropped > Limit,
                                after |-> dropped, max |-> stored])
  /\ UNCHANGED <<link, stored, dropped, packetsWaitToSend, client, application>>

Connect ==
  /\ link = "down"
  /\ link' = "connected"
  /\ UNCHANGED <<server, down, packetsWaitToSend, client, application>>

\* BIND: the server pushes what it keeps; KICK.
Bind ==
  /\ \/ link = "connected" /\ link' = "online" /\ due' = TRUE
     \/ link = "online" /\ link' = "connected" /\ UNCHANGED due
  /\ UNCHANGED <<stored, dropped, down, packetsWaitToSend, client, application>>

\* resetSock: only the packet that the receive thread already holds survives.
Disconnect ==
  /\ link # "down"
  /\ link' = "down"
  /\ down' \in {<<>>} \union (IF down = <<>> THEN {} ELSE {<<Head(down)>>})
  /\ UNCHANGED <<server, packetsWaitToSend, client, application>>

\* The send thread writes one answer.  A write that fails resets the socket;
\* before the user is bound the server ignores it.
SendPacket ==
  /\ link # "down"
  /\ packetsWaitToSend # <<>>
  /\ packetsWaitToSend' = Tail(packetsWaitToSend)
  /\ \/ /\ link = "connected"
        /\ UNCHANGED <<link, dropped, due, down>>
     \/ /\ link = "online"
        /\ link' = "down"
        /\ down' = <<>>
        /\ UNCHANGED <<dropped, due>>
     \/ /\ link = "online"
        /\ Head(packetsWaitToSend) = Pull
        /\ due' = TRUE
        /\ UNCHANGED <<link, dropped, down>>
     \/ /\ link = "online"
        /\ Head(packetsWaitToSend) # Pull
        /\ dropped' = IF Head(packetsWaitToSend) > dropped
                      THEN Head(packetsWaitToSend) ELSE dropped
        /\ UNCHANGED <<link, due, down>>
  /\ UNCHANGED <<stored, client, application>>
-----------------------------------------------------------------------------
(* The receive thread: COMPOUND.                                           *)

\* Mutant of sendCompoundSequenceAck: the next sequence is acknowledged.
sendCompoundSequenceAckNext(c) == Append(packetsWaitToSend, c.max + 1)
sendCompoundSequenceAck(c) == Append(packetsWaitToSend, c.max)

\* Mutant of pull: nothing is asked for.
pullNothing == packetsWaitToSend

\* pull() does nothing for a user who is offline.
pull == IF link = "online" THEN Append(packetsWaitToSend, Pull) ELSE packetsWaitToSend

\* addCompoundSequenceAndCleanOld: the parameter has the name of the member,
\* so the sequences are inserted into the map they come from.  The member stays
\* empty, and checkReceiveMessageSequence has nothing to clean.
Remembered(sequences) == {}

\* STATUS_EXCEED_COUNT_LIMIT: the application is told once in a row; a
\* notification it refuses is neither acknowledged nor asked for again.
HandleExceeded ==
  /\ down # <<>>
  /\ Head(down).exceeds
  /\ down' = Tail(down)
  /\ \/ /\ ~isSerialPullNotification
        /\ "pull" \in MayRefuse
        /\ declined' = declined \union (Head(down).after + 1 .. Head(down).max)
        /\ UNCHANGED <<packetsWaitToSend, isSerialPullNotification, told>>
     \/ /\ packetsWaitToSend' = sendCompoundSequenceAck(Head(down))
        /\ isSerialPullNotification' = TRUE
        /\ told' = told \union (Head(down).after + 1 .. Head(down).max)
        /\ UNCHANGED declined
  /\ UNCHANGED <<link, server, sequencesReceived, accepted, repeated>>

\* The messages of a compound that are handed to one handler.
Batch(c, kind) ==
  {s \in c.after + 1 .. c.max : s \notin sequencesReceived /\ Kind[s] = kind}

\* A handler is called with its messages, if there are any, and answers ok.
MayAnswer(c, kind, ok) == ~ok => kind \in MayRefuse /\ Batch(c, kind) # {}
Taken(c, kind, ok) == IF ok THEN Batch(c, kind) ELSE {}

\* Mutant of isSendCompoundSequenceAck: only the last handler's answer counts.
isSendCompoundSequenceAckLast(p2pOk, p2tOk) == p2tOk
isSendCompoundSequenceAck(p2pOk, p2tOk) == p2pOk /\ p2tOk

\* STATUS_NORMAL: both handlers are called; one refusal asks for everything
\* again, what the other handler accepted included.
HandleNormal(p2pOk, p2tOk) ==
  /\ down # <<>>
  /\ LET c == Head(down)
         taken == Taken(c, "p2p", p2pOk) \union Taken(c, "p2t", p2tOk)
         handed == Batch(c, "p2p") \union Batch(c, "p2t")
     IN /\ ~c.exceeds
        /\ MayAnswer(c, "p2p", p2pOk)
        /\ MayAnswer(c, "p2t", p2tOk)
        /\ accepted' = accepted \union taken
        /\ repeated' = repeated \union (accepted \intersect handed)
        /\ sequencesReceived' = sequencesReceived \union Remembered(taken)
        /\ packetsWaitToSend' = IF isSendCompoundSequenceAck(p2pOk, p2tOk)
                                 THEN sendCompoundSequenceAck(c) ELSE pull
  /\ down' = Tail(down)
  /\ isSerialPullNotification' = FALSE
  /\ UNCHANGED <<link, server, told, declined>>
-----------------------------------------------------------------------------
Next ==
  \/ Store
  \/ ServerPush
  \/ Connect
  \/ Bind
  \/ Disconnect
  \/ SendPacket
  \/ HandleExceeded
  \/ \E p2pOk, p2tOk \in BOOLEAN : HandleNormal(p2pOk, p2tOk)

Spec == Init /\ [][Next]_vars

\* The send and receive threads and the server run, and the application does
\* not refuse for ever.
Fairness ==
  /\ WF_vars(ServerPush)
  /\ WF_vars(SendPacket)
  /\ WF_vars(HandleExceeded \/ \E p2pOk, p2tOk \in BOOLEAN : HandleNormal(p2pOk, p2tOk))
  /\ SF_vars(HandleNormal(TRUE, TRUE))

FairSpec == Spec /\ Fairness
-----------------------------------------------------------------------------
\* The values of the variables.
TypeOK ==
  /\ link \in {"down", "connected", "online"}
  /\ stored \in 0 .. NumMessages
  /\ dropped \in 0 .. NumMessages
  /\ due \in BOOLEAN
  /\ down \in Seq(Compounds)
  /\ packetsWaitToSend \in Seq(0 .. NumMessages)
  /\ isSerialPullNotification \in BOOLEAN
  /\ sequencesReceived \subseteq Messages
  /\ accepted \subseteq Messages
  /\ repeated \subseteq accepted
  /\ told \subseteq Messages
  /\ declined \subseteq Messages

\* Messages that are settled: accepted by a handler, left to the application
\* to fetch, or not meant for it.
Settled == accepted \union told \union {s \in Messages : Kind[s] = "other"}

\* The server is only ever allowed to forget messages that are settled, however
\* refusals, repeated compounds and lost answers interleave: an acknowledgement
\* stands for everything before it.
ForgottenIsSettled ==
  /\ 1 .. dropped \subseteq Settled
  /\ \A i \in 1 .. Len(packetsWaitToSend) : 1 .. packetsWaitToSend[i] \subseteq Settled

\* On a connection that stays, every stored message is settled in the end: what
\* a handler refused, or what was lost with the last connection, comes again.
\* Only a notification that the application refuses is not repeated.
EveryMessageSettled ==
  <>[](link = "online") =>
    \A s \in Messages : stored >= s ~> s \in Settled \union declined

\* A message the application accepted is not handed to it again.
DeliveredOnce == repeated = {}

\* The parts of the inductive invariant.
\* A compound begins where everything before it is settled.
CompoundsFollow ==
  \A i \in 1 .. Len(down) : 1 .. down[i].after \subseteq Settled

\* What is passed over as received before was accepted.
ReceivedIsAccepted == sequencesReceived \subseteq accepted

IInv == TypeOK /\ ForgottenIsSettled /\ CompoundsFollow /\ ReceivedIsAccepted
-----------------------------------------------------------------------------
(* ImReceive implements StoredDelivery.                                    *)

Delivery == INSTANCE StoredDelivery WITH
              Skipped   <- {s \in Messages : Kind[s] = "other"},
              forgotten <- dropped

\* Whatever is lost, refused or repeated: messages are handed over from the
\* front, at most Limit ahead of what is settled; longer stretches are announced;
\* and the server forgets from the front, and only what it has stored.
ImplementsDelivery == Delivery!Spec

\* What the refinement needs beside IInv: no packet speaks of messages that are
\* not stored, and a compound is a batch or an announcement as the limit says.
SaysTrue(c) ==
  /\ c.after <= c.max /\ c.max <= stored
  /\ c.exceeds <=> c.max - c.after > Limit

NothingAhead ==
  /\ dropped <= stored
  /\ \A i \in 1 .. Len(packetsWaitToSend) : packetsWaitToSend[i] <= stored
  /\ \A i \in 1 .. Len(down) : SaysTrue(down[i])

DeliveryInv == IInv /\ NothingAhead
=============================================================================
