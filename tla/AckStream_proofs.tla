-------------------------- MODULE AckStream_proofs --------------------------
(***************************************************************************)
(* Proofs about AckStream for any number of groups, any number of slices   *)
(* of each, any resend counts and whoever loses the connection.            *)
(***************************************************************************)
EXTENDS AckStream, TLAPS

\* A packet belongs to exactly one group, and no group is empty.
LEMMA PacketFacts ==
  /\ \A g \in Groups : PacketsOf(g) \subseteq Packets /\ PacketsOf(g) # {}
  /\ \A g \in Groups : \A p \in PacketsOf(g) : p[1] = g
  /\ \A p \in Packets : p[1] \in Groups /\ p \in PacketsOf(p[1])
<1>1. ASSUME NEW g \in Groups PROVE PacketsOf(g) # {}
  <2>1. <<g, 0>> \in PacketsOf(g)
    BY SizeAssumption DEF PacketsOf
  <2> QED BY <2>1
<1>2. \A g \in Groups : PacketsOf(g) \subseteq Packets
  BY DEF Packets
<1>3. \A g \in Groups : \A p \in PacketsOf(g) : p[1] = g
  BY DEF PacketsOf
<1>4. \A p \in Packets : \E g \in Groups : p \in PacketsOf(g)
  BY DEF Packets
<1> QED BY <1>1, <1>2, <1>3, <1>4

LEMMA InitInv == Init => IInv
<1> SUFFICES ASSUME Init PROVE IInv
  OBVIOUS
<1>1. TypeOK
  BY GroupsAssumption DEF Init, TypeOK, Groups
<1>2. OnlySent /\ OnlyArrived /\ OpenSlices /\ OneAnswer /\ OrderKept /\ BufferIsChecked
  BY DEF Init, OnlySent, OnlyArrived, OpenSlices, OneAnswer, OrderKept,
         BufferIsChecked, Groups
<1> QED BY <1>1, <1>2 DEF IInv

LEMMA NextType == TypeOK /\ [Next]_vars => TypeOK'
<1> SUFFICES ASSUME TypeOK, [Next]_vars PROVE TypeOK'
  OBVIOUS
<1> USE GroupsAssumption, ResendAssumption, PacketFacts
    DEF TypeOK, sender, network, receiver, seen
<1>1. CASE SendRTData
  BY <1>1 DEF SendRTData, Groups
<1>2. ASSUME NEW g \in Groups, BuildAckStreamPacket(g) PROVE TypeOK'
  BY <1>2 DEF BuildAckStreamPacket
<1>3. ASSUME NEW g \in Groups, RefuseRTData(g) PROVE TypeOK'
  BY <1>3 DEF RefuseRTData
<1>4. ASSUME NEW p \in Packets, SendPacket(p) PROVE TypeOK'
  BY <1>4 DEF SendPacket
<1>5. ASSUME NEW p \in Packets, GiveUp(p) PROVE TypeOK'
  BY <1>5 DEF GiveUp
<1>6. ASSUME NEW p \in Packets, StopResend(p) PROVE TypeOK'
  BY <1>6 DEF StopResend
<1>7. ASSUME NEW p \in Packets, Resend(p) PROVE TypeOK'
  BY <1>7 DEF Resend
<1>8. ASSUME NEW p \in Packets, ReceivePacket(p) PROVE TypeOK'
  <2>1. part' \in [Groups -> SUBSET Packets]
    BY <1>8 DEF ReceivePacket, Callback
  <2>2. last' \in Groups \union {-1} /\ buffer' \subseteq Groups /\ late' \subseteq buffer'
    BY <1>8 DEF ReceivePacket, Callback
  <2>3. checks' \in Nat /\ delivered' \in [Groups -> Nat]
    BY <1>8 DEF ReceivePacket, Callback
  <2>4. acks' \subseteq SUBSET Packets /\ batch' \subseteq Packets /\ arrived' \subseteq Packets
    BY <1>8 DEF ReceivePacket, Acknowledge
  <2> QED BY <1>8, <2>1, <2>2, <2>3, <2>4 DEF ReceivePacket
<1>9. ASSUME NEW A \in acks, HandleAck(A) PROVE TypeOK'
  BY <1>9 DEF HandleAck
<1>10. CASE LoseConnection
  BY <1>10 DEF LoseConnection
<1>11. ASSUME NEW g \in Groups, DeleteAckGroup(g) PROVE TypeOK'
  BY <1>11 DEF DeleteAckGroup
<1>12. ASSUME NEW g \in Groups, WaitTooLong(g) PROVE TypeOK'
  BY <1>12 DEF WaitTooLong
<1>13. CASE CheckCallbackBuffer
  BY <1>13 DEF CheckCallbackBuffer, Released, Blocked
<1>14. CASE SendBatchAck
  BY <1>14 DEF SendBatchAck
<1>15. CASE LoseReceiver
  BY <1>15 DEF LoseReceiver
<1>16. CASE UNCHANGED vars
  BY <1>16 DEF vars
<1> QED
  BY <1>1, <1>2, <1>3, <1>4, <1>5, <1>6, <1>7, <1>8, <1>9, <1>10, <1>11, <1>12,
     <1>13, <1>14, <1>15, <1>16 DEF Next

\* Data is received only after it was sent, and sent only after sendRTData.
LEMMA NextSent == TypeOK /\ OneAnswer /\ OnlySent /\ [Next]_vars => OnlySent'
<1> SUFFICES ASSUME TypeOK, OneAnswer, OnlySent, [Next]_vars PROVE OnlySent'
  OBVIOUS
<1> USE GroupsAssumption, PacketFacts DEF TypeOK, OnlySent, Groups, sender, network, receiver, seen
<1>1. CASE SendRTData
  BY <1>1 DEF SendRTData
<1>2. ASSUME NEW g \in Groups, BuildAckStreamPacket(g) PROVE OnlySent'
  <2>1. g < nextGroup
    BY <1>2 DEF BuildAckStreamPacket, OneAnswer
  <2> QED BY <1>2, <2>1 DEF BuildAckStreamPacket
<1>3. ASSUME NEW p \in Packets,
             SendPacket(p) \/ GiveUp(p) \/ StopResend(p) \/ Resend(p) \/ ReceivePacket(p)
      PROVE OnlySent'
  <2>1. CASE SendPacket(p)
    BY <2>1 DEF SendPacket
  <2>2. CASE GiveUp(p)
    BY <2>2 DEF GiveUp
  <2>3. CASE StopResend(p)
    BY <2>3 DEF StopResend
  <2>4. CASE Resend(p)
    BY <2>4 DEF Resend
  <2>5. CASE ReceivePacket(p)
    BY <2>5 DEF ReceivePacket
  <2> QED BY <1>3, <2>1, <2>2, <2>3, <2>4, <2>5
<1>4. CASE UNCHANGED <<where, nextGroup, net, arrived>>
  BY <1>4
<1>5. ASSUME NEW g \in Groups, RefuseRTData(g) \/ DeleteAckGroup(g) \/ WaitTooLong(g)
      PROVE UNCHANGED <<where, nextGroup, net, arrived>>
  BY <1>5 DEF RefuseRTData, DeleteAckGroup, WaitTooLong
<1>6. ASSUME NEW A \in acks, HandleAck(A)
      PROVE UNCHANGED <<where, nextGroup, net, arrived>>
  BY <1>6 DEF HandleAck
<1>7. ASSUME \/ LoseConnection \/ CheckCallbackBuffer \/ SendBatchAck \/ LoseReceiver
             \/ UNCHANGED vars
      PROVE UNCHANGED <<where, nextGroup, net, arrived>>
  BY <1>7 DEF LoseConnection, CheckCallbackBuffer, SendBatchAck, LoseReceiver, vars
<1> QED BY <1>1, <1>2, <1>3, <1>4, <1>5, <1>6, <1>7 DEF Next

\* Nothing is acknowledged, collected or completed that has not arrived.
LEMMA NextArrived == TypeOK /\ OnlyArrived /\ [Next]_vars => OnlyArrived'
<1> SUFFICES ASSUME TypeOK, OnlyArrived, [Next]_vars PROVE OnlyArrived'
  OBVIOUS
<1> USE PacketFacts DEF TypeOK, OnlyArrived, Complete, sender, network, receiver, seen
<1>1. ASSUME NEW p \in Packets, ReceivePacket(p) PROVE OnlyArrived'
  <2> DEFINE g == p[1]
  <2>1. arrived' = arrived \union {p} /\ ackedSlices' = ackedSlices
    BY <1>1 DEF ReceivePacket
  <2>2. (\A A \in acks' : A \subseteq arrived') /\ batch' \subseteq arrived'
    BY <1>1, <2>1 DEF ReceivePacket, Acknowledge
  <2>3. \A h \in Groups : part'[h] \subseteq arrived'
    BY <1>1, <2>1 DEF ReceivePacket
  <2>4. buffer' = buffer \/ (buffer' = buffer \union {g} /\ PacketsOf(g) \subseteq arrived')
    BY <1>1, <2>1 DEF ReceivePacket, Callback
  <2> QED BY <2>1, <2>2, <2>3, <2>4
<1>2. ASSUME NEW A \in acks, HandleAck(A) PROVE OnlyArrived'
  BY <1>2 DEF HandleAck
<1>3. ASSUME NEW g \in Groups, DeleteAckGroup(g) PROVE OnlyArrived'
  BY <1>3 DEF DeleteAckGroup
<1>4. CASE CheckCallbackBuffer
  BY <1>4 DEF CheckCallbackBuffer, Blocked
<1>5. CASE SendBatchAck
  BY <1>5 DEF SendBatchAck
<1>6. CASE LoseReceiver
  BY <1>6 DEF LoseReceiver
<1>7. ASSUME NEW p \in Packets, GiveUp(p) PROVE OnlyArrived'
  BY <1>7 DEF GiveUp
<1>8. CASE UNCHANGED <<acks, batch, ackedSlices, part, buffer, arrived>>
  BY <1>8
<1>9. ASSUME NEW g \in Groups, BuildAckStreamPacket(g) \/ RefuseRTData(g) \/ WaitTooLong(g)
      PROVE UNCHANGED <<acks, batch, ackedSlices, part, buffer, arrived>>
  BY <1>9 DEF BuildAckStreamPacket, RefuseRTData, WaitTooLong
<1>10. ASSUME NEW p \in Packets, SendPacket(p) \/ StopResend(p) \/ Resend(p)
       PROVE UNCHANGED <<acks, batch, ackedSlices, part, buffer, arrived>>
  BY <1>10 DEF SendPacket, StopResend, Resend
<1>11. ASSUME SendRTData \/ LoseConnection \/ UNCHANGED vars
       PROVE UNCHANGED <<acks, batch, ackedSlices, part, buffer, arrived>>
  BY <1>11 DEF SendRTData, LoseConnection, vars
<1> QED
  BY <1>1, <1>2, <1>3, <1>4, <1>5, <1>6, <1>7, <1>8, <1>9, <1>10, <1>11 DEF Next

\* A group that waits for its result keeps a slice that will settle it.
LEMMA NextOpen == TypeOK /\ OneAnswer /\ OpenSlices /\ [Next]_vars => OpenSlices'
<1> SUFFICES ASSUME TypeOK, OneAnswer, OpenSlices, [Next]_vars PROVE OpenSlices'
  OBVIOUS
<1> USE PacketFacts DEF TypeOK, OpenSlices, sender, network, receiver, seen
<1>1. ASSUME NEW g \in Groups, BuildAckStreamPacket(g) PROVE OpenSlices'
  <2>1. g \notin sendCb
    BY <1>1 DEF BuildAckStreamPacket, OneAnswer
  <2>2. ackedSlices' = ackedSlices /\ sendCb' = sendCb \union {g}
    BY <1>1 DEF BuildAckStreamPacket
  <2>3. PacketsOf(g) \ ackedSlices = PacketsOf(g)
    BY <2>1
  <2>4. \A p \in PacketsOf(g) : p \in info' /\ where'[p] = "queue" /\ recvAck'[p] = "no"
    BY <1>1 DEF BuildAckStreamPacket
  <2>5. \A h \in sendCb : \A p \in PacketsOf(h) \ ackedSlices :
          p \in info' /\ where'[p] \in {"queue", "timer"} /\ recvAck'[p] = "no"
    BY <1>1, <2>1 DEF BuildAckStreamPacket
  <2> QED BY <2>2, <2>3, <2>4, <2>5
<1>2. ASSUME NEW p \in Packets, SendPacket(p) PROVE OpenSlices'
  BY <1>2 DEF SendPacket
<1>3. ASSUME NEW p \in Packets, GiveUp(p) PROVE OpenSlices'
  <2>1. CASE p \in info /\ p[1] \in sendCb
    BY <1>3, <2>1 DEF GiveUp
  <2>2. CASE ~(p \in info /\ p[1] \in sendCb)
    BY <1>3, <2>2 DEF GiveUp
  <2> QED BY <2>1, <2>2
<1>4. ASSUME NEW p \in Packets, StopResend(p) PROVE OpenSlices'
  BY <1>4 DEF StopResend
<1>5. ASSUME NEW p \in Packets, Resend(p) PROVE OpenSlices'
  BY <1>5 DEF Resend
<1>6. ASSUME NEW A \in acks, HandleAck(A) PROVE OpenSlices'
  <2>1. A \subseteq Packets /\ sendCb' = sendCb \ Completed(A)
    BY <1>6 DEF HandleAck
  <2>2. \A p \in ackedSlices' : p[1] \in sendCb'
    BY <1>6, <2>1 DEF HandleAck
  <2>3. ASSUME NEW g \in sendCb' PROVE PacketsOf(g) \ ackedSlices' # {}
    <3>1. g \in sendCb /\ g \notin Completed(A)
      BY <2>1, <2>3
    <3>2. PacketsOf(g) \ (ackedSlices \union (A \intersect info)) # {}
      BY <3>1 DEF Completed
    <3> QED BY <1>6, <3>2 DEF HandleAck
  <2>4. ASSUME NEW g \in sendCb', NEW p \in PacketsOf(g) \ ackedSlices'
        PROVE p \in info' /\ where'[p] \in {"queue", "timer"} /\ recvAck'[p] = "no"
    <3>1. g \in sendCb /\ p \in Packets /\ p[1] = g
      BY <2>1, <2>4
    <3>2. p \notin ackedSlices /\ ~(p \in A /\ p \in info)
      BY <1>6, <2>1, <2>4, <3>1 DEF HandleAck
    <3>3. p \in info /\ where[p] \in {"queue", "timer"} /\ recvAck[p] = "no"
      BY <3>1, <3>2
    <3> QED BY <1>6, <3>1, <3>2, <3>3 DEF HandleAck
  <2> QED BY <2>2, <2>3, <2>4
<1>7. CASE UNCHANGED <<sendCb, ackedSlices, info, where, recvAck>>
  BY <1>7
<1>8. ASSUME NEW g \in Groups, RefuseRTData(g) \/ DeleteAckGroup(g) \/ WaitTooLong(g)
      PROVE UNCHANGED <<sendCb, ackedSlices, info, where, recvAck>>
  BY <1>8 DEF RefuseRTData, DeleteAckGroup, WaitTooLong
<1>9. ASSUME NEW p \in Packets, ReceivePacket(p)
      PROVE UNCHANGED <<sendCb, ackedSlices, info, where, recvAck>>
  BY <1>9 DEF ReceivePacket
<1>10. ASSUME \/ SendRTData \/ LoseConnection \/ CheckCallbackBuffer \/ SendBatchAck
              \/ LoseReceiver \/ UNCHANGED vars
       PROVE UNCHANGED <<sendCb, ackedSlices, info, where, recvAck>>
  BY <1>10 DEF SendRTData, LoseConnection, CheckCallbackBuffer, SendBatchAck,
               LoseReceiver, vars
<1> QED
  BY <1>1, <1>2, <1>3, <1>4, <1>5, <1>6, <1>7, <1>8, <1>9, <1>10 DEF Next

\* Every group that was sent is answered once, and only when it leaves the maps.
LEMMA NextAnswer == TypeOK /\ OneAnswer /\ [Next]_vars => OneAnswer'
<1> SUFFICES ASSUME TypeOK, OneAnswer, [Next]_vars PROVE OneAnswer'
  OBVIOUS
<1> USE GroupsAssumption, PacketFacts
    DEF TypeOK, OneAnswer, Groups, sender, network, receiver, seen
<1>1. CASE SendRTData
  BY <1>1, SMTT(30) DEF SendRTData
<1>2. ASSUME NEW g \in Groups, BuildAckStreamPacket(g) PROVE OneAnswer'
  BY <1>2 DEF BuildAckStreamPacket
<1>3. ASSUME NEW g \in Groups, RefuseRTData(g) PROVE OneAnswer'
  BY <1>3 DEF RefuseRTData
<1>4. ASSUME NEW p \in Packets, GiveUp(p) PROVE OneAnswer'
  <2>1. ASSUME NEW g \in Groups, g = p[1], p \in info, g \in sendCb PROVE OneAnswer'
    <3>1. /\ sendCb' = sendCb \ {g}
          /\ fail' = [fail EXCEPT ![g] = @ + 1]
          /\ UNCHANGED <<nextGroup, pending, succ>>
      BY <1>4, <2>1 DEF GiveUp
    <3>2. g < nextGroup /\ g \notin pending /\ succ[g] + fail[g] = 0
      BY <2>1
    <3> QED BY <2>1, <3>1, <3>2, SMTT(30)
  <2>2. CASE ~(p \in info /\ p[1] \in sendCb)
    BY <1>4, <2>2 DEF GiveUp
  <2> QED BY <2>1, <2>2, p[1] \in Groups
<1>5. ASSUME NEW A \in acks, HandleAck(A) PROVE OneAnswer'
  BY <1>5 DEF HandleAck, Completed
<1>6. CASE UNCHANGED <<nextGroup, pending, sendCb, succ, fail>>
  BY <1>6
<1>7. ASSUME NEW p \in Packets,
             SendPacket(p) \/ StopResend(p) \/ Resend(p) \/ ReceivePacket(p)
      PROVE UNCHANGED <<nextGroup, pending, sendCb, succ, fail>>
  BY <1>7 DEF SendPacket, StopResend, Resend, ReceivePacket
<1>8. ASSUME NEW g \in Groups, DeleteAckGroup(g) \/ WaitTooLong(g)
      PROVE UNCHANGED <<nextGroup, pending, sendCb, succ, fail>>
  BY <1>8 DEF DeleteAckGroup, WaitTooLong
<1>9. ASSUME \/ LoseConnection \/ CheckCallbackBuffer \/ SendBatchAck \/ LoseReceiver
             \/ UNCHANGED vars
      PROVE UNCHANGED <<nextGroup, pending, sendCb, succ, fail>>
  BY <1>9 DEF LoseConnection, CheckCallbackBuffer, SendBatchAck, LoseReceiver, vars
<1> QED BY <1>1, <1>2, <1>3, <1>4, <1>5, <1>6, <1>7, <1>8, <1>9 DEF Next

\* What is handed over is never ahead of last, and data in the buffer has a timer.
LEMMA NextOrder ==
  TypeOK /\ OrderKept /\ BufferIsChecked /\ [Next]_vars => OrderKept' /\ BufferIsChecked'
<1> SUFFICES ASSUME TypeOK, OrderKept, BufferIsChecked, [Next]_vars
             PROVE  OrderKept' /\ BufferIsChecked'
  OBVIOUS
<1> USE GroupsAssumption, PacketFacts
    DEF TypeOK, OrderKept, BufferIsChecked, Groups, sender, network, receiver, seen
<1>1. ASSUME NEW p \in Packets, ReceivePacket(p) PROVE OrderKept' /\ BufferIsChecked'
  <2>1. rOpen /\ rOpen' /\ p[1] \in Groups
    BY <1>1 DEF ReceivePacket
  <2>2. CASE UNCHANGED <<last, buffer, checks, delivered>>
    BY <2>1, <2>2
  <2>3. CASE last < p[1] /\ Callback(p[1])
    <3>1. CASE p[1] = last + 1
      BY <2>1, <2>3, <3>1, SMTT(30) DEF Callback
    <3>2. CASE p[1] # last + 1
      BY <2>1, <2>3, <3>2 DEF Callback
    <3> QED BY <3>1, <3>2
  <2> QED BY <1>1, <2>2, <2>3 DEF ReceivePacket
<1>2. CASE CheckCallbackBuffer
  <2>1. BufferIsChecked'
    BY <1>2 DEF CheckCallbackBuffer
  <2>2. rOpen' = rOpen /\ (~rOpen' => buffer' = {})
    BY <1>2 DEF CheckCallbackBuffer, Blocked
  <2>3. \A g \in Groups : delivered'[g] > 0 => g \in Released \/ delivered[g] > 0
    BY <1>2 DEF CheckCallbackBuffer
  <2>4. CASE Released = {} /\ last' = last
    BY <2>1, <2>2, <2>3, <2>4
  <2>5. ASSUME NEW m \in Released, \A g \in Released : g <= m, last' = m
        PROVE OrderKept'
    <3>1. m \in Groups /\ m > last
      BY DEF Released
    <3> QED BY <2>2, <2>3, <2>5, <3>1
  <2>6. OrderKept'
    BY <1>2, <2>4, <2>5 DEF CheckCallbackBuffer
  <2> QED BY <2>1, <2>6
<1>3. CASE LoseReceiver
  BY <1>3 DEF LoseReceiver
<1>4. CASE UNCHANGED <<rOpen, last, buffer, checks, delivered>>
  BY <1>4
<1>5. ASSUME NEW p \in Packets, SendPacket(p) \/ GiveUp(p) \/ StopResend(p) \/ Resend(p)
      PROVE UNCHANGED <<rOpen, last, buffer, checks, delivered>>
  BY <1>5 DEF SendPacket, GiveUp, StopResend, Resend
<1>6. ASSUME NEW g \in Groups, \/ BuildAckStreamPacket(g) \/ RefuseRTData(g)
                               \/ DeleteAckGroup(g) \/ WaitTooLong(g)
      PROVE UNCHANGED <<rOpen, last, buffer, checks, delivered>>
  BY <1>6 DEF BuildAckStreamPacket, RefuseRTData, DeleteAckGroup, WaitTooLong
<1>7. ASSUME NEW A \in acks, HandleAck(A)
      PROVE UNCHANGED <<rOpen, last, buffer, checks, delivered>>
  BY <1>7 DEF HandleAck
<1>8. ASSUME SendRTData \/ LoseConnection \/ SendBatchAck \/ UNCHANGED vars
      PROVE UNCHANGED <<rOpen, last, buffer, checks, delivered>>
  BY <1>8 DEF SendRTData, LoseConnection, SendBatchAck, vars
<1> QED BY <1>1, <1>2, <1>3, <1>4, <1>5, <1>6, <1>7, <1>8 DEF Next

\* IInv is an inductive invariant of the stream.
THEOREM InductiveInvariant == Spec => []IInv
<1>1. Init => IInv
  BY InitInv
<1>2. IInv /\ [Next]_vars => IInv'
  BY NextType, NextSent, NextArrived, NextOpen, NextAnswer, NextOrder DEF IInv
<1> QED BY <1>1, <1>2, PTL DEF Spec

\* The maps of both ends hold what their types say.
THEOREM TypeCorrect == Spec => []TypeOK
<1>1. IInv => TypeOK
  BY DEF IInv
<1> QED BY <1>1, InductiveInvariant, PTL

\* Data that waits for its turn is always looked after: CallbackAckStreamData
\* and CheckCallbackBuffer never leave a filled buffer without a timer.
THEOREM BufferIsAlwaysChecked == Spec => []BufferIsChecked
<1>1. IInv => BufferIsChecked
  BY DEF IInv
<1> QED BY <1>1, InductiveInvariant, PTL

\* No group that sendRTData accepted is lost between the worker queue, the
\* callback maps, the resend timers and the acknowledgements, and none is
\* answered twice.
THEOREM NoGroupIsLost == Spec => []EveryGroupIsOwned
<1>1. IInv => EveryGroupIsOwned
  <2> SUFFICES ASSUME IInv PROVE EveryGroupIsOwned
    OBVIOUS
  <2>1. ASSUME NEW g \in sendCb
        PROVE \E p \in PacketsOf(g) : p \in info /\ where[p] \in {"queue", "timer"}
    BY DEF IInv, OpenSlices
  <2> QED BY <2>1, GroupsAssumption DEF IInv, TypeOK, OneAnswer, EveryGroupIsOwned, Groups
<1> QED BY <1>1, InductiveInvariant, PTL

\* Every step of the two ends is a step of StreamDelivery, or none of its
\* business.
LEMMA StepImplements ==
  IInv /\ IInv' /\ [Next]_vars => [Delivery!Next]_(Delivery!vars)
<1> SUFFICES ASSUME IInv, IInv', [Next]_vars
             PROVE  Delivery!Next \/ UNCHANGED Delivery!vars
  OBVIOUS
<1> USE PacketFacts DEF sender, network, receiver, seen
<1>groups. Delivery!Groups = Groups
  BY DEF Delivery!Groups, Groups
<1>types. TypeOK /\ TypeOK'
  BY DEF IInv
<1>1. CASE SendRTData
  <2>1. Delivery!Send
    BY <1>1, <1>types DEF SendRTData, Delivery!Send, Complete
  <2> QED BY <2>1 DEF Delivery!Next
<1>2. ASSUME NEW g \in Groups, RefuseRTData(g)
      PROVE  Delivery!Next
  <2>1. Delivery!Fail(g)
    BY <1>2, <1>types DEF RefuseRTData, Delivery!Fail, Delivery!Unanswered, Complete,
                          IInv, OneAnswer, TypeOK, Groups
  <2> QED BY <2>1, <1>groups DEF Delivery!Next
<1>3. ASSUME NEW p \in Packets, GiveUp(p)
      PROVE  Delivery!Next \/ UNCHANGED Delivery!vars
  <2>1. CASE p \in info /\ p[1] \in sendCb
    <3> DEFINE g == p[1]
    <3>1. g \in Groups /\ g < nextGroup /\ succ[g] + fail[g] = 0
      BY <2>1, <1>types, GroupsAssumption DEF IInv, OneAnswer, TypeOK, Groups
    <3>2. fail' = [fail EXCEPT ![g] = @ + 1] /\ UNCHANGED <<nextGroup, arrived, delivered, succ>>
      BY <1>3, <2>1 DEF GiveUp
    <3>3. Delivery!Fail(g)
      BY <3>1, <3>2, <1>types DEF Delivery!Fail, Delivery!Unanswered, Complete, TypeOK
    <3> QED BY <3>1, <3>3, <1>groups DEF Delivery!Next
  <2>2. CASE ~(p \in info /\ p[1] \in sendCb)
    BY <1>3, <2>2 DEF GiveUp, Delivery!vars, Complete
  <2> QED BY <2>1, <2>2
<1>4. ASSUME NEW A \in acks, HandleAck(A)
      PROVE  Delivery!Next
  <2>1. Completed(A) \subseteq Complete /\ Completed(A) \subseteq Groups
    BY <1>types DEF Completed, Complete, IInv, OnlyArrived, TypeOK
  <2>2. \A g \in Completed(A) : succ[g] = 0 /\ fail[g] = 0
    BY <2>1, <1>types DEF Completed, IInv, OneAnswer, TypeOK
  <2>3. /\ succ' = [g \in Groups |-> IF g \in Completed(A) THEN succ[g] + 1 ELSE succ[g]]
        /\ UNCHANGED <<nextGroup, arrived, delivered, fail>>
    BY <1>4 DEF HandleAck
  <2>4. Delivery!Succeed(Completed(A))
    BY <2>1, <2>2, <2>3, <1>groups DEF Delivery!Succeed, Delivery!Unanswered, Complete
  <2> QED BY <2>1, <2>4, <1>groups DEF Delivery!Next
<1>sent. Complete' \subseteq 0 .. nextGroup' - 1
  <2> SUFFICES ASSUME NEW g \in Complete' PROVE g \in 0 .. nextGroup' - 1
    OBVIOUS
  <2>1. g \in Groups /\ PacketsOf(g) \subseteq arrived'
    BY DEF Complete
  <2>2. PICK p \in PacketsOf(g) : p \in Packets /\ p[1] = g
    BY <2>1
  <2>3. p \in net'
    BY <2>1, <2>2 DEF IInv, OnlySent
  <2>4. g < nextGroup'
    BY <2>2, <2>3 DEF IInv, OnlySent
  <2>5. nextGroup' \in Nat
    BY <1>types, GroupsAssumption DEF TypeOK
  <2>6. g \in Nat
    BY <2>1, GroupsAssumption DEF Groups
  <2>7. \A a, b \in Nat : a < b => a \in 0 .. b - 1
    OBVIOUS
  <2> QED BY <2>4, <2>5, <2>6, <2>7
<1>5. ASSUME NEW p \in Packets, ReceivePacket(p)
      PROVE  Delivery!Next
  <2>1. UNCHANGED <<nextGroup, succ, fail>> /\ arrived' = arrived \union {p} /\ rOpen
    BY <1>5 DEF ReceivePacket
  <2>2. Complete' = Complete \union Complete'
    BY <2>1 DEF Complete
  <2>3. CASE delivered' = delivered
    <3>1. Delivery!Deliver(Complete', {})
      BY <2>1, <2>2, <2>3, <1>sent, <1>types, <1>groups DEF Delivery!Deliver, TypeOK
    <3> QED BY <3>1, <1>groups DEF Delivery!Next, Complete
  <2>4. CASE delivered' # delivered
    <3> DEFINE g == p[1]
    <3>1. /\ last < g
          /\ delivered' = [delivered EXCEPT ![g] = @ + 1]
          /\ PacketsOf(g) = part[g] \union {p}
      BY <1>5, <2>4 DEF ReceivePacket, Callback
    <3>2. g \in Complete'
      BY <2>1, <3>1 DEF Complete, IInv, OnlyArrived
    <3>3. \A h \in Groups : delivered[h] > 0 => h < g
      BY <2>1, <3>1, <1>types, GroupsAssumption DEF IInv, OrderKept, TypeOK, Groups
    <3>4. delivered' = [h \in Groups |-> IF h \in {g} THEN delivered[h] + 1 ELSE delivered[h]]
      BY <3>1, <1>types DEF TypeOK
    <3>5. Delivery!Deliver(Complete', {g})
      BY <2>1, <2>2, <3>2, <3>3, <3>4, <1>sent, <1>groups DEF Delivery!Deliver
    <3> QED BY <3>5, <1>groups DEF Delivery!Next, Complete
  <2> QED BY <2>3, <2>4
<1>6. CASE CheckCallbackBuffer
  <2>1. /\ UNCHANGED <<nextGroup, succ, fail, arrived>>
        /\ delivered' = [g \in Groups |-> IF g \in Released THEN delivered[g] + 1 ELSE delivered[g]]
    BY <1>6 DEF CheckCallbackBuffer
  <2>2. Released \subseteq Complete /\ Complete' = Complete
    BY <2>1 DEF Released, Complete, IInv, OnlyArrived
  <2>3. \A d \in Released, g \in Groups : delivered[g] > 0 => g < d
    BY <1>types, GroupsAssumption, SMTT(30) DEF Released, IInv, OrderKept, TypeOK, Groups
  <2>4. Delivery!Deliver(Complete', Released)
    BY <2>1, <2>2, <2>3, <1>sent, <1>groups DEF Delivery!Deliver
  <2> QED BY <2>2, <2>4, <1>groups DEF Delivery!Next, Complete
<1>7. CASE UNCHANGED <<nextGroup, arrived, delivered, succ, fail>>
  BY <1>7 DEF Delivery!vars, Complete
<1>8. ASSUME NEW g \in Groups,
             BuildAckStreamPacket(g) \/ DeleteAckGroup(g) \/ WaitTooLong(g)
      PROVE UNCHANGED <<nextGroup, arrived, delivered, succ, fail>>
  BY <1>8 DEF BuildAckStreamPacket, DeleteAckGroup, WaitTooLong
<1>9. ASSUME NEW p \in Packets, SendPacket(p) \/ StopResend(p) \/ Resend(p)
      PROVE UNCHANGED <<nextGroup, arrived, delivered, succ, fail>>
  BY <1>9 DEF SendPacket, StopResend, Resend
<1>10. ASSUME LoseConnection \/ SendBatchAck \/ LoseReceiver \/ UNCHANGED vars
       PROVE UNCHANGED <<nextGroup, arrived, delivered, succ, fail>>
  BY <1>10 DEF LoseConnection, SendBatchAck, LoseReceiver, vars
<1> QED
  BY <1>1, <1>2, <1>3, <1>4, <1>5, <1>6, <1>7, <1>8, <1>9, <1>10 DEF Next

\* The stream implements StreamDelivery: groups come in order, once and whole,
\* and a success means that the peer has the group.
THEOREM Implementation == Spec => ImplementsDelivery
<1>1. Init => Delivery!Init
  BY PacketFacts DEF Init, Delivery!Init, Delivery!Groups, Groups, Complete
<1>2. IInv /\ IInv' /\ [Next]_vars => [Delivery!Next]_(Delivery!vars)
  BY StepImplements
<1> QED BY <1>1, <1>2, InductiveInvariant, PTL DEF Spec, ImplementsDelivery, Delivery!Spec

\* What StreamDelivery promises follows from its steps.
LEMMA DeliveryPromises == Delivery!Spec => []Delivery!Promised
<1> USE GroupsAssumption DEF Delivery!Groups, Delivery!Promised
<1>1. Delivery!Init => Delivery!Inv
  BY DEF Delivery!Init, Delivery!Inv
<1>2. Delivery!Inv /\ [Delivery!Next]_(Delivery!vars) => Delivery!Inv'
  <2> SUFFICES ASSUME Delivery!Inv, [Delivery!Next]_(Delivery!vars) PROVE Delivery!Inv'
    OBVIOUS
  <2> USE DEF Delivery!Inv
  <2>1. CASE Delivery!Send
    BY <2>1 DEF Delivery!Send
  <2>2. ASSUME NEW A \in SUBSET Delivery!Groups, NEW D \in SUBSET Delivery!Groups,
               Delivery!Deliver(A, D)
        PROVE  Delivery!Inv'
    <3>1. \A d \in D : delivered[d] = 0
      BY <2>2 DEF Delivery!Deliver
    <3> QED BY <2>2, <3>1, SMTT(30) DEF Delivery!Deliver
  <2>3. ASSUME NEW S \in SUBSET Delivery!Groups, Delivery!Succeed(S) PROVE Delivery!Inv'
    BY <2>3 DEF Delivery!Succeed, Delivery!Unanswered
  <2>4. ASSUME NEW g \in Delivery!Groups, Delivery!Fail(g) PROVE Delivery!Inv'
    <3>1. /\ nextGroup' = nextGroup /\ Complete' = Complete
          /\ delivered' = delivered /\ succ' = succ
      BY <2>4 DEF Delivery!Fail
    <3>2. g < nextGroup /\ succ[g] = 0 /\ fail[g] = 0
      BY <2>4 DEF Delivery!Fail, Delivery!Unanswered
    <3>3. fail' = [fail EXCEPT ![g] = 1]
      BY <2>4, <3>2 DEF Delivery!Fail
    <3>4. fail' \in [Delivery!Groups -> Nat]
      BY <3>3
    <3>5. \A h \in Delivery!Groups : fail'[h] = IF h = g THEN 1 ELSE fail[h]
      BY <3>3
    <3> HIDE DEF Delivery!Groups
    <3> QED BY <3>1, <3>2, <3>4, <3>5
  <2>5. CASE UNCHANGED Delivery!vars
    BY <2>5 DEF Delivery!vars
  <2> QED BY <2>1, <2>2, <2>3, <2>4, <2>5 DEF Delivery!Next
<1>3. Delivery!Inv => Delivery!Promised
  BY DEF Delivery!Inv
<1> QED BY <1>1, <1>2, <1>3, PTL DEF Delivery!Spec

\* Whatever the network does: no group is handed over twice or in part, a group
\* has at most one answer, and a success means that the peer has all of it.
THEOREM PromisesHold == Spec => []Delivery!Promised
  BY Implementation, DeliveryPromises, PTL DEF ImplementsDelivery
=============================================================================
