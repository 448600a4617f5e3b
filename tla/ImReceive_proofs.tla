-------------------------- MODULE ImReceive_proofs --------------------------
(***************************************************************************)
(* Proofs about ImReceive for any messages, any limit, any refusals and    *)
(* any behaviour of the connection.                                        *)
(***************************************************************************)
EXTENDS ImReceive, TLAPS

LEMMA InitInv == Init => IInv
<1> SUFFICES ASSUME Init PROVE IInv
  OBVIOUS
<1> USE NumAssumption DEF Init
<1>1. due \in BOOLEAN /\ isSerialPullNotification \in BOOLEAN
  OBVIOUS
<1>2. TypeOK
  BY <1>1 DEF TypeOK
<1>3. ForgottenIsSettled /\ CompoundsFollow /\ ReceivedIsAccepted
  BY DEF ForgottenIsSettled, CompoundsFollow, ReceivedIsAccepted
<1> QED BY <1>2, <1>3 DEF IInv

\* The two flags keep their type.
LEMMA NextFlags ==
  TypeOK /\ [Next]_vars => due' \in BOOLEAN /\ isSerialPullNotification' \in BOOLEAN
  BY DEF TypeOK, Next, Store, ServerPush, Connect, Bind, Disconnect, SendPacket,
         HandleExceeded, HandleNormal, server, client, vars

\* What the connection carries.
LEMMA HeadType ==
  ASSUME TypeOK, down # <<>>
  PROVE  Head(down).after \in 0 .. NumMessages /\ Head(down).max \in 0 .. NumMessages
<1>1. Head(down) \in Compounds
  BY DEF TypeOK
<1> QED BY <1>1 DEF Compounds

\* An answer is put at the end of the queue.
LEMMA AnswerType ==
  ASSUME TypeOK, down # <<>>
  PROVE  /\ sendCompoundSequenceAck(Head(down)) \in Seq(0 .. NumMessages)
         /\ pull \in Seq(0 .. NumMessages)
<1>1. \A k \in 0 .. NumMessages : Append(packetsWaitToSend, k) \in Seq(0 .. NumMessages)
  BY DEF TypeOK
<1>2. packetsWaitToSend \in Seq(0 .. NumMessages)
  BY DEF TypeOK
<1>3. Head(down).max \in 0 .. NumMessages /\ 0 \in 0 .. NumMessages
  BY HeadType, NumAssumption
<1> QED BY <1>1, <1>2, <1>3 DEF sendCompoundSequenceAck, pull, Pull

LEMMA NextType == TypeOK /\ [Next]_vars => TypeOK'
<1> SUFFICES ASSUME TypeOK, [Next]_vars PROVE TypeOK'
  OBVIOUS
<1>0. due' \in BOOLEAN /\ isSerialPullNotification' \in BOOLEAN
  BY NextFlags
<1> USE <1>0, NumAssumption DEF TypeOK, server, client, application
<1>1. CASE Store
  BY <1>1 DEF Store
<1>2. CASE ServerPush
  <2>1. [exceeds |-> stored - dropped > Limit, after |-> dropped, max |-> stored] \in Compounds
    BY DEF Compounds
  <2>2. down' \in Seq(Compounds)
    BY <1>2, <2>1 DEF ServerPush
  <2> QED BY <1>2, <2>2 DEF ServerPush
<1>3. CASE Connect
  BY <1>3 DEF Connect
<1>4. CASE Bind
  BY <1>4 DEF Bind
<1>5. CASE Disconnect
  <2>1. CASE down = <<>>
    BY <1>5, <2>1 DEF Disconnect
  <2>2. CASE down # <<>>
    <3>1. Head(down) \in Compounds
      BY <2>2
    <3>2. <<>> \in Seq(Compounds) /\ <<Head(down)>> \in Seq(Compounds)
      BY <3>1
    <3>3. down' \in {<<>>, <<Head(down)>>}
      BY <1>5, <2>2 DEF Disconnect
    <3>4. down' \in Seq(Compounds)
      BY <3>2, <3>3
    <3> QED BY <1>5, <3>4 DEF Disconnect
  <2> QED BY <2>1, <2>2
<1>6. CASE SendPacket
  <2>1. packetsWaitToSend' \in Seq(0 .. NumMessages) /\ dropped' \in 0 .. NumMessages
    BY <1>6 DEF SendPacket
  <2>2. down' \in {down, <<>>}
    BY <1>6 DEF SendPacket
  <2>3. <<>> \in Seq(Compounds) /\ down \in Seq(Compounds)
    OBVIOUS
  <2>4. down' \in Seq(Compounds)
    BY <2>2, <2>3
  <2>5. link' \in {"down", "connected", "online"}
    BY <1>6 DEF SendPacket
  <2> QED BY <1>6, <2>1, <2>4, <2>5 DEF SendPacket
<1>7. CASE HandleExceeded
  <2>1. packetsWaitToSend' \in Seq(0 .. NumMessages)
    BY <1>7, AnswerType DEF HandleExceeded
  <2>2. down' \in Seq(Compounds)
    <3>1. down # <<>> /\ down' = Tail(down)
      BY <1>7 DEF HandleExceeded
    <3> QED BY <3>1
  <2>3. \A s \in Head(down).after + 1 .. Head(down).max : s \in Messages
    BY <1>7, HeadType DEF HandleExceeded, Messages
  <2>4. told' \subseteq Messages /\ declined' \subseteq Messages
    BY <1>7, <2>3 DEF HandleExceeded
  <2> QED BY <1>7, <2>1, <2>2, <2>4 DEF HandleExceeded
<1>8. ASSUME NEW p2pOk \in BOOLEAN, NEW p2tOk \in BOOLEAN, HandleNormal(p2pOk, p2tOk)
      PROVE TypeOK'
  <2>1. packetsWaitToSend' \in Seq(0 .. NumMessages)
    BY <1>8, AnswerType DEF HandleNormal
  <2>2. down' \in Seq(Compounds)
    BY <1>8 DEF HandleNormal
  <2>3. \A s \in Head(down).after + 1 .. Head(down).max : s \in Messages
    BY <1>8, HeadType DEF HandleNormal, Messages
  <2>4. \A kind, ok : Taken(Head(down), kind, ok) \subseteq Messages
    BY <2>3 DEF Taken, Batch
  <2>5. accepted' \subseteq Messages /\ repeated' \subseteq accepted'
    BY <1>8, <2>4 DEF HandleNormal
  <2>6. sequencesReceived' \subseteq Messages
    BY <1>8 DEF HandleNormal, Remembered
  <2> QED BY <1>8, <2>1, <2>2, <2>5, <2>6 DEF HandleNormal
<1>9. CASE UNCHANGED vars
  BY <1>9 DEF vars
<1> QED BY <1>1, <1>2, <1>3, <1>4, <1>5, <1>6, <1>7, <1>8, <1>9 DEF Next

\* What is settled stays settled.
LEMMA SettledGrows == [Next]_vars => Settled \subseteq Settled'
<1> SUFFICES ASSUME [Next]_vars PROVE accepted \subseteq accepted' /\ told \subseteq told'
  BY DEF Settled
<1> QED
  BY DEF Next, Store, ServerPush, Connect, Bind, Disconnect, SendPacket, HandleExceeded,
         HandleNormal, application, vars

\* A compound whose messages were all accepted settles everything up to its end.
LEMMA CompoundSettles ==
  ASSUME IInv, NEW p2pOk \in BOOLEAN, NEW p2tOk \in BOOLEAN,
         HandleNormal(p2pOk, p2tOk), isSendCompoundSequenceAck(p2pOk, p2tOk)
  PROVE  1 .. Head(down).max \subseteq Settled'
<1> USE DEF IInv, TypeOK
<1> DEFINE c == Head(down)
<1>1. c.after \in 0 .. NumMessages /\ c.max \in 0 .. NumMessages /\ down # <<>>
  BY HeadType DEF HandleNormal
<1>2. 1 .. c.after \subseteq Settled
  BY <1>1 DEF CompoundsFollow
<1>3. 1 .. c.after \subseteq Settled'
  BY <1>2, SettledGrows DEF Next
<1>4. Settled \subseteq Settled'
  BY SettledGrows DEF Next
<1>5. ASSUME NEW s \in c.after + 1 .. c.max PROVE s \in Settled'
  <2>1. s \in Messages
    BY <1>1, <1>5, NumAssumption DEF Messages
  <2>2. Kind[s] \in {"p2p", "p2t", "other"}
    BY <2>1, KindAssumption
  <2>3. CASE s \in sequencesReceived
    BY <2>3, SettledGrows DEF ReceivedIsAccepted, Settled, Next
  <2>4. CASE Kind[s] = "other"
    BY <2>1, <2>4 DEF Settled
  <2>5. CASE s \notin sequencesReceived /\ Kind[s] \in {"p2p", "p2t"}
    <3>1. s \in Taken(c, "p2p", p2pOk) \union Taken(c, "p2t", p2tOk)
      BY <1>5, <2>5 DEF Taken, Batch, isSendCompoundSequenceAck
    <3> QED BY <3>1 DEF HandleNormal, Settled
  <2> QED BY <2>2, <2>3, <2>4, <2>5
<1> QED BY <1>1, <1>3, <1>5, NumAssumption

LEMMA NextForgotten == IInv /\ [Next]_vars => ForgottenIsSettled'
<1> SUFFICES ASSUME IInv, [Next]_vars PROVE ForgottenIsSettled'
  OBVIOUS
<1> USE NumAssumption, SettledGrows
    DEF IInv, TypeOK, ForgottenIsSettled, server, client, application
<1>1. CASE SendPacket
  <2>1. packetsWaitToSend # <<>>
    BY <1>1 DEF SendPacket
  <2>2. 1 \in 1 .. Len(packetsWaitToSend) /\ Head(packetsWaitToSend) = packetsWaitToSend[1]
    BY <2>1
  <2>3. 1 .. Head(packetsWaitToSend) \subseteq Settled
    BY <2>2
  <2>4. 1 .. dropped' \subseteq Settled
    BY <1>1, <2>3 DEF SendPacket
  <2>5. \A i \in 1 .. Len(packetsWaitToSend') :
          packetsWaitToSend'[i] = packetsWaitToSend[i + 1] /\ i + 1 \in 1 .. Len(packetsWaitToSend)
    BY <1>1 DEF SendPacket
  <2> QED BY <2>4, <2>5
<1>2. ASSUME NEW k \in 0 .. NumMessages, 1 .. k \subseteq Settled', UNCHANGED dropped,
             packetsWaitToSend' = Append(packetsWaitToSend, k)
      PROVE ForgottenIsSettled'
  <2>1. \A i \in 1 .. Len(packetsWaitToSend') :
          \/ i \in 1 .. Len(packetsWaitToSend) /\ packetsWaitToSend'[i] = packetsWaitToSend[i]
          \/ packetsWaitToSend'[i] = k
    BY <1>2
  <2> QED BY <1>2, <2>1
<1>3. CASE UNCHANGED <<dropped, packetsWaitToSend>>
  BY <1>3
<1>4. CASE HandleExceeded
  <2>1. CASE packetsWaitToSend' = sendCompoundSequenceAck(Head(down))
             /\ told' = told \union (Head(down).after + 1 .. Head(down).max)
    <3>1. Head(down).after \in 0 .. NumMessages /\ Head(down).max \in 0 .. NumMessages
      BY <1>4, HeadType DEF HandleExceeded
    <3>2. 1 .. Head(down).after \subseteq Settled
      BY <1>4 DEF HandleExceeded, CompoundsFollow
    <3>3. 1 .. Head(down).max \subseteq Settled'
      BY <2>1, <3>1, <3>2 DEF Settled
    <3> QED BY <1>2, <1>4, <2>1, <3>1, <3>3 DEF HandleExceeded, sendCompoundSequenceAck
  <2> QED BY <1>3, <1>4, <2>1 DEF HandleExceeded
<1>5. ASSUME NEW p2pOk \in BOOLEAN, NEW p2tOk \in BOOLEAN, HandleNormal(p2pOk, p2tOk)
      PROVE ForgottenIsSettled'
  <2>1. CASE isSendCompoundSequenceAck(p2pOk, p2tOk)
    <3>1. 1 .. Head(down).max \subseteq Settled'
      BY <1>5, <2>1, CompoundSettles
    <3>2. Head(down).max \in 0 .. NumMessages
      BY <1>5, HeadType DEF HandleNormal
    <3>3. packetsWaitToSend' = Append(packetsWaitToSend, Head(down).max)
      BY <1>5, <2>1 DEF HandleNormal, sendCompoundSequenceAck
    <3> QED BY <1>2, <1>5, <3>1, <3>2, <3>3 DEF HandleNormal
  <2>2. CASE ~isSendCompoundSequenceAck(p2pOk, p2tOk)
    <3>1. packetsWaitToSend' \in {packetsWaitToSend, Append(packetsWaitToSend, Pull)}
      BY <1>5, <2>2 DEF HandleNormal, pull
    <3> QED BY <1>2, <1>3, <1>5, <3>1 DEF HandleNormal, Pull
  <2> QED BY <2>1, <2>2
<1>6. ASSUME Store \/ ServerPush \/ Connect \/ Bind \/ Disconnect \/ UNCHANGED vars
      PROVE UNCHANGED <<dropped, packetsWaitToSend>>
  BY <1>6 DEF Store, ServerPush, Connect, Bind, Disconnect, vars
<1> QED BY <1>1, <1>3, <1>4, <1>5, <1>6 DEF Next

\* The server pushes what follows its acknowledgements.
LEMMA NextFollow == IInv /\ [Next]_vars => CompoundsFollow'
<1> SUFFICES ASSUME IInv, [Next]_vars PROVE CompoundsFollow'
  OBVIOUS
<1> USE SettledGrows DEF IInv, TypeOK, CompoundsFollow, server, client, application
<1>1. CASE ServerPush
  <2>1. CASE UNCHANGED down
    BY <2>1
  <2>2. CASE stored # dropped
    <3> DEFINE c == [exceeds |-> stored - dropped > Limit, after |-> dropped, max |-> stored]
    <3>1. down' = Append(down, c) /\ c.after = dropped
      BY <1>1, <2>2 DEF ServerPush
    <3> HIDE DEF c
    <3>2. \A i \in 1 .. Len(down') :
            \/ i \in 1 .. Len(down) /\ down'[i] = down[i]
            \/ down'[i] = c
      BY <3>1
    <3> QED BY <3>1, <3>2 DEF ForgottenIsSettled
  <2> QED BY <1>1, <2>1, <2>2 DEF ServerPush
<1>2. CASE down' = <<>>
  BY <1>2
<1>3. CASE down # <<>> /\ down' = <<Head(down)>>
  BY <1>3
<1>4. CASE down # <<>> /\ down' = Tail(down)
  <2>1. \A i \in 1 .. Len(down') : down'[i] = down[i + 1] /\ i + 1 \in 1 .. Len(down)
    BY <1>4
  <2> QED BY <2>1
<1>5. CASE UNCHANGED down
  BY <1>5
<1>6. CASE Disconnect
  BY <1>2, <1>3, <1>6 DEF Disconnect
<1>7. CASE SendPacket
  BY <1>2, <1>5, <1>7 DEF SendPacket
<1>8. CASE HandleExceeded
  BY <1>4, <1>8 DEF HandleExceeded
<1>9. ASSUME NEW p2pOk \in BOOLEAN, NEW p2tOk \in BOOLEAN, HandleNormal(p2pOk, p2tOk)
      PROVE CompoundsFollow'
  BY <1>4, <1>9 DEF HandleNormal
<1>10. ASSUME Store \/ Connect \/ Bind \/ UNCHANGED vars PROVE UNCHANGED down
  BY <1>10 DEF Store, Connect, Bind, vars
<1> QED BY <1>1, <1>5, <1>6, <1>7, <1>8, <1>9, <1>10 DEF Next

LEMMA NextReceived == ReceivedIsAccepted /\ [Next]_vars => ReceivedIsAccepted'
  BY DEF ReceivedIsAccepted, Next, Store, ServerPush, Connect, Bind, Disconnect, SendPacket,
         HandleExceeded, HandleNormal, Remembered, client, application, vars
-----------------------------------------------------------------------------
\* The inductive invariant.
THEOREM InductiveInvariant == Spec => []IInv
<1>1. IInv /\ [Next]_vars => IInv'
  BY NextType, NextForgotten, NextFollow, NextReceived DEF IInv
<1> QED BY InitInv, <1>1, PTL DEF Spec

\* Every variable keeps its type.
THEOREM TypeCorrect == Spec => []TypeOK
<1>1. IInv => TypeOK
  BY DEF IInv
<1> QED BY InductiveInvariant, <1>1, PTL

\* The server forgets only what the application has settled.
THEOREM NothingIsForgotten == Spec => []ForgottenIsSettled
<1>1. IInv => ForgottenIsSettled
  BY DEF IInv
<1> QED BY InductiveInvariant, <1>1, PTL
-----------------------------------------------------------------------------
(* ImReceive implements StoredDelivery.                                    *)

\* An answer is for a message that was stored.
LEMMA NextAnswers ==
  TypeOK /\ NothingAhead /\ [Next]_vars =>
    /\ dropped' <= stored'
    /\ \A i \in 1 .. Len(packetsWaitToSend') : packetsWaitToSend'[i] <= stored'
<1> SUFFICES ASSUME TypeOK, NothingAhead, [Next]_vars
             PROVE  /\ dropped' <= stored'
                    /\ \A i \in 1 .. Len(packetsWaitToSend') : packetsWaitToSend'[i] <= stored'
  OBVIOUS
<1> USE NumAssumption DEF TypeOK, NothingAhead, server, client, application
<1>1. CASE SendPacket
  <2>1. packetsWaitToSend # <<>> /\ packetsWaitToSend' = Tail(packetsWaitToSend)
    BY <1>1 DEF SendPacket
  <2>2. \A i \in 1 .. Len(packetsWaitToSend') :
          packetsWaitToSend'[i] = packetsWaitToSend[i + 1] /\ i + 1 \in 1 .. Len(packetsWaitToSend)
    BY <2>1
  <2>3. Head(packetsWaitToSend) <= stored
    BY <2>1
  <2> QED BY <1>1, <2>2, <2>3 DEF SendPacket
<1>2. ASSUME NEW k \in 0 .. NumMessages, k <= stored, UNCHANGED <<dropped, stored>>,
             packetsWaitToSend' = Append(packetsWaitToSend, k)
      PROVE  /\ dropped' <= stored'
             /\ \A i \in 1 .. Len(packetsWaitToSend') : packetsWaitToSend'[i] <= stored'
  <2>1. \A i \in 1 .. Len(packetsWaitToSend') :
          \/ i \in 1 .. Len(packetsWaitToSend) /\ packetsWaitToSend'[i] = packetsWaitToSend[i]
          \/ packetsWaitToSend'[i] = k
    BY <1>2
  <2> QED BY <1>2, <2>1
<1>3. CASE UNCHANGED <<dropped, packetsWaitToSend>> /\ stored' \in {stored, stored + 1}
  <2>1. \A i \in 1 .. Len(packetsWaitToSend) : packetsWaitToSend[i] \in 0 .. NumMessages
    OBVIOUS
  <2> QED BY <1>3, <2>1
<1>4. ASSUME down # <<>>, UNCHANGED <<dropped, stored>>,
             packetsWaitToSend' \in {packetsWaitToSend, sendCompoundSequenceAck(Head(down)), pull}
      PROVE  /\ dropped' <= stored'
             /\ \A i \in 1 .. Len(packetsWaitToSend') : packetsWaitToSend'[i] <= stored'
  <2>1. Head(down).max \in 0 .. NumMessages /\ Head(down).max <= stored
    BY <1>4, HeadType DEF SaysTrue
  <2>2. Pull \in 0 .. NumMessages /\ Pull <= stored
    BY DEF Pull
  <2> QED BY <1>2, <1>3, <1>4, <2>1, <2>2 DEF sendCompoundSequenceAck, pull
<1>5. CASE HandleExceeded
  BY <1>4, <1>5 DEF HandleExceeded
<1>6. ASSUME NEW p2pOk \in BOOLEAN, NEW p2tOk \in BOOLEAN, HandleNormal(p2pOk, p2tOk)
      PROVE  /\ dropped' <= stored'
             /\ \A i \in 1 .. Len(packetsWaitToSend') : packetsWaitToSend'[i] <= stored'
  BY <1>4, <1>6 DEF HandleNormal
<1>7. ASSUME Store \/ ServerPush \/ Connect \/ Bind \/ Disconnect \/ UNCHANGED vars
      PROVE UNCHANGED <<dropped, packetsWaitToSend>> /\ stored' \in {stored, stored + 1}
  BY <1>7 DEF Store, ServerPush, Connect, Bind, Disconnect, vars
<1> QED BY <1>1, <1>3, <1>5, <1>6, <1>7 DEF Next

\* A compound is about messages that were stored.
LEMMA NextCompounds ==
  TypeOK /\ NothingAhead /\ [Next]_vars => \A i \in 1 .. Len(down') : SaysTrue(down[i])'
<1> SUFFICES ASSUME TypeOK, NothingAhead, [Next]_vars
             PROVE  \A i \in 1 .. Len(down') : SaysTrue(down[i])'
  OBVIOUS
<1>0. stored \in Nat /\ stored' \in Nat /\ stored <= stored'
  <2>1. stored' \in {stored, stored + 1}
    BY DEF Next, Store, ServerPush, Connect, Bind, Disconnect, SendPacket,
           HandleExceeded, HandleNormal, server, vars
  <2>2. stored \in Nat
    BY NumAssumption DEF TypeOK
  <2> QED BY <2>1, <2>2
<1> DEFINE True(c) == /\ c.after <= c.max /\ c.max <= stored'
                      /\ c.exceeds <=> c.max - c.after > Limit
<1>1. \A i \in 1 .. Len(down) : True(down[i])
  <2>1. ASSUME NEW i \in 1 .. Len(down) PROVE True(down[i])
    <3>1. down[i] \in Compounds
      BY DEF TypeOK
    <3>2. down[i].max \in Nat
      BY <3>1, NumAssumption DEF Compounds
    <3> QED BY <1>0, <3>2 DEF NothingAhead, SaysTrue
  <2> QED BY <2>1
<1> SUFFICES \A i \in 1 .. Len(down') : True(down'[i])
  BY DEF SaysTrue
<1> HIDE DEF True
<1> USE DEF TypeOK, server, client, application
<1>2. CASE ServerPush
  <2>1. CASE UNCHANGED down
    BY <1>1, <2>1
  <2>2. CASE stored # dropped
    <3> DEFINE c == [exceeds |-> stored - dropped > Limit, after |-> dropped, max |-> stored]
    <3>1. down' = Append(down, c)
      BY <1>2, <2>2 DEF ServerPush
    <3>2. True(c)
      <4>1. c.after = dropped /\ c.max = stored /\ (c.exceeds <=> stored - dropped > Limit)
        OBVIOUS
      <4>2. stored' = stored /\ dropped <= stored /\ stored \in Nat
        BY <1>0, <1>2 DEF ServerPush, NothingAhead
      <4> HIDE DEF c
      <4> QED BY <4>1, <4>2 DEF True
    <3> HIDE DEF c
    <3>3. \A i \in 1 .. Len(down') :
            \/ i \in 1 .. Len(down) /\ down'[i] = down[i]
            \/ down'[i] = c
      BY <3>1
    <3> QED BY <1>1, <3>2, <3>3
  <2> QED BY <1>2, <2>1, <2>2 DEF ServerPush
<1>3. CASE down' = <<>>
  BY <1>3
<1>4. CASE down # <<>> /\ down' = <<Head(down)>>
  BY <1>1, <1>4
<1>5. CASE down # <<>> /\ down' = Tail(down)
  <2>1. \A i \in 1 .. Len(down') : down'[i] = down[i + 1] /\ i + 1 \in 1 .. Len(down)
    BY <1>5
  <2> QED BY <1>1, <2>1
<1>6. CASE UNCHANGED down
  BY <1>1, <1>6
<1>7. CASE Disconnect
  BY <1>3, <1>4, <1>7 DEF Disconnect
<1>8. CASE SendPacket
  BY <1>3, <1>6, <1>8 DEF SendPacket
<1>9. CASE HandleExceeded
  BY <1>5, <1>9 DEF HandleExceeded
<1>10. ASSUME NEW p2pOk \in BOOLEAN, NEW p2tOk \in BOOLEAN, HandleNormal(p2pOk, p2tOk)
       PROVE \A i \in 1 .. Len(down') : True(down'[i])
  BY <1>5, <1>10 DEF HandleNormal
<1>11. ASSUME Store \/ Connect \/ Bind \/ UNCHANGED vars PROVE UNCHANGED down
  BY <1>11 DEF Store, Connect, Bind, vars
<1> QED BY <1>2, <1>6, <1>7, <1>8, <1>9, <1>10, <1>11 DEF Next

\* The invariant under which the refinement holds.
THEOREM DeliveryInvariant == Spec => []DeliveryInv
<1>1. Init => NothingAhead
  BY DEF Init, NothingAhead
<1>2. IInv /\ NothingAhead /\ [Next]_vars => NothingAhead'
  BY NextAnswers, NextCompounds DEF IInv, NothingAhead
<1>3. DeliveryInv <=> IInv /\ NothingAhead
  BY DEF DeliveryInv
<1> QED BY InductiveInvariant, <1>1, <1>2, <1>3, PTL DEF Spec

\* Every step of the program is a step of the promise or a stutter.
LEMMA DeliveryStep ==
  DeliveryInv /\ [Next]_vars => [Delivery!Next]_(Delivery!vars)
<1> SUFFICES ASSUME DeliveryInv, [Next]_vars
             PROVE Delivery!Next \/ UNCHANGED <<stored, dropped, accepted, told>>
  BY DEF Delivery!vars
<1>0. TypeOK /\ ForgottenIsSettled /\ CompoundsFollow /\ NothingAhead
  BY DEF DeliveryInv, IInv
<1>s. Settled = Delivery!Settled
  BY DEF Settled, Delivery!Settled
<1> USE <1>0, NumAssumption, LimitAssumption DEF TypeOK, server, client, application
<1>1. CASE Store
  BY <1>1 DEF Store, Delivery!Store, Delivery!Next
<1>2. CASE SendPacket
  <2>1. CASE UNCHANGED dropped
    BY <1>2, <2>1 DEF SendPacket
  <2>2. CASE dropped' # dropped
    <3>1. packetsWaitToSend # <<>> /\ dropped' = Head(packetsWaitToSend) /\ dropped' > dropped
      BY <1>2, <2>2 DEF SendPacket
    <3>2. 1 \in 1 .. Len(packetsWaitToSend) /\ Head(packetsWaitToSend) = packetsWaitToSend[1]
      BY <3>1
    <3>3. dropped' <= stored /\ 1 .. dropped' \subseteq Settled /\ dropped' \in Nat
      BY <3>1, <3>2 DEF ForgottenIsSettled, NothingAhead
    <3>4. Delivery!Forget
      BY <1>2, <1>s, <3>1, <3>3 DEF SendPacket, Delivery!Forget
    <3> QED BY <3>4 DEF Delivery!Next
  <2> QED BY <2>1, <2>2
<1>3. ASSUME down # <<>>
      PROVE  LET c == Head(down)
             IN  /\ c.after \in 0 .. stored /\ c.max \in 0 .. stored
                 /\ Delivery!Stretch(c.after, c.max)
                 /\ c.exceeds <=> c.max - c.after > Limit
  <2>1. Head(down).after \in 0 .. NumMessages /\ Head(down).max \in 0 .. NumMessages
    BY <1>3, HeadType
  <2>2. 1 \in 1 .. Len(down) /\ Head(down) = down[1]
    BY <1>3
  <2>3. SaysTrue(Head(down)) /\ 1 .. Head(down).after \subseteq Settled
    BY <2>2 DEF NothingAhead, CompoundsFollow
  <2> QED BY <1>s, <2>1, <2>3 DEF SaysTrue, Delivery!Stretch
<1>4. CASE HandleExceeded
  <2>1. CASE UNCHANGED told
    BY <1>4, <2>1 DEF HandleExceeded
  <2>2. CASE told' = told \union (Head(down).after + 1 .. Head(down).max)
    <3>1. Delivery!Tell(Head(down).after, Head(down).max)
      BY <1>3, <1>4, <2>2 DEF HandleExceeded, Delivery!Tell
    <3>2. Head(down).after \in 0 .. stored /\ Head(down).max \in 0 .. stored
      BY <1>3, <1>4 DEF HandleExceeded
    <3> QED BY <3>1, <3>2 DEF Delivery!Next
  <2> QED BY <1>4, <2>1, <2>2 DEF HandleExceeded
<1>5. ASSUME NEW p2pOk \in BOOLEAN, NEW p2tOk \in BOOLEAN, HandleNormal(p2pOk, p2tOk)
      PROVE Delivery!Next
  <2> DEFINE c == Head(down)
  <2>1. down # <<>> /\ ~c.exceeds
    BY <1>5 DEF HandleNormal
  <2>2. c.after \in 0 .. stored /\ c.max \in 0 .. stored
        /\ Delivery!Stretch(c.after, c.max) /\ ~(c.max - c.after > Limit)
    BY <1>3, <2>1
  <2>3. \A kind, ok : Taken(c, kind, ok) \subseteq c.after + 1 .. c.max
    BY DEF Taken, Batch
  <2>4. accepted' = accepted \union (Taken(c, "p2p", p2pOk) \union Taken(c, "p2t", p2tOk))
    BY <1>5 DEF HandleNormal
  <2>5. UNCHANGED <<stored, dropped, told>>
    BY <1>5 DEF HandleNormal
  <2> HIDE DEF c
  <2>6. c.max - c.after <= Limit
    BY <2>2
  <2>7. Delivery!Accept(c.after, c.max)
    BY <2>2, <2>3, <2>4, <2>5, <2>6 DEF Delivery!Accept
  <2> QED BY <2>2, <2>7 DEF Delivery!Next
<1>6. ASSUME ServerPush \/ Connect \/ Bind \/ Disconnect \/ UNCHANGED vars
      PROVE UNCHANGED <<stored, dropped, accepted, told>>
  BY <1>6 DEF ServerPush, Connect, Bind, Disconnect, vars
<1> QED BY <1>1, <1>2, <1>4, <1>5, <1>6 DEF Next

\* For any messages, limit, refusals and losses: batches come from the front,
\* within the limit, and the server forgets from the front what is settled.
THEOREM Implementation == Spec => ImplementsDelivery
<1>1. Init => Delivery!Init
  BY DEF Init, Delivery!Init
<1> QED BY DeliveryInvariant, <1>1, DeliveryStep, PTL
     DEF Spec, ImplementsDelivery, Delivery!Spec

\* The promise, of StoredDelivery alone.
LEMMA DeliveryPromises == Delivery!Spec => []Delivery!Inv
<1> USE LimitAssumption DEF Delivery!Settled
<1>1. Delivery!Init => Delivery!Inv
  BY DEF Delivery!Init, Delivery!Inv, Delivery!Promised
<1>2. Delivery!Inv /\ [Delivery!Next]_(Delivery!vars) => Delivery!Inv'
  <2> SUFFICES ASSUME Delivery!Inv, [Delivery!Next]_(Delivery!vars) PROVE Delivery!Inv'
    OBVIOUS
  <2>0. /\ stored \in Nat /\ dropped \in Nat /\ dropped <= stored
        /\ 1 .. dropped \subseteq Delivery!Settled /\ accepted \union told \subseteq 1 .. stored
        /\ \A s \in accepted :
             \E after \in 0 .. stored :
               1 .. after \subseteq Delivery!Settled /\ after < s /\ s <= after + Limit
    BY DEF Delivery!Inv, Delivery!Promised
  <2> USE <2>0
  <2>1. CASE Delivery!Store
    <3>1. stored' \in Nat /\ 0 .. stored \subseteq 0 .. stored' /\ 1 .. stored \subseteq 1 .. stored'
          /\ dropped <= stored'
          /\ UNCHANGED <<dropped, accepted, told>>
      BY <2>1 DEF Delivery!Store
    <3>2. ASSUME NEW s \in accepted
          PROVE \E after \in 0 .. stored' :
                  1 .. after \subseteq Delivery!Settled /\ after < s /\ s <= after + Limit
      <4>1. PICK after \in 0 .. stored :
                   1 .. after \subseteq Delivery!Settled /\ after < s /\ s <= after + Limit
        OBVIOUS
      <4>2. after \in 0 .. stored'
        BY <3>1
      <4> QED BY <4>1, <4>2
    <3> QED BY <3>1, <3>2 DEF Delivery!Inv, Delivery!Promised
  <2>2. ASSUME NEW after \in 0 .. stored, NEW max \in 0 .. stored, Delivery!Accept(after, max)
        PROVE Delivery!Inv'
    <3>1. /\ UNCHANGED <<stored, dropped, told>> /\ accepted \subseteq accepted'
          /\ accepted' \subseteq accepted \union (after + 1 .. max)
          /\ 1 .. after \subseteq Delivery!Settled /\ max <= stored /\ max - after <= Limit
      BY <2>2 DEF Delivery!Accept, Delivery!Stretch
    <3>2. \A s \in after + 1 .. max : after < s /\ s <= after + Limit /\ s \in 1 .. stored
      BY <3>1
    <3>3. \A k : k \subseteq Delivery!Settled => k \subseteq Delivery!Settled'
      BY <3>1
    <3>4. \A s \in accepted' :
            \E a \in 0 .. stored :
              1 .. a \subseteq Delivery!Settled /\ a < s /\ s <= a + Limit
      BY <3>1, <3>2
    <3> HIDE DEF Delivery!Settled
    <3>5. accepted' \union told' \subseteq 1 .. stored'
      BY <3>1, <3>2
    <3>6. stored' = stored /\ dropped' = dropped
      BY <3>1
    <3> QED BY <3>3, <3>4, <3>5, <3>6 DEF Delivery!Inv, Delivery!Promised
  <2>3. ASSUME NEW after \in 0 .. stored, NEW max \in 0 .. stored, Delivery!Tell(after, max)
        PROVE Delivery!Inv'
    <3>1. /\ UNCHANGED <<stored, dropped, accepted>>
          /\ told' = told \union (after + 1 .. max)
      BY <2>3 DEF Delivery!Tell
    <3>2. after + 1 .. max \subseteq 1 .. stored
      OBVIOUS
    <3> QED BY <3>1, <3>2 DEF Delivery!Inv, Delivery!Promised
  <2>4. CASE Delivery!Forget
    BY <2>4 DEF Delivery!Forget, Delivery!Inv, Delivery!Promised
  <2>5. CASE UNCHANGED Delivery!vars
    BY <2>5 DEF Delivery!vars, Delivery!Inv, Delivery!Promised
  <2> QED BY <2>1, <2>2, <2>3, <2>4, <2>5 DEF Delivery!Next
<1> QED BY <1>1, <1>2, PTL DEF Delivery!Spec

\* What StoredDelivery promises holds of ImReceive: only stored messages are
\* handed over, none further ahead than the limit of a settled stretch.
THEOREM PromisesHold == Spec => []Delivery!Promised
<1>1. Delivery!Inv => Delivery!Promised
  BY DEF Delivery!Inv
<1> QED BY Implementation, DeliveryPromises, <1>1, PTL DEF ImplementsDelivery
=============================================================================
