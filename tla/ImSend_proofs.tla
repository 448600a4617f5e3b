--------------------------- MODULE ImSend_proofs ---------------------------
(***************************************************************************)
(* Proofs about ImSend for any messages, any number of threads that send   *)
(* them and any behaviour of the connection and the server.                *)
(***************************************************************************)
EXTENDS ImSend, TLAPS

LEMMA InitInv == Init => IInv
<1> USE NoMessageAssumption DEF Init
<1>1. Init => TypeOK
  BY DEF TypeOK
<1>2. Init => KnownIsInserted /\ ReportedFirst /\ WaitsUntilAnswered
  BY DEF KnownIsInserted, Known, Queued, ReportedFirst, WaitsUntilAnswered
<1> QED BY <1>1, <1>2 DEF IInv

LEMMA NextType == TypeOK /\ ReportedFirst /\ [Next]_vars => TypeOK'
<1> SUFFICES ASSUME TypeOK, ReportedFirst, [Next]_vars PROVE TypeOK'
  OBVIOUS
<1> USE DEF TypeOK, connection, reports
<1>1. ASSUME NEW m \in Messages, Send(m) PROVE TypeOK'
  BY <1>1 DEF Send
<1>2. ASSUME NEW m \in Messages, Insert(m) PROVE TypeOK'
  BY <1>2 DEF Insert, Inserting, MapOf, Messages
<1>3. ASSUME NEW m \in Messages, Push(m) PROVE TypeOK'
  BY <1>3 DEF Push
<1>4. ASSUME NEW m \in Messages, Age(m) PROVE TypeOK'
  BY <1>4 DEF Age
<1>5. CASE Disconnect
  BY <1>5 DEF Disconnect
<1>6. CASE Connect
  BY <1>6 DEF Connect
<1>7. CASE Bind
  BY <1>7 DEF Bind
<1>8. CASE SendPacket
  BY <1>8 DEF SendPacket
<1>9. ASSUME NEW m \in Messages, ServerAck(m) PROVE TypeOK'
  BY <1>9 DEF ServerAck
<1>10. ASSUME NEW m \in Messages, HandleServerAck(m) PROVE TypeOK'
  BY <1>10 DEF HandleServerAck
<1>11. ASSUME NEW m \in Messages, EraseAcked(m) PROVE TypeOK'
  BY <1>11, NoMessageAssumption DEF EraseAcked, Inserting, MapOf, Messages, ReportedFirst
<1>12. CASE ReportTimeouts
  BY <1>12 DEF ReportTimeouts, Due
<1>13. CASE EraseTimeouts
  BY <1>13 DEF EraseTimeouts, Messages
<1>14. CASE UNCHANGED vars
  BY <1>14 DEF vars
<1> QED
  BY <1>1, <1>2, <1>3, <1>4, <1>5, <1>6, <1>7, <1>8, <1>9, <1>10, <1>11, <1>12,
     <1>13, <1>14 DEF Next

\* A message is on its way, timed or answered only after its insert.
LEMMA NextKnown ==
  TypeOK /\ KnownIsInserted /\ ReportedFirst /\ [Next]_vars => KnownIsInserted'
<1> SUFFICES ASSUME TypeOK, KnownIsInserted, ReportedFirst, [Next]_vars
             PROVE KnownIsInserted'
  OBVIOUS
<1> USE DEF TypeOK, KnownIsInserted, Known, Queued, connection, reports
<1>1. ASSUME NEW m \in Messages, Send(m) PROVE KnownIsInserted'
  BY <1>1 DEF Send
<1>2. ASSUME NEW m \in Messages, Insert(m) PROVE KnownIsInserted'
  BY <1>2 DEF Insert
<1>3. ASSUME NEW m \in Messages, Push(m) PROVE KnownIsInserted'
  BY <1>3 DEF Push
<1>4. ASSUME NEW m \in Messages, Age(m) PROVE KnownIsInserted'
  BY <1>4 DEF Age
<1>5. CASE Disconnect
  BY <1>5 DEF Disconnect
<1>6. CASE Connect
  BY <1>6 DEF Connect
<1>7. CASE Bind
  BY <1>7 DEF Bind
<1>8. CASE SendPacket
  <2>1. \A m \in Messages : Queued(m)' => Queued(m)
    BY <1>8 DEF SendPacket
  <2>2. Queued(Head(packetsWaitToSend))
    BY <1>8 DEF SendPacket
  <2> QED BY <1>8, <2>1, <2>2 DEF SendPacket
<1>9. ASSUME NEW m \in Messages, ServerAck(m) PROVE KnownIsInserted'
  BY <1>9 DEF ServerAck
<1>10. ASSUME NEW m \in Messages, HandleServerAck(m) PROVE KnownIsInserted'
  BY <1>10 DEF HandleServerAck
<1>11. ASSUME NEW m \in Messages, EraseAcked(m) PROVE KnownIsInserted'
  BY <1>11, NoMessageAssumption DEF EraseAcked, ReportedFirst
<1>12. CASE ReportTimeouts
  BY <1>12 DEF ReportTimeouts, Due
<1>13. CASE EraseTimeouts
  BY <1>13 DEF EraseTimeouts
<1>14. CASE UNCHANGED vars
  BY <1>14 DEF vars
<1> QED
  BY <1>1, <1>2, <1>3, <1>4, <1>5, <1>6, <1>7, <1>8, <1>9, <1>10, <1>11, <1>12,
     <1>13, <1>14 DEF Next

\* An entry is erased after the application was told.
LEMMA NextReported == TypeOK /\ ReportedFirst /\ [Next]_vars => ReportedFirst'
<1> SUFFICES ASSUME TypeOK, ReportedFirst, [Next]_vars PROVE ReportedFirst'
  OBVIOUS
<1> USE DEF ReportedFirst, connection, reports
<1>1. ASSUME NEW m \in Messages, HandleServerAck(m) PROVE ReportedFirst'
  BY <1>1 DEF HandleServerAck
<1>2. ASSUME NEW m \in Messages, EraseAcked(m) PROVE ReportedFirst'
  BY <1>2 DEF EraseAcked
<1>3. CASE ReportTimeouts
  BY <1>3 DEF ReportTimeouts
<1>4. CASE EraseTimeouts
  BY <1>4 DEF EraseTimeouts
<1>5. CASE UNCHANGED <<acking, expired, reports>>
  BY <1>5
<1>6. ASSUME NEW m \in Messages, Send(m) \/ Insert(m) \/ Push(m) \/ Age(m) \/ ServerAck(m)
      PROVE UNCHANGED <<acking, expired, reports>>
  BY <1>6 DEF Send, Insert, Push, Age, ServerAck
<1>7. ASSUME Disconnect \/ Connect \/ Bind \/ SendPacket \/ UNCHANGED vars
      PROVE UNCHANGED <<acking, expired, reports>>
  BY <1>7 DEF Disconnect, Connect, Bind, SendPacket, vars
<1> QED
  BY <1>1, <1>2, <1>3, <1>4, <1>5, <1>6, <1>7 DEF Next

LEMMA NextWaits ==
  TypeOK /\ KnownIsInserted /\ ReportedFirst /\ WaitsUntilAnswered /\ [Next]_vars
    => WaitsUntilAnswered'
<1> SUFFICES ASSUME TypeOK, KnownIsInserted, ReportedFirst, WaitsUntilAnswered, [Next]_vars
             PROVE WaitsUntilAnswered'
  OBVIOUS
<1> USE DEF TypeOK, WaitsUntilAnswered, connection, reports
<1>1. ASSUME NEW m \in Messages, Send(m) PROVE WaitsUntilAnswered'
  BY <1>1 DEF Send
<1>2. ASSUME NEW m \in Messages, Insert(m) PROVE WaitsUntilAnswered'
  <2>1. m \notin settled \union timedOut
    BY <1>2 DEF Insert, KnownIsInserted, Known
  <2> QED BY <1>2, <2>1 DEF Insert
<1>3. ASSUME NEW m \in Messages, Push(m) PROVE WaitsUntilAnswered'
  BY <1>3 DEF Push
<1>4. ASSUME NEW m \in Messages, EraseAcked(m) PROVE WaitsUntilAnswered'
  BY <1>4 DEF EraseAcked
<1>5. CASE ReportTimeouts
  BY <1>5 DEF ReportTimeouts, Due
<1>6. CASE EraseTimeouts
  BY <1>6 DEF EraseTimeouts, ReportedFirst
<1>7. CASE UNCHANGED <<stage, raced, waiting, expired, settled, timedOut>>
  BY <1>7
<1>8. ASSUME NEW m \in Messages, Age(m) \/ ServerAck(m) \/ HandleServerAck(m)
      PROVE UNCHANGED <<stage, raced, waiting, expired, settled, timedOut>>
  BY <1>8 DEF Age, ServerAck, HandleServerAck
<1>9. ASSUME Disconnect \/ Connect \/ Bind \/ SendPacket \/ UNCHANGED vars
      PROVE UNCHANGED <<stage, raced, waiting, expired, settled, timedOut>>
  BY <1>9 DEF Disconnect, Connect, Bind, SendPacket, vars
<1> QED
  BY <1>1, <1>2, <1>3, <1>4, <1>5, <1>6, <1>7, <1>8, <1>9 DEF Next
-----------------------------------------------------------------------------
\* The inductive invariant.
THEOREM InductiveInvariant == Spec => []IInv
<1>1. IInv /\ [Next]_vars => IInv'
  BY NextType, NextKnown, NextReported, NextWaits DEF IInv
<1> QED BY InitInv, <1>1, PTL DEF Spec

\* Every variable keeps its type.
THEOREM TypeCorrect == Spec => []TypeOK
<1>1. IInv => TypeOK
  BY DEF IInv
<1> QED BY InductiveInvariant, <1>1, PTL

\* A message is timed from before it can leave until its answer is handled.
THEOREM TimedUntilAnswered == Spec => []WaitsUntilAnswered
<1>1. IInv => WaitsUntilAnswered
  BY DEF IInv
<1> QED BY InductiveInvariant, <1>1, PTL

\* No timeout is reported after the acknowledgement was handled, nor twice.
THEOREM TimeoutsAreFinal == Spec => NoLateTimeout
<1> DEFINE Final == \A m \in expired' \ raced :
                      m \notin expired => m \notin settled /\ m \notin timedOut
<1>1. IInv /\ [Next]_vars => [Final]_vars
  <2> SUFFICES ASSUME IInv, Next PROVE Final
    OBVIOUS
  <2> USE DEF IInv, TypeOK, connection, reports
  <2>1. CASE ReportTimeouts
    <3>1. expired = {} /\ expired' \subseteq waiting /\ expired' \subseteq Messages
      BY <2>1 DEF ReportTimeouts, Due
    <3>2. \A m \in expired' : stage[m] \in {"inserted", "pushed"}
      BY <3>1 DEF KnownIsInserted, Known
    <3> QED BY <3>1, <3>2 DEF WaitsUntilAnswered
  <2>2. CASE EraseTimeouts
    BY <2>2 DEF EraseTimeouts
  <2>3. CASE UNCHANGED expired
    BY <2>3
  <2>4. ASSUME NEW m \in Messages,
               \/ Send(m) \/ Insert(m) \/ Push(m) \/ Age(m)
               \/ ServerAck(m) \/ HandleServerAck(m) \/ EraseAcked(m)
        PROVE UNCHANGED expired
    BY <2>4 DEF Send, Insert, Push, Age, ServerAck, HandleServerAck, EraseAcked
  <2>5. ASSUME Disconnect \/ Connect \/ Bind \/ SendPacket PROVE UNCHANGED expired
    BY <2>5 DEF Disconnect, Connect, Bind, SendPacket
  <2> QED BY <2>1, <2>2, <2>3, <2>4, <2>5 DEF Next
<1> QED BY InductiveInvariant, <1>1, PTL DEF Spec, NoLateTimeout
-----------------------------------------------------------------------------
(* ImSend implements MessageLife.                                          *)

\* Who is in the queue after a message was appended or its head removed.
LEMMA QueueSteps ==
  ASSUME TypeOK
  PROVE  /\ \A m \in Messages : packetsWaitToSend' = Append(packetsWaitToSend, m) =>
              \A n \in Messages : Queued(n)' <=> Queued(n) \/ n = m
         /\ packetsWaitToSend # <<>> /\ packetsWaitToSend' = Tail(packetsWaitToSend) =>
              \A n \in Messages : Queued(n) <=> Queued(n)' \/ n = Head(packetsWaitToSend)
<1> USE DEF TypeOK, Queued
<1>1. ASSUME NEW m \in Messages, packetsWaitToSend' = Append(packetsWaitToSend, m),
             NEW n \in Messages
      PROVE Queued(n)' <=> Queued(n) \/ n = m
  <2>1. Len(packetsWaitToSend') = Len(packetsWaitToSend) + 1
    BY <1>1
  <2>2. packetsWaitToSend'[Len(packetsWaitToSend) + 1] = m
    BY <1>1
  <2>3. \A i \in 1 .. Len(packetsWaitToSend) : packetsWaitToSend'[i] = packetsWaitToSend[i]
    BY <1>1
  <2> QED BY <2>1, <2>2, <2>3
<1>2. ASSUME packetsWaitToSend # <<>>, packetsWaitToSend' = Tail(packetsWaitToSend),
             NEW n \in Messages
      PROVE Queued(n) <=> Queued(n)' \/ n = Head(packetsWaitToSend)
  <2> DEFINE L == Len(packetsWaitToSend)
  <2>1. L \in Nat \ {0} /\ Len(packetsWaitToSend') = L - 1
    BY <1>2
  <2>2. \A i \in 1 .. L - 1 : packetsWaitToSend'[i] = packetsWaitToSend[i + 1]
    BY <1>2
  <2>3. Head(packetsWaitToSend) = packetsWaitToSend[1]
    BY <1>2
  <2>4. ASSUME NEW i \in 1 .. L, packetsWaitToSend[i] = n, i # 1
        PROVE Queued(n)'
    <3>1. i - 1 \in 1 .. L - 1 /\ packetsWaitToSend'[i - 1] = n
      BY <2>1, <2>2, <2>4
    <3> QED BY <3>1, <2>1
  <2>5. ASSUME NEW i \in 1 .. L - 1, packetsWaitToSend'[i] = n
        PROVE Queued(n)
    <3>1. i + 1 \in 1 .. L /\ packetsWaitToSend[i + 1] = n
      BY <2>1, <2>2, <2>5
    <3> QED BY <3>1
  <2> QED BY <2>1, <2>3, <2>4, <2>5
<1> QED BY <1>1, <1>2

\* No message is twice in the queue.
LEMMA NextDistinct ==
  TypeOK /\ SentOnce /\ [Next]_vars =>
    (\A i, j \in 1 .. Len(packetsWaitToSend) :
       packetsWaitToSend[i] = packetsWaitToSend[j] => i = j)'
<1> SUFFICES ASSUME TypeOK, SentOnce, [Next]_vars
             PROVE \A i, j \in 1 .. Len(packetsWaitToSend') :
                     packetsWaitToSend'[i] = packetsWaitToSend'[j] => i = j
  OBVIOUS
<1> USE DEF TypeOK, SentOnce, InOnePlace
<1>1. ASSUME NEW m \in Messages, Push(m)
      PROVE \A i, j \in 1 .. Len(packetsWaitToSend') :
              packetsWaitToSend'[i] = packetsWaitToSend'[j] => i = j
  <2>1. packetsWaitToSend' = Append(packetsWaitToSend, m)
    BY <1>1 DEF Push
  <2>2. ~Queued(m)
    BY <1>1 DEF Push
  <2> QED BY <2>1, <2>2 DEF Queued
<1>2. CASE SendPacket
  <2>1. packetsWaitToSend # <<>> /\ packetsWaitToSend' = Tail(packetsWaitToSend)
    BY <1>2 DEF SendPacket
  <2> QED BY <2>1
<1>3. CASE UNCHANGED packetsWaitToSend
  BY <1>3
<1>4. ASSUME NEW m \in Messages,
             \/ Send(m) \/ Insert(m) \/ Age(m)
             \/ ServerAck(m) \/ HandleServerAck(m) \/ EraseAcked(m)
      PROVE UNCHANGED packetsWaitToSend
  BY <1>4 DEF Send, Insert, Age, ServerAck, HandleServerAck, EraseAcked
<1>5. ASSUME \/ Disconnect \/ Connect \/ Bind \/ ReportTimeouts \/ EraseTimeouts
             \/ UNCHANGED vars
      PROVE UNCHANGED packetsWaitToSend
  BY <1>5 DEF Disconnect, Connect, Bind, ReportTimeouts, EraseTimeouts, vars
<1> QED BY <1>1, <1>2, <1>3, <1>4, <1>5 DEF Next

\* A message is in the queue, on the connection or answered, one at a time.
LEMMA NextOnePlace ==
  TypeOK /\ SentOnce /\ [Next]_vars => \A n \in Messages : InOnePlace(n)'
<1> SUFFICES ASSUME TypeOK, SentOnce, [Next]_vars, NEW n \in Messages
             PROVE InOnePlace(n)'
  OBVIOUS
<1>0. InOnePlace(n)
  BY DEF SentOnce
<1> USE <1>0 DEF TypeOK, InOnePlace, connection, reports
<1>1. ASSUME NEW m \in Messages, Push(m) PROVE InOnePlace(n)'
  <2>1. Queued(n)' <=> Queued(n) \/ n = m
    BY <1>1, QueueSteps DEF Push
  <2>2. n = m => n \notin wire \union acks \union acked
    BY <1>1 DEF Push
  <2> QED BY <1>1, <2>1, <2>2 DEF Push
<1>2. CASE SendPacket
  <2>1. /\ Queued(n) <=> Queued(n)' \/ n = Head(packetsWaitToSend)
        /\ UNCHANGED <<acks, acked, stage>>
    BY <1>2, QueueSteps DEF SendPacket
  <2>2. n = Head(packetsWaitToSend) => ~Queued(n)'
    <3>1. packetsWaitToSend # <<>> /\ packetsWaitToSend' = Tail(packetsWaitToSend)
      BY <1>2 DEF SendPacket
    <3> QED BY <3>1 DEF SentOnce, Queued
  <2>3. n \in wire' => n \in wire \/ n = Head(packetsWaitToSend)
    BY <1>2 DEF SendPacket
  <2> QED BY <2>1, <2>2, <2>3
<1>3. CASE UNCHANGED packetsWaitToSend
  <2>0. Queued(n)' <=> Queued(n)
    BY <1>3 DEF Queued
  <2>1. ASSUME NEW m \in Messages, Send(m) \/ Insert(m) \/ Age(m) PROVE InOnePlace(n)'
    BY <2>0, <2>1 DEF Send, Insert, Age
  <2>2. CASE Disconnect
    BY <2>0, <2>2 DEF Disconnect
  <2>3. CASE Connect \/ Bind
    BY <2>0, <2>3 DEF Connect, Bind
  <2>4. ASSUME NEW m \in Messages, ServerAck(m) PROVE InOnePlace(n)'
    BY <2>0, <2>4 DEF ServerAck
  <2>5. ASSUME NEW m \in Messages, HandleServerAck(m) PROVE InOnePlace(n)'
    BY <2>0, <2>5 DEF HandleServerAck
  <2>6. ASSUME NEW m \in Messages, EraseAcked(m) PROVE InOnePlace(n)'
    BY <2>0, <2>6 DEF EraseAcked
  <2>7. CASE ReportTimeouts \/ EraseTimeouts
    BY <2>0, <2>7 DEF ReportTimeouts, EraseTimeouts
  <2>8. CASE UNCHANGED vars
    BY <2>0, <2>8 DEF vars
  <2> QED BY <1>1, <1>2, <2>1, <2>2, <2>3, <2>4, <2>5, <2>6, <2>7, <2>8 DEF Next
<1>4. ASSUME NEW m \in Messages,
             \/ Send(m) \/ Insert(m) \/ Age(m)
             \/ ServerAck(m) \/ HandleServerAck(m) \/ EraseAcked(m)
      PROVE UNCHANGED packetsWaitToSend
  BY <1>4 DEF Send, Insert, Age, ServerAck, HandleServerAck, EraseAcked
<1>5. ASSUME \/ Disconnect \/ Connect \/ Bind \/ ReportTimeouts \/ EraseTimeouts
             \/ UNCHANGED vars
      PROVE UNCHANGED packetsWaitToSend
  BY <1>5 DEF Disconnect, Connect, Bind, ReportTimeouts, EraseTimeouts, vars
<1> QED BY <1>1, <1>2, <1>3, <1>4, <1>5 DEF Next

\* The message whose answer is being handled has not been settled before.
LEMMA NextAcking ==
  IInv /\ SentOnce /\ [Next]_vars => (acking \notin settled)'
<1> SUFFICES ASSUME IInv, SentOnce, [Next]_vars PROVE acking' \notin settled'
  OBVIOUS
<1> USE NoMessageAssumption DEF IInv, TypeOK, SentOnce, connection, reports
<1>1. ASSUME NEW m \in Messages, HandleServerAck(m) PROVE acking' \notin settled'
  BY <1>1 DEF HandleServerAck, InOnePlace
<1>2. ASSUME NEW m \in Messages, EraseAcked(m) PROVE acking' \notin settled'
  BY <1>2 DEF EraseAcked
<1>3. CASE UNCHANGED <<acking, settled>>
  BY <1>3
<1>4. ASSUME NEW m \in Messages, Send(m) \/ Insert(m) \/ Push(m) \/ Age(m) \/ ServerAck(m)
      PROVE UNCHANGED <<acking, settled>>
  BY <1>4 DEF Send, Insert, Push, Age, ServerAck
<1>5. ASSUME \/ Disconnect \/ Connect \/ Bind \/ SendPacket \/ ReportTimeouts
             \/ EraseTimeouts \/ UNCHANGED vars
      PROVE UNCHANGED <<acking, settled>>
  BY <1>5 DEF Disconnect, Connect, Bind, SendPacket, ReportTimeouts, EraseTimeouts, vars
<1> QED BY <1>1, <1>2, <1>3, <1>4, <1>5 DEF Next

\* The invariant under which the refinement holds.
THEOREM LifeInvariant == Spec => []LifeInv
<1>1. Init => SentOnce
  BY NoMessageAssumption DEF Init, SentOnce, InOnePlace, Queued
<1>2. IInv /\ SentOnce /\ [Next]_vars => SentOnce'
  BY NextDistinct, NextOnePlace, NextAcking DEF IInv, SentOnce
<1>3. LifeInv <=> IInv /\ SentOnce
  BY DEF LifeInv
<1> QED BY InductiveInvariant, <1>1, <1>2, <1>3, PTL DEF Spec

\* Every step of the program is a step or a stutter of each message's life.
LEMMA LifeStep ==
  ASSUME LifeInv, [Next]_vars, NEW n \in Messages
  PROVE  [Life(n)!Next]_(Life(n)!vars)
<1> DEFINE Same == UNCHANGED <<Place(n), Answer(n), n \in timedOut, n \in raced>>
           Step == Life(n)!Next \/ Same
<1> SUFFICES Step
  BY DEF Life!vars
<1>0. TypeOK /\ SentOnce /\ WaitsUntilAnswered /\ KnownIsInserted /\ ReportedFirst
      /\ InOnePlace(n)
  BY DEF LifeInv, IInv, SentOnce
<1> USE <1>0 DEF TypeOK, Place, Answer, connection, reports
<1>1. ASSUME NEW m \in Messages, Send(m) PROVE Step
  <2>1. Queued(n)' <=> Queued(n)
    BY <1>1 DEF Send, Queued
  <2>2. CASE m = n
    <3>1. Life(n)!Take
      BY <1>1, <2>1, <2>2 DEF Send, Life!Take
    <3> QED BY <3>1 DEF Life!Next
  <2>3. CASE m # n
    BY <1>1, <2>1, <2>3 DEF Send
  <2> QED BY <2>2, <2>3
<1>2. ASSUME NEW m \in Messages, Insert(m) PROVE Step
  <2>1. Queued(n)' <=> Queued(n)
    BY <1>2 DEF Insert, Queued
  <2>2. UNCHANGED <<Place(n), Answer(n), timedOut>>
    BY <1>2, <2>1 DEF Insert
  <2>3. n \in raced => n \in raced'
    BY <1>2 DEF Insert
  <2>4. n \in raced' \ raced => Life(n)!Race
    BY <2>2 DEF Life!Race
  <2> QED BY <2>2, <2>3, <2>4 DEF Life!Next
<1>3. ASSUME NEW m \in Messages, Push(m) PROVE Step
  <2>1. Queued(n)' <=> Queued(n) \/ n = m
    BY <1>3, QueueSteps DEF Push
  <2>2. CASE m = n
    <3>1. Life(n)!Queue
      BY <1>3, <2>1, <2>2 DEF Push, Life!Queue
    <3> QED BY <3>1 DEF Life!Next
  <2>3. CASE m # n
    BY <1>3, <2>1, <2>3 DEF Push
  <2> QED BY <2>2, <2>3
<1>4. CASE SendPacket
  <2>0. packetsWaitToSend # <<>> /\ packetsWaitToSend' = Tail(packetsWaitToSend)
    BY <1>4 DEF SendPacket
  <2>1. Queued(n) <=> Queued(n)' \/ n = Head(packetsWaitToSend)
    BY <2>0, QueueSteps
  <2>2. CASE n = Head(packetsWaitToSend)
    <3>1. ~Queued(n)'
      BY <2>0, <2>2 DEF SentOnce, Queued
    <3>2. Queued(n) /\ n \notin settled /\ n \notin acked /\ n \notin wire \union acks
      BY <2>1, <2>2 DEF InOnePlace
    <3>3. Place(n) = "queued" /\ Place(n)' = "left"
      BY <1>4, <3>1, <3>2 DEF SendPacket, InOnePlace
    <3>4. Answer(n)' \in {Answer(n), "due"}
      BY <1>4, <3>2 DEF SendPacket
    <3>5. Life(n)!Leave
      BY <1>4, <3>3, <3>4 DEF SendPacket, Life!Leave
    <3> QED BY <3>5 DEF Life!Next
  <2>3. CASE n # Head(packetsWaitToSend)
    BY <1>4, <2>1, <2>3 DEF SendPacket
  <2> QED BY <2>2, <2>3
<1>5. CASE Disconnect
  <2>1. Queued(n)' <=> Queued(n)
    BY <1>5 DEF Disconnect, Queued
  <2>2. UNCHANGED <<Place(n), timedOut, raced, acked, settled>>
    BY <1>5, <2>1 DEF Disconnect
  <2>3. CASE n \in wire \union acks /\ n \notin acked
    <3>1. Answer(n) = "due" /\ Answer(n)' = "none"
      BY <1>5, <2>3 DEF Disconnect
    <3> QED BY <2>2, <3>1 DEF Life!Lose, Life!Next
  <2>4. CASE n \notin wire \union acks \/ n \in acked
    BY <1>5, <2>2, <2>4 DEF Disconnect
  <2> QED BY <2>3, <2>4
<1>6. ASSUME NEW m \in Messages, ServerAck(m) PROVE Step
  <2>1. Queued(n)' <=> Queued(n)
    BY <1>6 DEF ServerAck, Queued
  <2> QED BY <1>6, <2>1 DEF ServerAck
<1>7. ASSUME NEW m \in Messages, HandleServerAck(m) PROVE Step
  <2>1. Queued(n)' <=> Queued(n)
    BY <1>7 DEF HandleServerAck, Queued
  <2>2. CASE m = n
    <3>1. n \notin acked /\ n \notin settled
      BY <1>7, <2>2 DEF HandleServerAck, InOnePlace
    <3>2. Life(n)!Tell
      BY <1>7, <2>1, <2>2, <3>1 DEF HandleServerAck, Life!Tell
    <3> QED BY <3>2 DEF Life!Next
  <2>3. CASE m # n
    BY <1>7, <2>1, <2>3 DEF HandleServerAck
  <2> QED BY <2>2, <2>3
<1>8. ASSUME NEW m \in Messages, EraseAcked(m) PROVE Step
  <2>1. Queued(n)' <=> Queued(n)
    BY <1>8 DEF EraseAcked, Queued
  <2>2. CASE m = n
    <3>1. n \in acked /\ n \notin settled /\ n \in settled'
      BY <1>8, <2>2, NoMessageAssumption DEF EraseAcked, ReportedFirst, SentOnce
    <3>2. Answer(n) = "told" /\ Answer(n)' = "settled"
      BY <3>1
    <3>3. UNCHANGED <<Place(n), timedOut>> /\ (n \in raced => n \in raced')
      BY <1>8, <2>1 DEF EraseAcked
    <3> QED BY <3>2, <3>3 DEF Life!Settle, Life!Next
  <2>3. CASE m # n
    BY <1>8, <2>1, <2>3 DEF EraseAcked
  <2> QED BY <2>2, <2>3
<1>9. CASE ReportTimeouts
  <2>1. Queued(n)' <=> Queued(n)
    BY <1>9 DEF ReportTimeouts, Queued
  <2>2. UNCHANGED <<Place(n), Answer(n), raced>>
    BY <1>9, <2>1 DEF ReportTimeouts
  <2>3. CASE n \in Due \ timedOut
    <3>1. n \in waiting /\ n \in P2P /\ n \in timedOut'
      BY <1>9, <2>3 DEF ReportTimeouts, Due
    <3>2. stage[n] \in {"inserted", "pushed"}
      BY <3>1 DEF KnownIsInserted, Known
    <3>3. n \in raced \/ n \notin settled
      BY <3>1, <3>2 DEF WaitsUntilAnswered
    <3>4. Life(n)!TimeOut
      BY <2>2, <2>3, <3>1, <3>2, <3>3 DEF Life!TimeOut
    <3> QED BY <3>4 DEF Life!Next
  <2>4. CASE n \notin Due \ timedOut
    BY <1>9, <2>2, <2>4 DEF ReportTimeouts
  <2> QED BY <2>3, <2>4
<1>10. CASE EraseTimeouts
  <2>1. Queued(n)' <=> Queued(n)
    BY <1>10 DEF EraseTimeouts, Queued
  <2>2. UNCHANGED <<Place(n), Answer(n), timedOut>>
    BY <1>10, <2>1 DEF EraseTimeouts
  <2>3. n \in raced => n \in raced'
    BY <1>10 DEF EraseTimeouts
  <2>4. n \in raced' \ raced => Life(n)!Race
    BY <2>2 DEF Life!Race
  <2> QED BY <2>2, <2>3, <2>4 DEF Life!Next
<1>11. CASE UNCHANGED <<stage, packetsWaitToSend, wire, acks, reports, raced>>
  BY <1>11 DEF Queued
<1>12. ASSUME (\E m \in Messages : Age(m)) \/ Connect \/ Bind \/ UNCHANGED vars
       PROVE UNCHANGED <<stage, packetsWaitToSend, wire, acks, reports, raced>>
  BY <1>12 DEF Age, Connect, Bind, vars
<1> HIDE DEF Step
<1> QED
  BY <1>1, <1>2, <1>3, <1>4, <1>5, <1>6, <1>7, <1>8, <1>9, <1>10, <1>11, <1>12 DEF Next

\* For any messages: each leaves once, its acknowledgement is reported once and
\* only if the server gave one, and its timeout once and not after that, unless
\* its entry was lost in the data race.
THEOREM Implementation == Spec => ImplementsLife
<1>1. Init => \A m \in Messages : Life(m)!Init
  BY DEF Init, Life!Init, Place, Answer
<1>2. LifeInv /\ [Next]_vars =>
        [\A m \in Messages : [Life(m)!Next]_(Life(m)!vars)]_vars
  BY LifeStep
<1> QED BY LifeInvariant, <1>1, <1>2, PTL DEF Spec, ImplementsLife
=============================================================================
