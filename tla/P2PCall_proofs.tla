--------------------------- MODULE P2PCall_proofs ---------------------------
(***************************************************************************)
(* Proofs about P2PCall for any number of requests and any number of       *)
(* events.                                                                 *)
(***************************************************************************)
EXTENDS P2PCall, TLAPS

-----------------------------------------------------------------------------
(* The inductive invariant.                                                 *)

\* Before the call is accepted there is nothing to stop and nothing to close.
WaitingIsClean ==
  call = "waiting" =>
    /\ proc = "none" /\ pc["run"] = "off"
    /\ pc["launch"] \in {"idle", "accepting", "killed"}
    /\ pc["recv"] \notin Starting \union {"netInfo"} \union Updating
    /\ pc["worker"] \in {"idle", "closeCalls"}
    /\ \A t \in Closers : pc[t] \notin {"join", "delete"}
    /\ answered = {} /\ \A l \in Links : conn[l] = "none"

\* Whoever closes the call's links holds mutex_0 until the call is erased, and
\* gMutex while the processor is stopped and deleted.
CloserHoldsMutex ==
  \A t \in Closers :
    /\ pc[t] \in {"links", "stop", "join", "delete", "erase"} => mutex0 = t
    /\ pc[t] \in {"join", "delete"} => gMutex = t

\* Whoever starts the processor holds the locks that its code has taken.
StarterHoldsMutex ==
  /\ pc["launch"] = "accepting" => mutex0 = "launch"
  /\ pc["launch"] = "listing" => gMutex = "launch"
  /\ pc["recv"] \in Starting => mutex0 = "recv"
  /\ pc["recv"] = "listing" => gMutex = "recv"
  /\ pc["recv"] \in {"listing", "start"} => proc = "listed"
  /\ pc["launch"] \in {"listing", "start"} => proc # "none"

\* Whoever deletes the processor has waited for its thread.
DeletesStopped ==
  \A t \in Closers : pc[t] = "delete" =>
    /\ late \/ pc["run"] \in {"off", "ended"}
    /\ pc["run"] \notin {"netSend", "punchSend"}

\* A thread that was started late does not come as far as to send.
SendsOnProcessor ==
  /\ pc["run"] \in {"netSend", "punchSend"} => proc = "listed"
  /\ pc["run"] \notin {"off", "ended"} => proc # "none"

\* Once its session goes the call has no processor, unless it was dropped.
EndedIsStopped ==
  call = "gone" \/ (\E t \in Closers : pc[t] = "erase") =>
    dropped \/ proc # "listed"

\* Whoever stops the processor has closed the links.
StopsWithoutLinks ==
  \A t \in Closers : pc[t] \in {"stop", "join", "delete", "erase"} =>
    dropped \/ \A l \in Links : conn[l] # "open"

\* Who holds a lock is inside the operation that releases it, or is the launch
\* thread and was cancelled there.
HoldersAtWork ==
  /\ mutex0 # "free" =>
       \/ mutex0 \in Closers /\ pc[mutex0] \in {"links", "stop", "join", "delete", "erase"}
       \/ mutex0 = "recv" /\ pc["recv"] \in Starting
       \/ mutex0 = "launch" /\ pc["launch"] \in {"accepting", "killed"}
  /\ gMutex # "free" =>
       \/ gMutex \in Closers /\ pc[gMutex] \in {"join", "delete", "listing"}
       \/ gMutex = "launch" /\ pc["launch"] \in {"listing", "killed"}
  /\ pc["run"] \in Running \union Updating \union {"off", "ended"}
  /\ pc["worker"] # "join" /\ pc["launch"] # "join"

Control ==
  /\ ProcessorOutlivesThread /\ SessionOutlivesSender /\ LinksAreKnown
  /\ WaitingIsClean /\ CloserHoldsMutex /\ StarterHoldsMutex /\ DeletesStopped
  /\ SendsOnProcessor /\ EndedIsStopped /\ StopsWithoutLinks /\ HoldersAtWork

IInv == TypeOK /\ Control

-----------------------------------------------------------------------------
\* Raising one flag leaves a function of flags.
LEMMA FlagSet ==
  ASSUME NEW S, NEW f \in [S -> BOOLEAN], NEW l
  PROVE  [f EXCEPT ![l] = TRUE] \in [S -> BOOLEAN]
BY Zenon

\* Every step keeps the types.
LEMMA NextType == TypeOK /\ [Next]_vars => TypeOK'
<1> SUFFICES ASSUME TypeOK, [Next]_vars PROVE TypeOK'
  OBVIOUS
<1> USE CountsAssumption DEF TypeOK, At, Goto, Move, Event, Threads, Closers, Holders, Labels,
      Closing, Starting, Handling, Running, Updating, P2PState, START, NET_DETECT,
      NET_DETECT_TIMEOUT, NET_DETECT_OK, EXCHANGE, EXCHANGE_TIMEOUT, EXCHANGE_OK,
      PUNCH, PUNCH_TIMEOUT, INTERNET_OK, INTRANET_OK, Links, LinkOK, Packets, NoPacket,
      vars, stateVars, procVars, callVars, netVars
<1>1. CASE TurnDetect
  BY <1>1 DEF TurnDetect, Turn, Update
<1>2. CASE TurnDetected
  BY <1>2 DEF TurnDetected, Turn, Update
<1>3. CASE TurnNoRelay
  BY <1>3 DEF TurnNoRelay, Break, Turn, Update
<1>4. CASE TurnExchange
  BY <1>4 DEF TurnExchange, Turn, Update, Exchanging
<1>5. CASE TurnExchanged
  BY <1>5 DEF TurnExchanged, Turn, Update, Exchanging
<1>6. CASE TurnPunch
  BY <1>6 DEF TurnPunch, Turn, Update, Punching
<1>7. CASE TurnPunched
  BY <1>7 DEF TurnPunched, Turn, Update, Punching
<1>8. CASE TurnStop
  BY <1>8 DEF TurnStop, Turn, Update
<1>9. CASE NetInfoSession
  BY <1>9 DEF NetInfoSession
<1>10. CASE NetInfoSend
  BY <1>10 DEF NetInfoSend, Update
<1>11. CASE PunchSession
  BY <1>11 DEF PunchSession
<1>12. CASE PunchSend
  BY <1>12 DEF PunchSend, Update
<1>13. CASE SendWild
  BY <1>13 DEF SendWild, Break
<1>14. CASE Compare("run")
  BY <1>14 DEF Compare, Update, Return
<1>15. CASE Assign("run")
  BY <1>15 DEF Assign, Return
<1>16. CASE LeaveLoop
  BY <1>16 DEF LeaveLoop
<1>17. CASE Report
  BY <1>17 DEF Report
<1>18. ASSUME NEW t \in {"recv", "launch"}, Insert(t) PROVE TypeOK'
  BY <1>18 DEF Insert
<1>19. ASSUME NEW t \in {"recv", "launch"}, Start(t) PROVE TypeOK'
  <2>1. mStop' \in BOOLEAN /\ late' \in BOOLEAN
    BY <1>19, Zenon DEF Start
  <2> QED BY <1>19, <2>1 DEF Start
<1>20. CASE HandleNetInfo
  BY <1>20 DEF HandleNetInfo, Update
<1>21. CASE Compare("recv")
  BY <1>21 DEF Compare, Update, Return
<1>22. CASE Assign("recv")
  BY <1>22 DEF Assign, Return
<1>23. CASE HandleNetDetectResp
  BY <1>23 DEF HandleNetDetectResp, Update
<1>24. CASE BurrowSession
  BY <1>24 DEF BurrowSession, WorkerRests, Update
<1>25. CASE HandleBurrow
  <2>1. CASE HandleRequest(pkt[2])
    <3>1. pkt[2] \in Links
      BY <2>1 DEF HandleRequest
    <3>2. answered' \subseteq Links
      <4>1. answered' = answered \/ answered' = answered \union {pkt[2]}
        BY <2>1, Zenon DEF HandleRequest
      <4>2. answered \subseteq Links
        OBVIOUS
      <4> HIDE DEF TypeOK, Links
      <4> QED BY <3>1, <4>1, <4>2
    <3>3. peerWan' \in BOOLEAN
      BY <1>25, Zenon DEF HandleBurrow
    <3>4. pkt' \in Packets /\ pc' \in [Threads -> Labels]
      BY <2>1 DEF HandleRequest, WorkerRests
    <3> HIDE DEF Links, Packets, Labels, Threads
    <3> QED BY <1>25, <2>1, <3>2, <3>3, <3>4 DEF HandleBurrow, HandleRequest
  <2>2. CASE HandleResponse(pkt[2])
    BY <1>25, <2>2 DEF HandleBurrow, HandleResponse, WorkerRests, Update
  <2> QED BY <1>25, <2>1, <2>2 DEF HandleBurrow
<1>26. CASE SetBurrowState
  <2>1. burrowed' \in [Links -> BOOLEAN]
    BY <1>26, FlagSet DEF SetBurrowState
  <2>2. pkt' \in Packets /\ pc' \in [Threads -> Labels]
    BY <1>26 DEF SetBurrowState, WorkerRests
  <2> HIDE DEF Links, Packets, Labels, Threads
  <2> QED BY <1>26, <2>1, <2>2 DEF SetBurrowState
<1>27. CASE Compare("worker")
  BY <1>27 DEF Compare, Update, Return
<1>28. CASE Assign("worker")
  BY <1>28 DEF Assign, Return
<1>29. CASE CloseCalls
  <2>1. CASE UNCHANGED <<callVars, dropped>> /\ Goto("worker", "idle")
    BY <1>29, <2>1 DEF CloseCalls
  <2>2. CASE KillLaunch([pc EXCEPT !["worker"] = "idle"]) /\ Forget(TRUE) /\ mutex0' = mutex0
    BY <1>29, <2>2 DEF CloseCalls, KillLaunch, Forget
  <2> HIDE DEF TypeOK, Goto, callVars, Links, Threads, Labels
  <2> QED BY <1>29, <2>1, <2>2 DEF CloseCalls
<1>30. CASE CreateResponse
  BY <1>30 DEF CreateResponse
<1>31. CASE Register
  BY <1>31 DEF Register
<1>32. CASE LaunchAccept
  BY <1>32 DEF LaunchAccept
<1>52. CASE LaunchLock
  BY <1>52 DEF LaunchLock
<1>53. CASE LaunchRefuse
  BY <1>53 DEF LaunchRefuse
<1>54. CASE LaunchGone
  BY <1>54 DEF LaunchGone
<1>33. CASE DetectResp
  BY <1>33 DEF DetectResp, Receive
<1>34. CASE NetInfo
  BY <1>34 DEF NetInfo, Receive
<1>35. ASSUME NEW k \in {"request", "response"}, NEW l \in Links, BurrowPacket(<<k, l>>) PROVE TypeOK'
  BY <1>35 DEF BurrowPacket, Receive
<1>36. ASSUME NEW l \in Links, Connected(l) PROVE TypeOK'
  <2>1. connId' \in [Links -> BOOLEAN]
    BY <1>36, FlagSet DEF Connected
  <2> QED BY <1>36, <2>1 DEF Connected
<1>37. ASSUME NEW l \in Links, ConnEnds(l) PROVE TypeOK'
  BY <1>37 DEF ConnEnds
<1>38. ASSUME NEW l \in Links, ConnLost(l) PROVE TypeOK'
  BY <1>38 DEF ConnLost
<1>39. CASE RelayLost
  <2>1. relay' \in BOOLEAN
    BY <1>39, Zenon DEF RelayLost
  <2> QED BY <1>39, <2>1 DEF RelayLost
<1>40. CASE ClearCalls
  BY <1>40 DEF ClearCalls, Forget
<1>41. ASSUME NEW t \in Closers, Close(t) PROVE TypeOK'
  BY <1>41 DEF Close
<1>42. CASE ByeResponse
  BY <1>42 DEF ByeResponse
<1>43. CASE Logout
  BY <1>43 DEF Logout, KillLaunch
<1>44. ASSUME NEW t \in Closers, Cancel(t) PROVE TypeOK'
  BY <1>44 DEF Cancel, KillLaunch
<1>45. ASSUME NEW t \in Closers, CloseLock(t) PROVE TypeOK'
  BY <1>45 DEF CloseLock
<1>46. ASSUME NEW t \in Closers, CloseLinks(t) PROVE TypeOK'
  BY <1>46 DEF CloseLinks
<1>47. ASSUME NEW t \in Closers, StopP2P(t) PROVE TypeOK'
  BY <1>47 DEF StopP2P
<1>48. ASSUME NEW t \in Closers, Join(t) PROVE TypeOK'
  BY <1>48 DEF Join
<1>55. ASSUME NEW t \in {"recv", "launch"}, Listed(t) PROVE TypeOK'
  BY <1>55 DEF Listed
<1>56. ASSUME NEW t \in Closers, Delete(t) PROVE TypeOK'
  BY <1>56 DEF Delete
<1>49. ASSUME NEW t \in Closers, EraseCall(t) PROVE TypeOK'
  BY <1>49 DEF EraseCall, Forget
<1>50. CASE Break
  BY <1>50 DEF Break
<1>51. CASE UNCHANGED vars
  BY <1>51
<1> HIDE DEF TypeOK, At, Goto, Move, Event, vars, stateVars, procVars, callVars, netVars
<1> QED
  BY <1>1, <1>2, <1>3, <1>4, <1>5, <1>6, <1>7, <1>8, <1>9, <1>10, <1>11,
     <1>12, <1>13, <1>14, <1>15, <1>16, <1>17, <1>18, <1>19, <1>20, <1>21,
     <1>22, <1>23, <1>24, <1>25, <1>26, <1>27, <1>28, <1>29, <1>30, <1>31,
     <1>32, <1>33, <1>34, <1>35, <1>36, <1>37, <1>38, <1>39, <1>40, <1>41,
     <1>42, <1>43, <1>44, <1>45, <1>46, <1>47, <1>48, <1>49, <1>50, <1>51,
     <1>52, <1>53, <1>54, <1>55, <1>56, Zenon
     DEF Next, Run, Turns, Launch, LaunchHolding, Recv, Worker, Handle, Events, Continue,
         DetectNoRelay, ConnectedWild

\* Every step keeps the rest of the invariant.
LEMMA NextControl == IInv /\ [Next]_vars => Control'
<1> SUFFICES ASSUME IInv, [Next]_vars PROVE Control'
  OBVIOUS
<1>f. Control /\ pc \in [Threads -> Labels] /\ call \in {"waiting", "running", "gone"}
     /\ conn \in [Links -> {"none", "creating", "open", "closing"}] /\ connId \in [Links -> BOOLEAN]
     /\ gMutex \in Holders \union {"free"} /\ mutex0 \in Holders \union {"free"}
     /\ proc \in {"none", "listed", "deleted"}
  BY DEF TypeOK, IInv
<1> USE <1>f DEF At, Goto, Move, Threads, Links, vars, stateVars, procVars,
      callVars, netVars, Closers, Holders, Starting, Updating, Control, ProcessorOutlivesThread,
      SessionOutlivesSender, LinksAreKnown, WaitingIsClean, CloserHoldsMutex,
      StarterHoldsMutex, DeletesStopped, SendsOnProcessor, EndedIsStopped,
      StopsWithoutLinks, HoldersAtWork, Running
<1>1. CASE TurnDetect
  BY <1>1 DEF TurnDetect, Turn, Update
<1>2. CASE TurnDetected
  BY <1>2 DEF TurnDetected, Turn, Update
<1>3. CASE TurnNoRelay
  BY <1>3 DEF TurnNoRelay, Break, Turn, Update
<1>4. CASE TurnExchange
  BY <1>4 DEF TurnExchange, Turn, Update, Exchanging
<1>5. CASE TurnExchanged
  BY <1>5 DEF TurnExchanged, Turn, Update, Exchanging
<1>6. CASE TurnPunch
  BY <1>6 DEF TurnPunch, Turn, Update, Punching
<1>7. CASE TurnPunched
  BY <1>7 DEF TurnPunched, Turn, Update, Punching
<1>8. CASE TurnStop
  BY <1>8 DEF TurnStop, Turn, Update
<1>9. CASE ~Wild("run") /\ NetInfoSession
  BY <1>9 DEF NetInfoSession, Wild
<1>10. CASE NetInfoSend
  BY <1>10 DEF NetInfoSend, Update
<1>11. CASE ~Wild("run") /\ PunchSession
  BY <1>11 DEF PunchSession, Wild
<1>12. CASE PunchSend
  BY <1>12 DEF PunchSend, Update
<1>13. CASE SendWild
  BY <1>13 DEF SendWild, Break
<1>14. CASE Compare("run")
  BY <1>14 DEF Compare, Update, Return
<1>15. CASE Assign("run")
  BY <1>15 DEF Assign, Return
<1>16. CASE LeaveLoop
  BY <1>16 DEF LeaveLoop
<1>17. CASE Report
  BY <1>17 DEF Report
<1>18. ASSUME NEW t \in {"recv", "launch"}, Insert(t) PROVE Control'
  BY <1>18 DEF Insert
<1>19. ASSUME NEW t \in {"recv", "launch"}, Start(t) PROVE Control'
  <2>1. /\ pc[t] = "start" /\ pc' = [pc EXCEPT ![t] = "idle", !["run"] = "loop"]
        /\ late' = (late \/ proc = "deleted" \/ \E u \in Closers : pc[u] = "delete")
        /\ mutex0' = IF mutex0 = t THEN "free" ELSE mutex0
    BY <1>19 DEF Start
  <2>2. UNCHANGED <<proc, gMutex, call, conn, connId, answered, dropped>>
    BY <1>19 DEF Start
  <2>3. proc # "none" /\ call # "waiting"
    BY <1>19, <2>1
  <2>4. CloserHoldsMutex' /\ StarterHoldsMutex' /\ HoldersAtWork'
    BY <1>19, <2>1, <2>2
  <2>5. DeletesStopped' /\ ProcessorOutlivesThread'
    BY <1>19, <2>1, <2>2, <2>3
  <2> QED BY <1>19, <2>1, <2>2, <2>3, <2>4, <2>5
<1>20. CASE HandleNetInfo
  BY <1>20 DEF HandleNetInfo, Update
<1>21. CASE Compare("recv")
  BY <1>21 DEF Compare, Update, Return
<1>22. CASE Assign("recv")
  BY <1>22 DEF Assign, Return
<1>23. CASE HandleNetDetectResp
  BY <1>23 DEF HandleNetDetectResp, Update
<1>24. CASE BurrowSession
  BY <1>24 DEF BurrowSession, WorkerRests, Update
<1>25. CASE HandleBurrow
  BY <1>25 DEF HandleBurrow, HandleRequest, HandleResponse, WorkerRests, Update
<1>26. CASE SetBurrowState
  BY <1>26 DEF SetBurrowState, WorkerRests
<1>27. CASE Compare("worker")
  BY <1>27 DEF Compare, Update, Return
<1>28. CASE Assign("worker")
  BY <1>28 DEF Assign, Return
<1>29. CASE CloseCalls
  BY <1>29 DEF CloseCalls, KillLaunch, Forget
<1>30. CASE CreateResponse
  BY <1>30 DEF CreateResponse
<1>31. CASE Register
  BY <1>31 DEF Register
<1>32. CASE LaunchAccept
  BY <1>32 DEF LaunchAccept
<1>52. CASE LaunchLock
  BY <1>52 DEF LaunchLock
<1>53. CASE LaunchRefuse
  BY <1>53 DEF LaunchRefuse
<1>54. CASE LaunchGone
  BY <1>54 DEF LaunchGone
<1>33. CASE DetectResp
  BY <1>33 DEF DetectResp, Receive
<1>34. CASE NetInfo
  BY <1>34 DEF NetInfo, Receive
<1>35. ASSUME NEW k \in {"request", "response"}, NEW l \in Links, BurrowPacket(<<k, l>>) PROVE Control'
  BY <1>35 DEF BurrowPacket, Receive
<1>36. ASSUME NEW l \in Links, Connected(l) PROVE Control'
  BY <1>36 DEF Connected, Made
<1>37. ASSUME NEW l \in Links, ConnEnds(l) PROVE Control'
  BY <1>37 DEF ConnEnds
<1>38. ASSUME NEW l \in Links, ConnLost(l) PROVE Control'
  BY <1>38 DEF ConnLost
<1>39. CASE RelayLost
  BY <1>39 DEF RelayLost
<1>40. CASE ClearCalls
  BY <1>40 DEF ClearCalls, Forget
<1>41. ASSUME NEW t \in Closers, Close(t) PROVE Control'
  BY <1>41 DEF Close
<1>42. CASE ByeResponse
  BY <1>42 DEF ByeResponse
<1>43. CASE Logout
  BY <1>43 DEF Logout, KillLaunch
<1>44. ASSUME NEW t \in Closers, Cancel(t) PROVE Control'
  BY <1>44 DEF Cancel, KillLaunch
<1>45. ASSUME NEW t \in Closers, CloseLock(t) PROVE Control'
  BY <1>45 DEF CloseLock
<1>46. ASSUME NEW t \in Closers, CloseLinks(t) PROVE Control'
  BY <1>46 DEF CloseLinks
<1>47. ASSUME NEW t \in Closers, StopP2P(t) PROVE Control'
  BY <1>47 DEF StopP2P
<1>48. ASSUME NEW t \in Closers, Join(t) PROVE Control'
  BY <1>48 DEF Join
<1>55. ASSUME NEW t \in {"recv", "launch"}, Listed(t) PROVE Control'
  BY <1>55 DEF Listed
<1>56. ASSUME NEW t \in Closers, Delete(t) PROVE Control'
  BY <1>56 DEF Delete
<1>49. ASSUME NEW t \in Closers, EraseCall(t) PROVE Control'
  BY <1>49 DEF EraseCall, Forget
<1>50. CASE Break
  BY <1>50 DEF Break
<1>51. CASE UNCHANGED vars
  BY <1>51
<1> HIDE DEF At, Goto, Move, vars, stateVars, procVars, callVars, netVars
<1> QED
  BY <1>1, <1>2, <1>3, <1>4, <1>5, <1>6, <1>7, <1>8, <1>9, <1>10, <1>11,
     <1>12, <1>13, <1>14, <1>15, <1>16, <1>17, <1>18, <1>19, <1>20, <1>21,
     <1>22, <1>23, <1>24, <1>25, <1>26, <1>27, <1>28, <1>29, <1>30, <1>31,
     <1>32, <1>33, <1>34, <1>35, <1>36, <1>37, <1>38, <1>39, <1>40, <1>41,
     <1>42, <1>43, <1>44, <1>45, <1>46, <1>47, <1>48, <1>49, <1>50, <1>51,
     <1>52, <1>53, <1>54, <1>55, <1>56, Zenon
     DEF Next, Run, Turns, Launch, LaunchHolding, Recv, Worker, Handle, Events, Continue,
         DetectNoRelay, ConnectedWild

-----------------------------------------------------------------------------
\* The processor is not there yet, and nothing was made.
LEMMA InitInv == Init => IInv
<1> SUFFICES ASSUME Init PROVE IInv
  OBVIOUS
<1> USE CountsAssumption DEF Init, Threads, Closers, Holders, Labels, Closing, Starting, Handling,
      Running, Updating, Links, NoPacket, Packets, P2PState, START, INTRANET_OK
<1>1. TypeOK
  <2>1. pc \in [Threads -> Labels]
    OBVIOUS
  <2>2. burrowed \in [Links -> BOOLEAN] /\ connId \in [Links -> BOOLEAN]
    OBVIOUS
  <2>3. /\ mStop \in BOOLEAN /\ wan \in BOOLEAN /\ peerWan \in BOOLEAN
        /\ relay \in BOOLEAN /\ dropped \in BOOLEAN /\ broken \in BOOLEAN
        /\ creator \in BOOLEAN /\ late \in BOOLEAN
    BY Zenon
  <2> QED BY <2>1, <2>2, <2>3 DEF TypeOK
<1>2. Control
  BY DEF Control, ProcessorOutlivesThread, SessionOutlivesSender, LinksAreKnown,
      WaitingIsClean, CloserHoldsMutex, StarterHoldsMutex, DeletesStopped,
      SendsOnProcessor, EndedIsStopped, StopsWithoutLinks, HoldersAtWork
<1> QED BY <1>1, <1>2 DEF IInv

\* The inductive invariant holds of every call.
THEOREM Invariance == Spec => []IInv
<1>1. IInv /\ [Next]_vars => IInv'
  BY NextType, NextControl DEF IInv
<1> QED BY <1>1, InitInv, PTL DEF Spec

\* Type correctness of the direct connections.
THEOREM TypeCorrect == Spec => []TypeOK
<1>1. IInv => TypeOK
  BY DEF IInv
<1> QED BY <1>1, Invariance, PTL

\* stopP2P never deletes a processor whose thread is still running.
THEOREM ProcessorsOutlive == Spec => []ProcessorOutlivesThread
<1>1. IInv => ProcessorOutlivesThread
  BY DEF IInv, Control
<1> QED BY <1>1, Invariance, PTL

\* The P2P thread does not send for a session that was closed.
THEOREM SessionsOutlive == Spec => []SessionOutlivesSender
<1>1. IInv => SessionOutlivesSender
  BY DEF IInv, Control
<1> QED BY <1>1, Invariance, PTL

\* A link that is up belongs to a session that knows it.
THEOREM LinksKnown == Spec => []LinksAreKnown
<1>1. IInv => LinksAreKnown
  BY DEF IInv, Control
<1> QED BY <1>1, Invariance, PTL

\* The locks of a call, the join and the cancelled launch thread make two
\* deadlocks and no other.
THEOREM LocksGoOn == Spec => []OnlyKnownDeadlocks
<1>1. ASSUME IInv, ~JoinDeadlock, ~KilledHolder, NEW t \in Threads, WaitsFor(t) # "free"
      PROVE  LET u == WaitsFor(t)
                 v == WaitsFor(u)
             IN /\ AtWork(u)
                /\ v # "free" => AtWork(v) /\ WaitsFor(v) = "free"
  <2> USE DEF Closers, Threads, Holders
  <2>1. /\ HoldersAtWork /\ CloserHoldsMutex /\ StarterHoldsMutex
        /\ gMutex \in Holders \union {"free"} /\ mutex0 \in Holders \union {"free"}
    BY <1>1 DEF IInv, Control, TypeOK
  <2>2. WaitsFor("run") \in {"free", mutex0}
    BY <2>1 DEF HoldersAtWork, WaitsFor, Running, Updating
  <2>3. ASSUME NEW u \in Closers, pc[u] = "join"
        PROVE  WaitsFor(u) \in {"free", "run"} /\ WaitsFor("run") = "free"
    <3>1. mutex0 = u
      BY <2>1, <2>3 DEF CloserHoldsMutex
    <3>2. WaitsFor("run") = "free"
      BY <1>1, <2>1, <2>3, <3>1 DEF JoinDeadlock, HoldersAtWork, WaitsFor, NeedsMutex0,
                                    Running, Updating
    <3> QED BY <2>3, <3>2 DEF WaitsFor, NeedsMutex0
  <2>4. ASSUME NEW u \in Threads, WaitsFor(u) = "run"
        PROVE  AtWork("run") /\ u \in Closers /\ pc[u] = "join"
    <3>1. pc[u] = "join" /\ pc["run"] \notin {"off", "ended"}
      BY <2>1, <2>4 DEF WaitsFor
    <3>2. u \in Closers
      BY <2>1, <3>1 DEF HoldersAtWork, Running, Updating
    <3> QED BY <2>1, <3>1, <3>2 DEF AtWork, HoldersAtWork, Running, Updating
  <2>5. ASSUME gMutex # "free"
        PROVE  /\ AtWork(gMutex)
               /\ \/ WaitsFor(gMutex) = "free"
                  \/ /\ gMutex \in Closers /\ pc[gMutex] = "join"
                     /\ WaitsFor(gMutex) = "run" /\ WaitsFor("run") = "free"
    <3>1. CASE gMutex \in Closers /\ pc[gMutex] = "join"
      BY <2>3, <3>1 DEF AtWork
    <3>2. CASE pc[gMutex] \in {"delete", "listing"}
      BY <3>2 DEF AtWork, WaitsFor, NeedsMutex0
    <3> QED BY <1>1, <2>1, <2>5, <3>1, <3>2 DEF HoldersAtWork, KilledHolder
  <2>6. ASSUME mutex0 # "free"
        PROVE  /\ AtWork(mutex0)
               /\ \/ WaitsFor(mutex0) = "free"
                  \/ WaitsFor(mutex0) = "run"
                  \/ /\ WaitsFor(mutex0) = gMutex /\ gMutex # "free"
                     /\ pc[mutex0] \in {"stop", "insert"}
    <3>1. pc[mutex0] \in {"links", "stop", "join", "delete", "erase", "insert",
                           "listing", "start", "accepting"}
      BY <1>1, <2>1, <2>6 DEF HoldersAtWork, KilledHolder, Starting
    <3> QED BY <3>1 DEF AtWork, WaitsFor, NeedsMutex0
  <2>7. CASE WaitsFor(t) = "run"
    <3>1. AtWork("run") /\ WaitsFor("run") = "free"
      BY <2>3, <2>4, <2>7
    <3> QED BY <2>7, <3>1
  <2>8. CASE WaitsFor(t) = gMutex
    <3>1. gMutex # "free"
      BY <1>1, <2>8
    <3>2. WaitsFor(gMutex) = "run" => AtWork("run")
      BY <2>1, <2>4, <3>1
    <3> QED BY <2>5, <2>8, <3>1, <3>2
  <2>9. CASE WaitsFor(t) = mutex0
    <3>1. mutex0 # "free" /\ mutex0 \in Threads
      BY <1>1, <2>1, <2>9
    <3>2. CASE WaitsFor(mutex0) = "free"
      BY <2>6, <2>9, <3>1, <3>2
    <3>3. CASE WaitsFor(mutex0) = "run"
      <4>1. AtWork("run") /\ WaitsFor("run") = "free"
        BY <2>3, <2>4, <3>1, <3>3
      <4> QED BY <2>6, <2>9, <3>1, <3>3, <4>1
    <3>4. CASE /\ WaitsFor(mutex0) = gMutex /\ gMutex # "free"
               /\ pc[mutex0] \in {"stop", "insert"}
      <4>1. ~(gMutex \in Closers /\ pc[gMutex] = "join")
        BY <2>1, <3>4 DEF CloserHoldsMutex
      <4>2. AtWork(gMutex) /\ WaitsFor(gMutex) = "free"
        BY <2>5, <3>4, <4>1
      <4> QED BY <2>6, <2>9, <3>1, <3>4, <4>2
    <3> QED BY <2>6, <3>1, <3>2, <3>3, <3>4
  <2>10. WaitsFor(t) \in {"run", gMutex, mutex0}
    BY <1>1 DEF WaitsFor
  <2> QED BY <2>7, <2>8, <2>9, <2>10
<1>2. IInv => OnlyKnownDeadlocks
  BY <1>1 DEF OnlyKnownDeadlocks
<1> QED BY <1>2, Invariance, PTL

\* Closing a call stops its processor and leaves no connection open.
THEOREM NothingIsLeft == Spec => []NothingLeft
<1>1. ASSUME IInv, call = "gone", ~dropped, ~late
      PROVE  /\ proc # "listed" /\ pc["run"] \in {"off", "ended"}
             /\ \A l \in Links : conn[l] # "open"
  <2>1. proc # "listed"
    BY <1>1 DEF IInv, Control, EndedIsStopped
  <2>2. pc["run"] \in {"off", "ended"}
    BY <1>1, <2>1 DEF IInv, Control, ProcessorOutlivesThread
  <2>3. \A l \in Links : conn[l] # "open"
    BY <1>1 DEF IInv, Control, LinksAreKnown
  <2> QED BY <2>1, <2>2, <2>3
<1>2. IInv => NothingLeft
  BY <1>1 DEF NothingLeft
<1> QED BY <1>2, Invariance, PTL

=============================================================================
