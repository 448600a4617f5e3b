------------------------- MODULE RtsHealthy_proofs -------------------------
(***************************************************************************)
(* What RtsCalls keeps only under a condition: that mutex_0 always has an  *)
(* owner while nobody cancels a launch thread, that an accepted call runs  *)
(* if the relay comes up, and that no dialled call ends without a word     *)
(* while the relay stays and the user does not log out.  And without any   *)
(* condition: the only steps that drop a call without a word.              *)
(***************************************************************************)
EXTENDS RtsCalls_proofs

-----------------------------------------------------------------------------
(* The lock.                                                                *)

NobodyCancels == "close" \notin AppOps /\ "BYE" \notin ServerMsgs

NoCancel == \A t \in Threads : pc[t] # "cancel"

LockInv == IInv /\ NoCancel /\ LockHasOwner

\* No step leads to "cancel", and the lock is left only by its owner.
LEMMA NextLock == NobodyCancels /\ LockInv /\ [Next]_vars => NoCancel' /\ LockHasOwner'
<1> SUFFICES ASSUME NobodyCancels, LockInv, [Next]_vars
             PROVE  NoCancel' /\ LockHasOwner'
  OBVIOUS
<1>f. /\ pc \in [Threads -> Labels] /\ lock \in InCalls \union {NoThread}
      /\ after \in [Threads -> {"idle", "refused", "closed", "unregister"}]
      /\ NoCancel /\ LockHasOwner /\ HandlesEntered
  BY DEF LockInv, IInv, TypeOK
<1> USE <1>f, ThreadsAssumption
    DEF NobodyCancels, NoCancel, LockHasOwner, Calls, Threads, callVars, relayVars, threadVars,
        launchVars, outVars, LockFree, Step, Goto, Rest, Resume, CloseThen, Start, Receive
<1>1. ASSUME NEW t \in Threads, Continue(t) PROVE NoCancel' /\ LockHasOwner'
  <2>1. CASE RelayBranch(t)
    BY <2>1 DEF RelayBranch
  <2>2. CASE CreateRelay(t)
    BY <2>2 DEF CreateRelay
  <2>3. ASSUME NEW k \in Conns, OpenRelay(t, k) PROVE NoCancel' /\ LockHasOwner'
    BY <2>3 DEF OpenRelay
  <2>4. CASE OpenRelayFails(t)
    BY <2>4 DEF OpenRelayFails
  <2>5. CASE SetRelay(t)
    BY <2>5 DEF SetRelay
  <2>6. CASE Insert(t)
    BY <2>6 DEF Insert
  <2>7. CASE InsertAndRequest(t)
    BY <2>7 DEF InsertAndRequest
  <2>8. CASE InsertAndLaunch(t)
    BY <2>8 DEF InsertAndLaunch
  <2>9. CASE Register(t)
    BY <2>9 DEF Register
  <2>10. CASE AnswerOk(t)
    BY <2>10 DEF AnswerOk
  <2>11. CASE AnswerFail(t)
    BY <2>11 DEF AnswerFail
  <2>12. CASE Update(t)
    BY <2>12 DEF Update
  <2>13. CASE Cancel(t)
    BY <2>13 DEF Cancel
  <2>14. CASE Delete(t)
    BY <2>14 DEF Delete
  <2>15. CASE CloseRelayWhenNoCall(t)
    BY <2>15 DEF CloseRelayWhenNoCall
  <2>16. CASE DropRelay(t)
    BY <2>16 DEF DropRelay
  <2>17. CASE CallBack(t)
    BY <2>17 DEF CallBack
  <2>18. CASE Clear(t)
    BY <2>18 DEF Clear
  <2>19. CASE Reset(t)
    BY <2>19 DEF Reset
  <2> QED BY <1>1, <2>1, <2>2, <2>3, <2>4, <2>5, <2>6, <2>7, <2>8, <2>9, <2>10,
             <2>11, <2>12, <2>13, <2>14, <2>15, <2>16, <2>17, <2>18, <2>19
             DEF Continue
<1>2. ASSUME NEW t \in AppThreads, Application(t) PROVE NoCancel' /\ LockHasOwner'
  <2>1. ASSUME NEW c \in Calls, DialCall(t, c) PROVE NoCancel' /\ LockHasOwner'
    BY <2>1 DEF DialCall
  <2>2. ASSUME NEW c \in Calls, CloseCall(t, c) PROVE NoCancel' /\ LockHasOwner'
    BY <2>2 DEF CloseCall
  <2>3. CASE Logout(t)
    BY <2>3 DEF Logout
  <2> QED BY <1>2, <2>1, <2>2, <2>3
             DEF Application
<1>3. ASSUME NEW c \in Calls, Server(c) PROVE NoCancel' /\ LockHasOwner'
  <2>1. CASE InviteRequest(c)
    BY <2>1 DEF InviteRequest
  <2>2. CASE InviteBusy(c)
    BY <2>2 DEF InviteBusy
  <2>3. ASSUME NEW ok \in BOOLEAN, CreateResponse(c, ok) PROVE NoCancel' /\ LockHasOwner'
    BY <2>3 DEF CreateResponse
  <2>4. CASE ByeRequest(c)
    BY <2>4 DEF ByeRequest
  <2>5. CASE ByeResponse(c)
    BY <2>5 DEF ByeResponse
  <2>6. CASE UpdateRequest(c)
    BY <2>6 DEF UpdateRequest
  <2>7. ASSUME NEW msg \in GotMsg, DropSignal(msg, c) PROVE NoCancel' /\ LockHasOwner'
    BY <2>7 DEF DropSignal
  <2> QED BY <1>3, <2>1, <2>2, <2>3, <2>4, <2>5, <2>6, <2>7
             DEF Server
<1>4. ASSUME NEW c \in Calls, Age(c) PROVE NoCancel' /\ LockHasOwner'
  BY <1>4 DEF Age
<1>5. ASSUME NEW c \in InCalls, Launch(c) PROVE NoCancel' /\ LockHasOwner'
  <2>1. CASE LaunchBegin(c)
    BY <2>1 DEF LaunchBegin
  <2>2. CASE LaunchLock(c)
    BY <2>2 DEF LaunchLock
  <2>3. CASE LaunchGone(c)
    BY <2>3 DEF LaunchGone
  <2>4. CASE LaunchRefuse(c)
    BY <2>4 DEF LaunchRefuse
  <2>5. CASE LaunchAccept(c)
    BY <2>5 DEF LaunchAccept
  <2>6. CASE LaunchRunning(c)
    BY <2>6 DEF LaunchRunning
  <2>7. CASE LaunchP2P(c)
    BY <2>7 DEF LaunchP2P
  <2>8. CASE Unregister(c)
    BY <2>8 DEF Unregister
  <2> QED BY <1>5, <2>1, <2>2, <2>3, <2>4, <2>5, <2>6, <2>7, <2>8
             DEF Launch
<1>6. CASE RtsScan
  BY <1>6 DEF RtsScan
<1>7. CASE RelayScan
  BY <1>7 DEF RelayScan
<1>8. CASE Transport
  <2>1. ASSUME NEW k \in Conns, ConnCreateSucc(k) PROVE NoCancel' /\ LockHasOwner'
    BY <2>1 DEF ConnCreateSucc
  <2>2. ASSUME NEW k \in Conns, ConnCreateFail(k) PROVE NoCancel' /\ LockHasOwner'
    BY <2>2 DEF ConnCreateFail
  <2>3. ASSUME NEW k \in Conns, ConnClosed(k) PROVE NoCancel' /\ LockHasOwner'
    BY <2>3 DEF ConnClosed
  <2>4. ASSUME NEW k \in Conns, BindSucc(k) PROVE NoCancel' /\ LockHasOwner'
    BY <2>4 DEF BindSucc
  <2>5. ASSUME NEW k \in Conns, BindFail(k) PROVE NoCancel' /\ LockHasOwner'
    BY <2>5 DEF BindFail
  <2>6. ASSUME NEW k \in Conns, ConnLost(k) PROVE NoCancel' /\ LockHasOwner'
    BY <2>6 DEF ConnLost
  <2>7. ASSUME NEW c \in Calls, P2PConnected(c) PROVE NoCancel' /\ LockHasOwner'
    BY <2>7 DEF P2PConnected
  <2>8. ASSUME NEW c \in Calls, P2PConnLost(c) PROVE NoCancel' /\ LockHasOwner'
    BY <2>8 DEF P2PConnLost
  <2>9. CASE Flush
    BY <2>9 DEF Flush
  <2>10. CASE CloseCalls
    BY <2>10 DEF CloseCalls
  <2>11. CASE KeepCalls
    BY <2>11 DEF KeepCalls
  <2> QED BY <1>8, <2>1, <2>2, <2>3, <2>4, <2>5, <2>6, <2>7, <2>8, <2>9, <2>10,
             <2>11
             DEF Transport
<1>9. CASE UNCHANGED vars
  BY <1>9 DEF vars
<1> QED BY <1>1, <1>2, <1>3, <1>4, <1>5, <1>6, <1>7, <1>8, <1>9 DEF Next

\* Without hanging up, the write lock is held only by a launch thread that
\* releases it.
THEOREM LockIsOwned ==
  ASSUME NobodyCancels
  PROVE  Spec => []LockHasOwner
<1>1. Init => LockInv
  <2> SUFFICES ASSUME Init PROVE LockInv
    OBVIOUS
  <2>1. NoCancel /\ LockHasOwner
    BY DEF Init, NoCancel, LockHasOwner
  <2> QED BY <2>1, InitInv DEF LockInv
<1>2. LockInv /\ [Next]_vars => LockInv'
  BY NextInv, NextLock DEF LockInv
<1>3. LockInv => LockHasOwner
  BY DEF LockInv
<1> QED BY <1>1, <1>2, <1>3, PTL DEF Spec

-----------------------------------------------------------------------------
(* The calls.                                                               *)

\* A relay that is asked for comes up; it may be lost later.
RelayComesUp == \A fault \in {"connect", "stall", "bind"} : fault \notin RelayFaults

\* It also stays, there are no direct connections, and the user stays logged in.
Healthy == /\ RelayComesUp /\ "lost" \notin RelayFaults
           /\ "logout" \notin AppOps /\ ~P2PEnabled

\* Nothing clears the table.
NothingClears == \A t \in Threads : pc[t] # "clear"

\* Nothing closes calls for want of a relay.
NothingCloses ==
  /\ \A t \in Threads : pc[t] # "closeCalls"
  /\ \A c \in Calls : p2p[c] = "off"

Launching == {"begin", "ask", "locked", "accepting", "startP2P", "unregister",
              "closeRelay", "dropRelay"}

\* A launch thread works on its own call and reports no end.
LaunchesOwn ==
  \A c \in InCalls :
    /\ pc[c] \in Launching \union {"idle"}
    /\ pc[c] \in Launching => /\ arg[c] = c /\ birth[c] = "entered"
                              /\ call[c] # "WAIT_CALL_ONLAUNCHED"
    /\ after[c] \in {"idle", "unregister"}

\* Thread t is about to report the end of call c.
Tells(t, c) ==
  /\ arg[t] = c
  /\ pc[t] \in Terminal \/ (pc[t] \in {"closeRelay", "dropRelay"} /\ after[t] \in Terminal)

Settled(c) == Ended(c) \/ \E t \in Threads : Tells(t, c)

\* A dialled call that is gone was, or will be, reported.
GoneIsSettled ==
  \A c \in OutCalls : Stage(c) = "gone" => Settled(c)

\* An invitation is accepted once.
AcceptedOnce ==
  \A c \in InCalls : <<"INVITE_OK", c>> \in sent =>
    /\ birth[c] = "entered" /\ call[c] # "WAIT_CALL_ONLAUNCHED"
    /\ pc[c] \notin {"begin", "ask", "locked"}

\* An accepted call is running, or its end was, or will be, reported.
Followed(c) ==
  \/ call[c] = "RUNNING" \/ pc[c] = "accepting"
  \/ <<"BYE", c>> \in sent \union got
  \/ Settled(c)
  \/ \E t \in Threads : pc[t] = "delete" /\ arg[t] = c

KeepsAccepted(c) == <<"INVITE_OK", c>> \in sent => Followed(c)
AcceptedIsSettled == \A c \in InCalls : KeepsAccepted(c)

\* Where calls are dropped: clearCurrentCallsMap; and of the calls that were not
\* answered, logout and checkAndCloseCalls.
ClearStep == \E t \in Threads : Clear(t)
DropsWaiting == CloseCalls \/ \E t \in AppThreads : Logout(t)

CallInv == IInv /\ LaunchesOwn /\ AcceptedOnce
AcceptInv == CallInv /\ NothingClears /\ AcceptedIsSettled
GoneInv == CallInv /\ NothingClears /\ NothingCloses /\ GoneIsSettled

\* No step leads to the clearing of the table.
LEMMA NextClears == RelayComesUp /\ CallInv /\ NothingClears /\ [Next]_vars => NothingClears'
<1> SUFFICES ASSUME RelayComesUp, CallInv, NothingClears, [Next]_vars PROVE NothingClears'
  OBVIOUS
<1>f. /\ pc \in [Threads -> Labels] /\ call \in [Calls -> CallState]
      /\ arg \in [Threads -> Calls \union {NoCall}]
      /\ after \in [Threads -> {"idle", "refused", "closed", "unregister"}]
      /\ p2p \in [Calls -> {"off", "trying", "up"}] /\ NothingClears /\ HandlesEntered
      /\ LaunchesOwn
  BY DEF CallInv, IInv, TypeOK
<1> USE <1>f, ThreadsAssumption, CallsAssumption
    DEF RelayComesUp, Calls, Threads, Labels, Entering, Callbacks, callVars, relayVars,
        threadVars, launchVars, outVars, LockFree, Step, Goto, Rest, Resume, CloseThen,
        Start, NothingClears, HandlesEntered, LaunchesOwn,
        Launching, StartP2P, Remove, Erase, Enter, Advance, Receive
<1>1. ASSUME NEW t \in Threads, Continue(t) PROVE NothingClears'
  <2>1. CASE RelayBranch(t)
    BY <2>1 DEF RelayBranch
  <2>2. CASE CreateRelay(t)
    BY <2>2 DEF CreateRelay
  <2>3. ASSUME NEW k \in Conns, OpenRelay(t, k) PROVE NothingClears'
    BY <2>3 DEF OpenRelay
  <2>4. CASE OpenRelayFails(t)
    BY <2>4 DEF OpenRelayFails
  <2>5. CASE SetRelay(t)
    BY <2>5 DEF SetRelay
  <2>6. CASE Insert(t)
    BY <2>6 DEF Insert
  <2>7. CASE InsertAndRequest(t)
    BY <2>7 DEF InsertAndRequest
  <2>8. CASE InsertAndLaunch(t)
    BY <2>8 DEF InsertAndLaunch
  <2>9. CASE Register(t)
    BY <2>9 DEF Register
  <2>10. CASE AnswerOk(t)
    BY <2>10 DEF AnswerOk
  <2>11. CASE AnswerFail(t)
    BY <2>11 DEF AnswerFail
  <2>12. CASE Update(t)
    BY <2>12 DEF Update
  <2>13. CASE Cancel(t)
    BY <2>13 DEF Cancel
  <2>14. CASE Delete(t)
    BY <2>14 DEF Delete
  <2>15. CASE CloseRelayWhenNoCall(t)
    BY <2>15 DEF CloseRelayWhenNoCall
  <2>16. CASE DropRelay(t)
    BY <2>16 DEF DropRelay
  <2>17. CASE CallBack(t)
    BY <2>17 DEF CallBack
  <2>18. CASE Clear(t)
    BY <2>18 DEF Clear
  <2>19. CASE Reset(t)
    BY <2>19 DEF Reset
  <2> QED BY <1>1, <2>1, <2>2, <2>3, <2>4, <2>5, <2>6, <2>7, <2>8, <2>9, <2>10,
             <2>11, <2>12, <2>13, <2>14, <2>15, <2>16, <2>17, <2>18, <2>19
             DEF Continue
<1>2. ASSUME NEW t \in AppThreads, Application(t) PROVE NothingClears'
  <2>1. ASSUME NEW c \in Calls, DialCall(t, c) PROVE NothingClears'
    BY <2>1 DEF DialCall
  <2>2. ASSUME NEW c \in Calls, CloseCall(t, c) PROVE NothingClears'
    BY <2>2 DEF CloseCall
  <2>3. CASE Logout(t)
    BY <2>3 DEF Logout
  <2> QED BY <1>2, <2>1, <2>2, <2>3
             DEF Application
<1>3. ASSUME NEW c \in Calls, Server(c) PROVE NothingClears'
  <2>1. CASE InviteRequest(c)
    BY <2>1 DEF InviteRequest
  <2>2. CASE InviteBusy(c)
    BY <2>2 DEF InviteBusy
  <2>3. ASSUME NEW ok \in BOOLEAN, CreateResponse(c, ok) PROVE NothingClears'
    BY <2>3 DEF CreateResponse
  <2>4. CASE ByeRequest(c)
    BY <2>4 DEF ByeRequest
  <2>5. CASE ByeResponse(c)
    BY <2>5 DEF ByeResponse
  <2>6. CASE UpdateRequest(c)
    BY <2>6 DEF UpdateRequest
  <2>7. ASSUME NEW msg \in GotMsg, DropSignal(msg, c) PROVE NothingClears'
    BY <2>7 DEF DropSignal
  <2> QED BY <1>3, <2>1, <2>2, <2>3, <2>4, <2>5, <2>6, <2>7
             DEF Server
<1>4. ASSUME NEW c \in Calls, Age(c) PROVE NothingClears'
  BY <1>4 DEF Age
<1>5. ASSUME NEW c \in InCalls, Launch(c) PROVE NothingClears'
  <2>1. CASE LaunchBegin(c)
    BY <2>1 DEF LaunchBegin
  <2>2. CASE LaunchLock(c)
    BY <2>2 DEF LaunchLock
  <2>3. CASE LaunchGone(c)
    BY <2>3 DEF LaunchGone
  <2>4. CASE LaunchRefuse(c)
    BY <2>4 DEF LaunchRefuse
  <2>5. CASE LaunchAccept(c)
    BY <2>5 DEF LaunchAccept
  <2>6. CASE LaunchRunning(c)
    BY <2>6 DEF LaunchRunning
  <2>7. CASE LaunchP2P(c)
    BY <2>7 DEF LaunchP2P
  <2>8. CASE Unregister(c)
    BY <2>8 DEF Unregister
  <2> QED BY <1>5, <2>1, <2>2, <2>3, <2>4, <2>5, <2>6, <2>7, <2>8
             DEF Launch
<1>6. CASE RtsScan
  BY <1>6 DEF RtsScan
<1>7. CASE RelayScan
  BY <1>7 DEF RelayScan
<1>8. CASE Transport
  <2>1. ASSUME NEW k \in Conns, ConnCreateSucc(k) PROVE NothingClears'
    BY <2>1 DEF ConnCreateSucc
  <2>2. ASSUME NEW k \in Conns, ConnCreateFail(k) PROVE NothingClears'
    BY <2>2 DEF ConnCreateFail
  <2>3. ASSUME NEW k \in Conns, ConnClosed(k) PROVE NothingClears'
    BY <2>3 DEF ConnClosed
  <2>4. ASSUME NEW k \in Conns, BindSucc(k) PROVE NothingClears'
    BY <2>4 DEF BindSucc
  <2>5. ASSUME NEW k \in Conns, BindFail(k) PROVE NothingClears'
    BY <2>5 DEF BindFail
  <2>6. ASSUME NEW k \in Conns, ConnLost(k) PROVE NothingClears'
    BY <2>6 DEF ConnLost
  <2>7. ASSUME NEW c \in Calls, P2PConnected(c) PROVE NothingClears'
    BY <2>7 DEF P2PConnected
  <2>8. ASSUME NEW c \in Calls, P2PConnLost(c) PROVE NothingClears'
    BY <2>8 DEF P2PConnLost
  <2>9. CASE Flush
    BY <2>9 DEF Flush
  <2>10. CASE CloseCalls
    BY <2>10 DEF CloseCalls
  <2>11. CASE KeepCalls
    BY <2>11 DEF KeepCalls
  <2> QED BY <1>8, <2>1, <2>2, <2>3, <2>4, <2>5, <2>6, <2>7, <2>8, <2>9, <2>10,
             <2>11
             DEF Transport
<1>9. CASE UNCHANGED vars
  BY <1>9 DEF vars
<1> QED BY <1>1, <1>2, <1>3, <1>4, <1>5, <1>6, <1>7, <1>8, <1>9 DEF Next

\* With a relay that stays no step leads to the closing of the calls.
LEMMA NextCloses == Healthy /\ CallInv /\ NothingCloses /\ [Next]_vars => NothingCloses'
<1> SUFFICES ASSUME Healthy, CallInv, NothingCloses, [Next]_vars PROVE NothingCloses'
  OBVIOUS
<1>f. /\ pc \in [Threads -> Labels] /\ call \in [Calls -> CallState]
      /\ arg \in [Threads -> Calls \union {NoCall}]
      /\ after \in [Threads -> {"idle", "refused", "closed", "unregister"}]
      /\ p2p \in [Calls -> {"off", "trying", "up"}] /\ NothingCloses /\ HandlesEntered
      /\ LaunchesOwn
  BY DEF CallInv, IInv, TypeOK
<1> USE <1>f, ThreadsAssumption, CallsAssumption
    DEF Healthy, Calls, Threads, Labels, Entering, Callbacks, callVars, relayVars,
        threadVars, launchVars, outVars, LockFree, Step, Goto, Rest, Resume, CloseThen,
        Start, NothingCloses, HandlesEntered, LaunchesOwn,
        Launching, StartP2P, Remove, Erase, Enter, Advance, Receive
<1>1. ASSUME NEW t \in Threads, Continue(t) PROVE NothingCloses'
  <2>1. CASE RelayBranch(t)
    BY <2>1 DEF RelayBranch
  <2>2. CASE CreateRelay(t)
    BY <2>2 DEF CreateRelay
  <2>3. ASSUME NEW k \in Conns, OpenRelay(t, k) PROVE NothingCloses'
    BY <2>3 DEF OpenRelay
  <2>4. CASE OpenRelayFails(t)
    BY <2>4 DEF OpenRelayFails
  <2>5. CASE SetRelay(t)
    BY <2>5 DEF SetRelay
  <2>6. CASE Insert(t)
    BY <2>6 DEF Insert
  <2>7. CASE InsertAndRequest(t)
    BY <2>7 DEF InsertAndRequest
  <2>8. CASE InsertAndLaunch(t)
    BY <2>8 DEF InsertAndLaunch
  <2>9. CASE Register(t)
    BY <2>9 DEF Register
  <2>10. CASE AnswerOk(t)
    BY <2>10 DEF AnswerOk
  <2>11. CASE AnswerFail(t)
    BY <2>11 DEF AnswerFail
  <2>12. CASE Update(t)
    BY <2>12 DEF Update
  <2>13. CASE Cancel(t)
    BY <2>13 DEF Cancel
  <2>14. CASE Delete(t)
    BY <2>14 DEF Delete
  <2>15. CASE CloseRelayWhenNoCall(t)
    BY <2>15 DEF CloseRelayWhenNoCall
  <2>16. CASE DropRelay(t)
    BY <2>16 DEF DropRelay
  <2>17. CASE CallBack(t)
    BY <2>17 DEF CallBack
  <2>18. CASE Clear(t)
    BY <2>18 DEF Clear
  <2>19. CASE Reset(t)
    BY <2>19 DEF Reset
  <2> QED BY <1>1, <2>1, <2>2, <2>3, <2>4, <2>5, <2>6, <2>7, <2>8, <2>9, <2>10,
             <2>11, <2>12, <2>13, <2>14, <2>15, <2>16, <2>17, <2>18, <2>19
             DEF Continue
<1>2. ASSUME NEW t \in AppThreads, Application(t) PROVE NothingCloses'
  <2>1. ASSUME NEW c \in Calls, DialCall(t, c) PROVE NothingCloses'
    BY <2>1 DEF DialCall
  <2>2. ASSUME NEW c \in Calls, CloseCall(t, c) PROVE NothingCloses'
    BY <2>2 DEF CloseCall
  <2>3. CASE Logout(t)
    BY <2>3 DEF Logout
  <2> QED BY <1>2, <2>1, <2>2, <2>3
             DEF Application
<1>3. ASSUME NEW c \in Calls, Server(c) PROVE NothingCloses'
  <2>1. CASE InviteRequest(c)
    BY <2>1 DEF InviteRequest
  <2>2. CASE InviteBusy(c)
    BY <2>2 DEF InviteBusy
  <2>3. ASSUME NEW ok \in BOOLEAN, CreateResponse(c, ok) PROVE NothingCloses'
    BY <2>3 DEF CreateResponse
  <2>4. CASE ByeRequest(c)
    BY <2>4 DEF ByeRequest
  <2>5. CASE ByeResponse(c)
    BY <2>5 DEF ByeResponse
  <2>6. CASE UpdateRequest(c)
    BY <2>6 DEF UpdateRequest
  <2>7. ASSUME NEW msg \in GotMsg, DropSignal(msg, c) PROVE NothingCloses'
    BY <2>7 DEF DropSignal
  <2> QED BY <1>3, <2>1, <2>2, <2>3, <2>4, <2>5, <2>6, <2>7
             DEF Server
<1>4. ASSUME NEW c \in Calls, Age(c) PROVE NothingCloses'
  BY <1>4 DEF Age
<1>5. ASSUME NEW c \in InCalls, Launch(c) PROVE NothingCloses'
  <2>1. CASE LaunchBegin(c)
    BY <2>1 DEF LaunchBegin
  <2>2. CASE LaunchLock(c)
    BY <2>2 DEF LaunchLock
  <2>3. CASE LaunchGone(c)
    BY <2>3 DEF LaunchGone
  <2>4. CASE LaunchRefuse(c)
    BY <2>4 DEF LaunchRefuse
  <2>5. CASE LaunchAccept(c)
    BY <2>5 DEF LaunchAccept
  <2>6. CASE LaunchRunning(c)
    BY <2>6 DEF LaunchRunning
  <2>7. CASE LaunchP2P(c)
    BY <2>7 DEF LaunchP2P
  <2>8. CASE Unregister(c)
    BY <2>8 DEF Unregister
  <2> QED BY <1>5, <2>1, <2>2, <2>3, <2>4, <2>5, <2>6, <2>7, <2>8
             DEF Launch
<1>6. CASE RtsScan
  BY <1>6 DEF RtsScan
<1>7. CASE RelayScan
  BY <1>7 DEF RelayScan
<1>8. CASE Transport
  <2>1. ASSUME NEW k \in Conns, ConnCreateSucc(k) PROVE NothingCloses'
    BY <2>1 DEF ConnCreateSucc
  <2>2. ASSUME NEW k \in Conns, ConnCreateFail(k) PROVE NothingCloses'
    BY <2>2 DEF ConnCreateFail
  <2>3. ASSUME NEW k \in Conns, ConnClosed(k) PROVE NothingCloses'
    BY <2>3 DEF ConnClosed
  <2>4. ASSUME NEW k \in Conns, BindSucc(k) PROVE NothingCloses'
    BY <2>4 DEF BindSucc
  <2>5. ASSUME NEW k \in Conns, BindFail(k) PROVE NothingCloses'
    BY <2>5 DEF BindFail
  <2>6. ASSUME NEW k \in Conns, ConnLost(k) PROVE NothingCloses'
    BY <2>6 DEF ConnLost
  <2>7. ASSUME NEW c \in Calls, P2PConnected(c) PROVE NothingCloses'
    BY <2>7 DEF P2PConnected
  <2>8. ASSUME NEW c \in Calls, P2PConnLost(c) PROVE NothingCloses'
    BY <2>8 DEF P2PConnLost
  <2>9. CASE Flush
    BY <2>9 DEF Flush
  <2>10. CASE CloseCalls
    BY <2>10 DEF CloseCalls
  <2>11. CASE KeepCalls
    BY <2>11 DEF KeepCalls
  <2> QED BY <1>8, <2>1, <2>2, <2>3, <2>4, <2>5, <2>6, <2>7, <2>8, <2>9, <2>10,
             <2>11
             DEF Transport
<1>9. CASE UNCHANGED vars
  BY <1>9 DEF vars
<1> QED BY <1>1, <1>2, <1>3, <1>4, <1>5, <1>6, <1>7, <1>8, <1>9 DEF Next

\* Every step leaves a launch thread at its own call.
LEMMA NextLaunches == CallInv /\ [Next]_vars => LaunchesOwn'
<1> SUFFICES ASSUME CallInv, [Next]_vars PROVE LaunchesOwn'
  OBVIOUS
<1>f. /\ pc \in [Threads -> Labels] /\ call \in [Calls -> CallState]
      /\ arg \in [Threads -> Calls \union {NoCall}]
      /\ after \in [Threads -> {"idle", "refused", "closed", "unregister"}]
      /\ birth \in [Calls -> {"fresh", "begun", "entered"}]
      /\ LaunchesOwn /\ OneOwner /\ HandlesEntered /\ Unentered
  BY DEF CallInv, IInv, TypeOK
<1> USE <1>f, ThreadsAssumption, CallsAssumption
    DEF Calls, Threads, Labels, Entering, Callbacks, callVars, relayVars,
        threadVars, launchVars, outVars, LockFree, Step, Goto, Rest, Resume, CloseThen,
        Start, LaunchesOwn, OneOwner, HandlesEntered, Unentered, Handling, Launching,
        Waiting, Remove, Erase, Enter, Advance, Receive, InMap
<1>1. ASSUME NEW t \in Threads, Continue(t) PROVE LaunchesOwn'
  <2>1. CASE RelayBranch(t)
    BY <2>1 DEF RelayBranch
  <2>2. CASE CreateRelay(t)
    BY <2>2 DEF CreateRelay
  <2>3. ASSUME NEW k \in Conns, OpenRelay(t, k) PROVE LaunchesOwn'
    BY <2>3 DEF OpenRelay
  <2>4. CASE OpenRelayFails(t)
    BY <2>4 DEF OpenRelayFails
  <2>5. CASE SetRelay(t)
    BY <2>5 DEF SetRelay
  <2>6. CASE Insert(t)
    BY <2>6 DEF Insert
  <2>7. CASE InsertAndRequest(t)
    BY <2>7 DEF InsertAndRequest
  <2>8. CASE InsertAndLaunch(t)
    <3>1. arg[t] \in InCalls /\ t \notin InCalls
      BY <2>8 DEF InsertAndLaunch
    <3>2. ASSUME NEW c \in InCalls, c # arg[t] PROVE
             pc'[c] = pc[c] /\ arg'[c] = arg[c] /\ birth'[c] = birth[c] /\ call'[c] = call[c]
      BY <2>8, <3>1, <3>2 DEF InsertAndLaunch
    <3>3. /\ pc'[arg[t]] = "begin" /\ arg'[arg[t]] = arg[t] /\ birth'[arg[t]] = "entered"
          /\ call'[arg[t]] = "WAIT_INVITEE_RESPONSE"
      BY <2>8, <3>1 DEF InsertAndLaunch
    <3>4. after' = after
      BY <2>8 DEF InsertAndLaunch
    <3> QED BY <3>1, <3>2, <3>3, <3>4
  <2>9. CASE Register(t)
    BY <2>9 DEF Register
  <2>10. CASE AnswerOk(t)
    BY <2>10 DEF AnswerOk
  <2>11. CASE AnswerFail(t)
    BY <2>11 DEF AnswerFail
  <2>12. CASE Update(t)
    BY <2>12 DEF Update
  <2>13. CASE Cancel(t)
    BY <2>13 DEF Cancel
  <2>14. CASE Delete(t)
    BY <2>14 DEF Delete
  <2>15. CASE CloseRelayWhenNoCall(t)
    BY <2>15 DEF CloseRelayWhenNoCall
  <2>16. CASE DropRelay(t)
    BY <2>16 DEF DropRelay
  <2>17. CASE CallBack(t)
    BY <2>17 DEF CallBack
  <2>18. CASE Clear(t)
    BY <2>18 DEF Clear
  <2>19. CASE Reset(t)
    BY <2>19 DEF Reset
  <2> QED BY <1>1, <2>1, <2>2, <2>3, <2>4, <2>5, <2>6, <2>7, <2>8, <2>9, <2>10,
             <2>11, <2>12, <2>13, <2>14, <2>15, <2>16, <2>17, <2>18, <2>19
             DEF Continue
<1>2. ASSUME NEW t \in AppThreads, Application(t) PROVE LaunchesOwn'
  <2>1. ASSUME NEW c \in Calls, DialCall(t, c) PROVE LaunchesOwn'
    BY <2>1 DEF DialCall
  <2>2. ASSUME NEW c \in Calls, CloseCall(t, c) PROVE LaunchesOwn'
    BY <2>2 DEF CloseCall
  <2>3. CASE Logout(t)
    BY <2>3 DEF Logout
  <2> QED BY <1>2, <2>1, <2>2, <2>3
             DEF Application
<1>3. ASSUME NEW c \in Calls, Server(c) PROVE LaunchesOwn'
  <2>1. CASE InviteRequest(c)
    BY <2>1 DEF InviteRequest
  <2>2. CASE InviteBusy(c)
    BY <2>2 DEF InviteBusy
  <2>3. ASSUME NEW ok \in BOOLEAN, CreateResponse(c, ok) PROVE LaunchesOwn'
    BY <2>3 DEF CreateResponse
  <2>4. CASE ByeRequest(c)
    BY <2>4 DEF ByeRequest
  <2>5. CASE ByeResponse(c)
    BY <2>5 DEF ByeResponse
  <2>6. CASE UpdateRequest(c)
    BY <2>6 DEF UpdateRequest
  <2>7. ASSUME NEW msg \in GotMsg, DropSignal(msg, c) PROVE LaunchesOwn'
    BY <2>7 DEF DropSignal
  <2> QED BY <1>3, <2>1, <2>2, <2>3, <2>4, <2>5, <2>6, <2>7
             DEF Server
<1>4. ASSUME NEW c \in Calls, Age(c) PROVE LaunchesOwn'
  BY <1>4 DEF Age
<1>5. ASSUME NEW c \in InCalls, Launch(c) PROVE LaunchesOwn'
  <2>1. CASE LaunchBegin(c)
    BY <2>1 DEF LaunchBegin
  <2>2. CASE LaunchLock(c)
    BY <2>2 DEF LaunchLock
  <2>3. CASE LaunchGone(c)
    BY <2>3 DEF LaunchGone
  <2>4. CASE LaunchRefuse(c)
    BY <2>4 DEF LaunchRefuse
  <2>5. CASE LaunchAccept(c)
    BY <2>5 DEF LaunchAccept
  <2>6. CASE LaunchRunning(c)
    BY <2>6 DEF LaunchRunning
  <2>7. CASE LaunchP2P(c)
    BY <2>7 DEF LaunchP2P
  <2>8. CASE Unregister(c)
    BY <2>8 DEF Unregister
  <2> QED BY <1>5, <2>1, <2>2, <2>3, <2>4, <2>5, <2>6, <2>7, <2>8
             DEF Launch
<1>6. CASE RtsScan
  BY <1>6 DEF RtsScan
<1>7. CASE RelayScan
  BY <1>7 DEF RelayScan
<1>8. CASE Transport
  <2>1. ASSUME NEW k \in Conns, ConnCreateSucc(k) PROVE LaunchesOwn'
    BY <2>1 DEF ConnCreateSucc
  <2>2. ASSUME NEW k \in Conns, ConnCreateFail(k) PROVE LaunchesOwn'
    BY <2>2 DEF ConnCreateFail
  <2>3. ASSUME NEW k \in Conns, ConnClosed(k) PROVE LaunchesOwn'
    BY <2>3 DEF ConnClosed
  <2>4. ASSUME NEW k \in Conns, BindSucc(k) PROVE LaunchesOwn'
    BY <2>4 DEF BindSucc
  <2>5. ASSUME NEW k \in Conns, BindFail(k) PROVE LaunchesOwn'
    BY <2>5 DEF BindFail
  <2>6. ASSUME NEW k \in Conns, ConnLost(k) PROVE LaunchesOwn'
    BY <2>6 DEF ConnLost
  <2>7. ASSUME NEW c \in Calls, P2PConnected(c) PROVE LaunchesOwn'
    BY <2>7 DEF P2PConnected
  <2>8. ASSUME NEW c \in Calls, P2PConnLost(c) PROVE LaunchesOwn'
    BY <2>8 DEF P2PConnLost
  <2>9. CASE Flush
    BY <2>9 DEF Flush
  <2>10. CASE CloseCalls
    BY <2>10 DEF CloseCalls
  <2>11. CASE KeepCalls
    BY <2>11 DEF KeepCalls
  <2> QED BY <1>8, <2>1, <2>2, <2>3, <2>4, <2>5, <2>6, <2>7, <2>8, <2>9, <2>10,
             <2>11
             DEF Transport
<1>9. CASE UNCHANGED vars
  BY <1>9 DEF vars
<1> QED BY <1>1, <1>2, <1>3, <1>4, <1>5, <1>6, <1>7, <1>8, <1>9 DEF Next

\* No step accepts an invitation again.
LEMMA NextOnce == CallInv /\ [Next]_vars => AcceptedOnce'
<1> SUFFICES ASSUME CallInv, [Next]_vars PROVE AcceptedOnce'
  OBVIOUS
<1>f. /\ pc \in [Threads -> Labels] /\ call \in [Calls -> CallState]
      /\ arg \in [Threads -> Calls \union {NoCall}]
      /\ after \in [Threads -> {"idle", "refused", "closed", "unregister"}]
      /\ AcceptedOnce /\ LaunchesOwn /\ OneOwner /\ HandlesEntered
      /\ AnswersLocked /\ Unentered
  BY DEF CallInv, IInv, TypeOK
<1> USE <1>f, ThreadsAssumption, CallsAssumption
    DEF Calls, Threads, Labels, Entering, Callbacks, callVars, relayVars,
        threadVars, launchVars, outVars, LockFree, Step, Goto, Rest, Resume, CloseThen,
        Start, AcceptedOnce, LaunchesOwn,
        OneOwner, HandlesEntered, AnswersLocked, Unentered, Launching, Waiting, Remove,
        Erase, Enter, Advance, Receive, ByeRequests, ExceptInvite, InMap
<1>1. ASSUME NEW t \in Threads, Continue(t) PROVE AcceptedOnce'
  <2>1. CASE RelayBranch(t)
    BY <2>1 DEF RelayBranch
  <2>2. CASE CreateRelay(t)
    BY <2>2 DEF CreateRelay
  <2>3. ASSUME NEW k \in Conns, OpenRelay(t, k) PROVE AcceptedOnce'
    BY <2>3 DEF OpenRelay
  <2>4. CASE OpenRelayFails(t)
    BY <2>4 DEF OpenRelayFails
  <2>5. CASE SetRelay(t)
    BY <2>5 DEF SetRelay
  <2>6. CASE Insert(t)
    BY <2>6 DEF Insert
  <2>7. CASE InsertAndRequest(t)
    BY <2>7 DEF InsertAndRequest
  <2>8. CASE InsertAndLaunch(t)
    BY <2>8 DEF InsertAndLaunch
  <2>9. CASE Register(t)
    BY <2>9 DEF Register
  <2>10. CASE AnswerOk(t)
    BY <2>10 DEF AnswerOk
  <2>11. CASE AnswerFail(t)
    BY <2>11 DEF AnswerFail
  <2>12. CASE Update(t)
    BY <2>12 DEF Update
  <2>13. CASE Cancel(t)
    BY <2>13 DEF Cancel
  <2>14. CASE Delete(t)
    BY <2>14 DEF Delete
  <2>15. CASE CloseRelayWhenNoCall(t)
    BY <2>15 DEF CloseRelayWhenNoCall
  <2>16. CASE DropRelay(t)
    BY <2>16 DEF DropRelay
  <2>17. CASE CallBack(t)
    BY <2>17 DEF CallBack
  <2>18. CASE Clear(t)
    BY <2>18 DEF Clear
  <2>19. CASE Reset(t)
    BY <2>19 DEF Reset
  <2> QED BY <1>1, <2>1, <2>2, <2>3, <2>4, <2>5, <2>6, <2>7, <2>8, <2>9, <2>10,
             <2>11, <2>12, <2>13, <2>14, <2>15, <2>16, <2>17, <2>18, <2>19
             DEF Continue
<1>2. ASSUME NEW t \in AppThreads, Application(t) PROVE AcceptedOnce'
  <2>1. ASSUME NEW c \in Calls, DialCall(t, c) PROVE AcceptedOnce'
    BY <2>1 DEF DialCall
  <2>2. ASSUME NEW c \in Calls, CloseCall(t, c) PROVE AcceptedOnce'
    BY <2>2 DEF CloseCall
  <2>3. CASE Logout(t)
    BY <2>3 DEF Logout
  <2> QED BY <1>2, <2>1, <2>2, <2>3
             DEF Application
<1>3. ASSUME NEW c \in Calls, Server(c) PROVE AcceptedOnce'
  <2>1. CASE InviteRequest(c)
    BY <2>1 DEF InviteRequest
  <2>2. CASE InviteBusy(c)
    BY <2>2 DEF InviteBusy
  <2>3. ASSUME NEW ok \in BOOLEAN, CreateResponse(c, ok) PROVE AcceptedOnce'
    BY <2>3 DEF CreateResponse
  <2>4. CASE ByeRequest(c)
    BY <2>4 DEF ByeRequest
  <2>5. CASE ByeResponse(c)
    BY <2>5 DEF ByeResponse
  <2>6. CASE UpdateRequest(c)
    BY <2>6 DEF UpdateRequest
  <2>7. ASSUME NEW msg \in GotMsg, DropSignal(msg, c) PROVE AcceptedOnce'
    BY <2>7 DEF DropSignal
  <2> QED BY <1>3, <2>1, <2>2, <2>3, <2>4, <2>5, <2>6, <2>7
             DEF Server
<1>4. ASSUME NEW c \in Calls, Age(c) PROVE AcceptedOnce'
  BY <1>4 DEF Age
<1>5. ASSUME NEW c \in InCalls, Launch(c) PROVE AcceptedOnce'
  <2>1. CASE LaunchBegin(c)
    BY <2>1 DEF LaunchBegin
  <2>2. CASE LaunchLock(c)
    BY <2>2 DEF LaunchLock
  <2>3. CASE LaunchGone(c)
    BY <2>3 DEF LaunchGone
  <2>4. CASE LaunchRefuse(c)
    BY <2>4 DEF LaunchRefuse
  <2>5. CASE LaunchAccept(c)
    BY <2>5 DEF LaunchAccept
  <2>6. CASE LaunchRunning(c)
    BY <2>6 DEF LaunchRunning
  <2>7. CASE LaunchP2P(c)
    BY <2>7 DEF LaunchP2P
  <2>8. CASE Unregister(c)
    BY <2>8 DEF Unregister
  <2> QED BY <1>5, <2>1, <2>2, <2>3, <2>4, <2>5, <2>6, <2>7, <2>8
             DEF Launch
<1>6. CASE RtsScan
  BY <1>6 DEF RtsScan
<1>7. CASE RelayScan
  BY <1>7 DEF RelayScan
<1>8. CASE Transport
  <2>1. ASSUME NEW k \in Conns, ConnCreateSucc(k) PROVE AcceptedOnce'
    BY <2>1 DEF ConnCreateSucc
  <2>2. ASSUME NEW k \in Conns, ConnCreateFail(k) PROVE AcceptedOnce'
    BY <2>2 DEF ConnCreateFail
  <2>3. ASSUME NEW k \in Conns, ConnClosed(k) PROVE AcceptedOnce'
    BY <2>3 DEF ConnClosed
  <2>4. ASSUME NEW k \in Conns, BindSucc(k) PROVE AcceptedOnce'
    BY <2>4 DEF BindSucc
  <2>5. ASSUME NEW k \in Conns, BindFail(k) PROVE AcceptedOnce'
    BY <2>5 DEF BindFail
  <2>6. ASSUME NEW k \in Conns, ConnLost(k) PROVE AcceptedOnce'
    BY <2>6 DEF ConnLost
  <2>7. ASSUME NEW c \in Calls, P2PConnected(c) PROVE AcceptedOnce'
    BY <2>7 DEF P2PConnected
  <2>8. ASSUME NEW c \in Calls, P2PConnLost(c) PROVE AcceptedOnce'
    BY <2>8 DEF P2PConnLost
  <2>9. CASE Flush
    BY <2>9 DEF Flush
  <2>10. CASE CloseCalls
    BY <2>10 DEF CloseCalls
  <2>11. CASE KeepCalls
    BY <2>11 DEF KeepCalls
  <2> QED BY <1>8, <2>1, <2>2, <2>3, <2>4, <2>5, <2>6, <2>7, <2>8, <2>9, <2>10,
             <2>11
             DEF Transport
<1>9. CASE UNCHANGED vars
  BY <1>9 DEF vars
<1> QED BY <1>1, <1>2, <1>3, <1>4, <1>5, <1>6, <1>7, <1>8, <1>9 DEF Next

\* A callback only adds to what was told.
LEMMA TellKeeps ==
  ASSUME told \in [Callbacks -> [Calls -> Nat]], NEW K, Tell(K), NEW c \in Calls
  PROVE  /\ Ended(c) => Ended(c)'
         /\ \A k \in Terminal : <<c, k>> \in K => Ended(c)'
<1>1. \A k \in Terminal : /\ told'[k][c] \in Nat /\ told[k][c] \in Nat
                          /\ told'[k][c] >= told[k][c]
                          /\ <<c, k>> \in K => told'[k][c] = told[k][c] + 1
  BY DEF Tell, Terminal, Callbacks
<1> QED BY <1>1 DEF Ended, Terminal

\* A launch thread reports no end.
LEMMA LaunchTellsNot ==
  ASSUME LaunchesOwn, NEW u \in InCalls, NEW c PROVE ~Tells(u, c)
BY DEF LaunchesOwn, Tells, Terminal, Launching

\* Who is about to report an end goes on or has reported it.
LEMMA NextTelling ==
  ASSUME CallInv, [Next]_vars
  PROVE  \A c \in Calls :
    /\ Ended(c) => Ended(c)'
    /\ \A u \in Threads : Tells(u, c) => Tells(u, c)' \/ Ended(c)'
<1> DEFINE Telling ==
  \A c \in Calls :
    /\ Ended(c) => Ended(c)'
    /\ \A u \in Threads : Tells(u, c) => Tells(u, c)' \/ Ended(c)'
<1>f. /\ pc \in [Threads -> Labels] /\ call \in [Calls -> CallState]
      /\ arg \in [Threads -> Calls \union {NoCall}]
      /\ after \in [Threads -> {"idle", "refused", "closed", "unregister"}]
      /\ told \in [Callbacks -> [Calls -> Nat]]
      /\ LaunchesOwn /\ launchCalls \subseteq InCalls /\ LaunchesInvited /\ callVec \subseteq Calls
  BY DEF CallInv, IInv, TypeOK
<1> SUFFICES Telling
  OBVIOUS
<1> USE <1>f, ThreadsAssumption, CallsAssumption
    DEF Calls, Threads, callVars, relayVars,
        threadVars, launchVars, outVars, LockFree, Step, Goto, Rest, Resume, CloseThen,
        Start, Tells, Ended, Tell, Terminal, Callbacks, LaunchesOwn, Launching
<1>1. ASSUME NEW t \in Threads, Continue(t) PROVE Telling
  <2>1. CASE RelayBranch(t)
    BY <2>1 DEF RelayBranch
  <2>2. CASE CreateRelay(t)
    BY <2>2 DEF CreateRelay
  <2>3. ASSUME NEW k \in Conns, OpenRelay(t, k) PROVE Telling
    BY <2>3 DEF OpenRelay
  <2>4. CASE OpenRelayFails(t)
    BY <2>4 DEF OpenRelayFails
  <2>5. CASE SetRelay(t)
    BY <2>5 DEF SetRelay
  <2>6. CASE Insert(t)
    BY <2>6 DEF Insert
  <2>7. CASE InsertAndRequest(t)
    BY <2>7 DEF InsertAndRequest
  <2>8. CASE InsertAndLaunch(t)
    BY <2>8 DEF InsertAndLaunch
  <2>9. CASE Register(t)
    BY <2>9 DEF Register
  <2>10. CASE AnswerOk(t)
    BY <2>10 DEF AnswerOk
  <2>11. CASE AnswerFail(t)
    BY <2>11 DEF AnswerFail
  <2>12. CASE Update(t)
    BY <2>12 DEF Update
  <2>13. CASE Cancel(t)
    BY <2>13 DEF Cancel
  <2>14. CASE Delete(t)
    BY <2>14 DEF Delete
  <2>15. CASE CloseRelayWhenNoCall(t)
    BY <2>15 DEF CloseRelayWhenNoCall
  <2>16. CASE DropRelay(t)
    BY <2>16 DEF DropRelay
  <2>17. CASE CallBack(t)
    BY <2>17 DEF CallBack
  <2>18. CASE Clear(t)
    BY <2>18 DEF Clear
  <2>19. CASE Reset(t)
    BY <2>19 DEF Reset
  <2> QED BY <1>1, <2>1, <2>2, <2>3, <2>4, <2>5, <2>6, <2>7, <2>8, <2>9, <2>10,
             <2>11, <2>12, <2>13, <2>14, <2>15, <2>16, <2>17, <2>18, <2>19
             DEF Continue
<1>2. ASSUME NEW t \in AppThreads, Application(t) PROVE Telling
  <2>1. ASSUME NEW c \in Calls, DialCall(t, c) PROVE Telling
    BY <2>1 DEF DialCall
  <2>2. ASSUME NEW c \in Calls, CloseCall(t, c) PROVE Telling
    BY <2>2 DEF CloseCall
  <2>3. CASE Logout(t)
    BY <2>3 DEF Logout
  <2> QED BY <1>2, <2>1, <2>2, <2>3
             DEF Application
<1>3. ASSUME NEW c \in Calls, Server(c) PROVE Telling
  <2>1. CASE InviteRequest(c)
    BY <2>1 DEF InviteRequest
  <2>2. CASE InviteBusy(c)
    BY <2>2 DEF InviteBusy
  <2>3. ASSUME NEW ok \in BOOLEAN, CreateResponse(c, ok) PROVE Telling
    BY <2>3 DEF CreateResponse
  <2>4. CASE ByeRequest(c)
    BY <2>4 DEF ByeRequest
  <2>5. CASE ByeResponse(c)
    BY <2>5 DEF ByeResponse
  <2>6. CASE UpdateRequest(c)
    BY <2>6 DEF UpdateRequest
  <2>7. ASSUME NEW msg \in GotMsg, DropSignal(msg, c) PROVE Telling
    BY <2>7 DEF DropSignal
  <2> QED BY <1>3, <2>1, <2>2, <2>3, <2>4, <2>5, <2>6, <2>7
             DEF Server
<1>4. ASSUME NEW c \in Calls, Age(c) PROVE Telling
  BY <1>4 DEF Age
<1>5. ASSUME NEW c \in InCalls, Launch(c) PROVE Telling
  <2>1. CASE LaunchBegin(c)
    BY <2>1 DEF LaunchBegin
  <2>2. CASE LaunchLock(c)
    BY <2>2 DEF LaunchLock
  <2>3. CASE LaunchGone(c)
    BY <2>3 DEF LaunchGone
  <2>4. CASE LaunchRefuse(c)
    BY <2>4 DEF LaunchRefuse
  <2>5. CASE LaunchAccept(c)
    BY <2>5 DEF LaunchAccept
  <2>6. CASE LaunchRunning(c)
    BY <2>6 DEF LaunchRunning
  <2>7. CASE LaunchP2P(c)
    BY <2>7 DEF LaunchP2P
  <2>8. CASE Unregister(c)
    BY <2>8 DEF Unregister
  <2> QED BY <1>5, <2>1, <2>2, <2>3, <2>4, <2>5, <2>6, <2>7, <2>8
             DEF Launch
<1>6. CASE RtsScan
  <2>1. ASSUME NEW c \in Calls, Ended(c) PROVE Ended(c)'
    BY <1>6, <2>1, TellKeeps DEF RtsScan
  <2>2. ASSUME NEW c \in Calls, NEW u \in Threads, Tells(u, c) PROVE Tells(u, c)'
    <3>1. u # Check /\ u \notin InCalls
      BY <1>6, <2>2, LaunchTellsNot DEF RtsScan
    <3>2. pc'[u] = pc[u] /\ arg'[u] = arg[u] /\ after'[u] = after[u]
      BY <1>6, <3>1 DEF RtsScan
    <3> QED BY <2>2, <3>2 DEF Tells
  <2> QED BY <2>1, <2>2
<1>7. CASE RelayScan
  BY <1>7 DEF RelayScan
<1>8. CASE Transport
  <2>1. ASSUME NEW k \in Conns, ConnCreateSucc(k) PROVE Telling
    BY <2>1 DEF ConnCreateSucc
  <2>2. ASSUME NEW k \in Conns, ConnCreateFail(k) PROVE Telling
    BY <2>2 DEF ConnCreateFail
  <2>3. ASSUME NEW k \in Conns, ConnClosed(k) PROVE Telling
    BY <2>3 DEF ConnClosed
  <2>4. ASSUME NEW k \in Conns, BindSucc(k) PROVE Telling
    BY <2>4 DEF BindSucc
  <2>5. ASSUME NEW k \in Conns, BindFail(k) PROVE Telling
    BY <2>5 DEF BindFail
  <2>6. ASSUME NEW k \in Conns, ConnLost(k) PROVE Telling
    BY <2>6 DEF ConnLost
  <2>7. ASSUME NEW c \in Calls, P2PConnected(c) PROVE Telling
    BY <2>7 DEF P2PConnected
  <2>8. ASSUME NEW c \in Calls, P2PConnLost(c) PROVE Telling
    BY <2>8 DEF P2PConnLost
  <2>9. CASE Flush
    <3>1. ASSUME NEW c \in Calls, Ended(c) PROVE Ended(c)'
      BY <2>9, <3>1 DEF Flush
    <3>2. ASSUME NEW c \in Calls, NEW u \in Threads, Tells(u, c) PROVE Tells(u, c)'
      <4>1. u # Worker /\ u \notin InCalls
        BY <2>9, <3>2, LaunchTellsNot DEF Flush
      <4>2. pc'[u] = pc[u] /\ arg'[u] = arg[u] /\ after'[u] = after[u]
        BY <2>9, <4>1 DEF Flush, LaunchesInvited
      <4> QED BY <3>2, <4>2 DEF Tells
    <3> QED BY <3>1, <3>2
  <2>10. CASE CloseCalls
    <3>1. ASSUME NEW c \in Calls, Ended(c) PROVE Ended(c)'
      BY <2>10, <3>1, TellKeeps DEF CloseCalls
    <3>2. ASSUME NEW c \in Calls, NEW u \in Threads, Tells(u, c) PROVE Tells(u, c)'
      <4>1. u # Worker /\ u \notin InCalls
        BY <2>10, <3>2, LaunchTellsNot DEF CloseCalls
      <4>2. pc'[u] = pc[u] /\ arg'[u] = arg[u] /\ after'[u] = after[u]
        BY <2>10, <4>1 DEF CloseCalls
      <4> QED BY <3>2, <4>2 DEF Tells
    <3> QED BY <3>1, <3>2
  <2>11. CASE KeepCalls
    BY <2>11 DEF KeepCalls
  <2> QED BY <1>8, <2>1, <2>2, <2>3, <2>4, <2>5, <2>6, <2>7, <2>8, <2>9, <2>10,
             <2>11
             DEF Transport
<1>9. CASE UNCHANGED vars
  BY <1>9 DEF vars
<1> QED BY <1>1, <1>2, <1>3, <1>4, <1>5, <1>6, <1>7, <1>8, <1>9 DEF Next

\* What is settled stays settled.
LEMMA SettledStays ==
  ASSUME CallInv, [Next]_vars, NEW c \in Calls, Settled(c)
  PROVE  Settled(c)'
<1>1. CASE Ended(c)
  BY <1>1, NextTelling DEF Settled
<1>2. ASSUME NEW t \in Threads, Tells(t, c) PROVE Settled(c)'
  <2>1. Tells(t, c)' \/ Ended(c)'
    BY <1>2, NextTelling
  <2> QED BY <2>1 DEF Settled, Threads
<1> QED BY <1>1, <1>2 DEF Settled

\* A dialled call goes with a word, or where calls are dropped.
LEMMA NextEnds ==
  ASSUME CallInv, [Next]_vars,
         NEW d \in OutCalls, Stage(d) # "gone", Stage(d)' = "gone"
  PROVE  Settled(d)' \/ ClearStep \/ (call[d] # "RUNNING" /\ DropsWaiting)
<1> DEFINE Reported == Settled(d)' \/ ClearStep \/ (call[d] # "RUNNING" /\ DropsWaiting)
<1> SUFFICES Reported
  OBVIOUS
<1>f. /\ pc \in [Threads -> Labels] /\ call \in [Calls -> CallState]
      /\ arg \in [Threads -> Calls \union {NoCall}]
      /\ after \in [Threads -> {"idle", "refused", "closed", "unregister"}]
      /\ told \in [Callbacks -> [Calls -> Nat]]
      /\ HandlesEntered /\ OneOwner /\ EveryCallScanned
      /\ birth \in [Calls -> {"fresh", "begun", "entered"}]
  BY DEF CallInv, IInv, TypeOK
<1> USE <1>f, ThreadsAssumption, CallsAssumption
    DEF Stage, Calls, Threads, callVars, relayVars,
        threadVars, launchVars, outVars, LockFree, Step, Goto, Rest, Resume, CloseThen,
        Start, Waiting, Remove, Erase, Enter,
        Advance, InMap, Entering, HandlesEntered, OneOwner, Handling
<1>1. ASSUME NEW t \in Threads, Continue(t) PROVE Reported
  <2>1. CASE RelayBranch(t)
    BY <2>1 DEF RelayBranch
  <2>2. CASE CreateRelay(t)
    BY <2>2 DEF CreateRelay
  <2>3. ASSUME NEW k \in Conns, OpenRelay(t, k) PROVE Reported
    BY <2>3 DEF OpenRelay
  <2>4. CASE OpenRelayFails(t)
    BY <2>4 DEF OpenRelayFails
  <2>5. CASE SetRelay(t)
    BY <2>5 DEF SetRelay
  <2>6. CASE Insert(t)
    BY <2>6 DEF Insert
  <2>7. CASE InsertAndRequest(t)
    BY <2>7 DEF InsertAndRequest
  <2>8. CASE InsertAndLaunch(t)
    BY <2>8 DEF InsertAndLaunch
  <2>9. CASE Register(t)
    BY <2>9 DEF Register
  <2>10. CASE AnswerOk(t)
    BY <2>10 DEF AnswerOk
  <2>11. CASE AnswerFail(t)
    <3>1. ASSUME NEW c \in Calls, c = arg[t] PROVE Settled(c)'
      BY <2>11, <3>1 DEF AnswerFail, Settled, Tells, Terminal
    <3> QED BY <2>11, <3>1 DEF AnswerFail
  <2>12. CASE Update(t)
    BY <2>12 DEF Update
  <2>13. CASE Cancel(t)
    BY <2>13 DEF Cancel
  <2>14. CASE Delete(t)
    <3>1. ASSUME NEW c \in Calls, c = arg[t] PROVE Settled(c)'
      BY <2>14, <3>1 DEF Delete, Settled, Tells, Terminal
    <3> QED BY <2>14, <3>1 DEF Delete
  <2>15. CASE CloseRelayWhenNoCall(t)
    BY <2>15 DEF CloseRelayWhenNoCall
  <2>16. CASE DropRelay(t)
    BY <2>16 DEF DropRelay
  <2>17. CASE CallBack(t)
    BY <2>17 DEF CallBack
  <2>18. CASE Clear(t)
    BY <2>18 DEF ClearStep
  <2>19. CASE Reset(t)
    BY <2>19 DEF Reset
  <2> QED BY <1>1, <2>1, <2>2, <2>3, <2>4, <2>5, <2>6, <2>7, <2>8, <2>9, <2>10,
             <2>11, <2>12, <2>13, <2>14, <2>15, <2>16, <2>17, <2>18, <2>19
             DEF Continue
<1>2. ASSUME NEW t \in AppThreads, Application(t) PROVE Reported
  <2>1. ASSUME NEW c \in Calls, DialCall(t, c) PROVE Reported
    BY <2>1 DEF DialCall
  <2>2. ASSUME NEW c \in Calls, CloseCall(t, c) PROVE Reported
    BY <2>2 DEF CloseCall
  <2>3. CASE Logout(t)
    <3> DEFINE K == {<<c, "closed">> : c \in {e \in callVec : call[e] = "RUNNING"}}
    <3>1. Tell(K)
      BY <2>3 DEF Logout
    <3>2. call[d] = "RUNNING" => <<d, "closed">> \in K
      BY DEF EveryCallScanned
    <3> HIDE DEF K
    <3>3. call[d] = "RUNNING" => Settled(d)'
      BY <3>1, <3>2, TellKeeps DEF Settled, Terminal
    <3> QED BY <2>3, <3>3 DEF DropsWaiting
  <2> QED BY <1>2, <2>1, <2>2, <2>3
             DEF Application
<1>3. ASSUME NEW c \in Calls, Server(c) PROVE Reported
  <2>1. CASE InviteRequest(c)
    BY <2>1 DEF InviteRequest
  <2>2. CASE InviteBusy(c)
    BY <2>2 DEF InviteBusy
  <2>3. ASSUME NEW ok \in BOOLEAN, CreateResponse(c, ok) PROVE Reported
    BY <2>3 DEF CreateResponse
  <2>4. CASE ByeRequest(c)
    BY <2>4 DEF ByeRequest
  <2>5. CASE ByeResponse(c)
    BY <2>5 DEF ByeResponse
  <2>6. CASE UpdateRequest(c)
    BY <2>6 DEF UpdateRequest
  <2>7. ASSUME NEW msg \in GotMsg, DropSignal(msg, c) PROVE Reported
    BY <2>7 DEF DropSignal
  <2> QED BY <1>3, <2>1, <2>2, <2>3, <2>4, <2>5, <2>6, <2>7
             DEF Server
<1>4. ASSUME NEW c \in Calls, Age(c) PROVE Reported
  BY <1>4 DEF Age
<1>5. ASSUME NEW c \in InCalls, Launch(c) PROVE Reported
  <2>1. CASE LaunchBegin(c)
    BY <2>1 DEF LaunchBegin
  <2>2. CASE LaunchLock(c)
    BY <2>2 DEF LaunchLock
  <2>3. CASE LaunchGone(c)
    BY <2>3 DEF LaunchGone
  <2>4. CASE LaunchRefuse(c)
    BY <2>4 DEF LaunchRefuse
  <2>5. CASE LaunchAccept(c)
    BY <2>5 DEF LaunchAccept
  <2>6. CASE LaunchRunning(c)
    BY <2>6 DEF LaunchRunning
  <2>7. CASE LaunchP2P(c)
    BY <2>7 DEF LaunchP2P
  <2>8. CASE Unregister(c)
    BY <2>8 DEF Unregister
  <2> QED BY <1>5, <2>1, <2>2, <2>3, <2>4, <2>5, <2>6, <2>7, <2>8
             DEF Launch
<1>6. CASE RtsScan
  <2>1. ASSUME NEW c \in Calls, c \in Expired PROVE Settled(c)'
    <3> DEFINE dialled == {e \in Expired : call[e] \in {"WAIT_SEND_CREATE_REQUEST",
                                                      "WAIT_CREATE_RESPONSE"}}
               K == {<<e, "refused">> : e \in dialled} \union
                    {<<e, "closed">> : e \in Expired \ dialled}
    <3>1. Tell(K)
      BY <1>6 DEF RtsScan
    <3>2. \E k \in Terminal : <<c, k>> \in K
      BY <2>1 DEF Terminal
    <3> HIDE DEF K
    <3>3. Ended(c)'
      BY <3>1, <3>2, TellKeeps
    <3> QED BY <3>3 DEF Settled
  <2> QED BY <1>6, <2>1 DEF RtsScan, Expired
<1>7. CASE RelayScan
  BY <1>7 DEF RelayScan
<1>8. CASE Transport
  <2>1. ASSUME NEW k \in Conns, ConnCreateSucc(k) PROVE Reported
    BY <2>1 DEF ConnCreateSucc
  <2>2. ASSUME NEW k \in Conns, ConnCreateFail(k) PROVE Reported
    BY <2>2 DEF ConnCreateFail
  <2>3. ASSUME NEW k \in Conns, ConnClosed(k) PROVE Reported
    BY <2>3 DEF ConnClosed
  <2>4. ASSUME NEW k \in Conns, BindSucc(k) PROVE Reported
    BY <2>4 DEF BindSucc
  <2>5. ASSUME NEW k \in Conns, BindFail(k) PROVE Reported
    BY <2>5 DEF BindFail
  <2>6. ASSUME NEW k \in Conns, ConnLost(k) PROVE Reported
    BY <2>6 DEF ConnLost
  <2>7. ASSUME NEW c \in Calls, P2PConnected(c) PROVE Reported
    BY <2>7 DEF P2PConnected
  <2>8. ASSUME NEW c \in Calls, P2PConnLost(c) PROVE Reported
    BY <2>8 DEF P2PConnLost
  <2>9. CASE Flush
    BY <2>9 DEF Flush
  <2>10. CASE CloseCalls
    <3> DEFINE lost == {c \in callVec : call[c] # "none" /\ p2p[c] # "up"}
               K == {<<c, "closed">> : c \in {e \in lost : call[e] = "RUNNING"}}
    <3>1. /\ Tell(K)
          /\ call' = [c \in Calls |-> IF c \in lost THEN "none" ELSE call[c]]
          /\ birth' = birth
      BY <2>10 DEF CloseCalls
    <3>2. d \in lost
      BY <3>1
    <3>3. call[d] = "RUNNING" => <<d, "closed">> \in K
      BY <3>2
    <3> HIDE DEF K, lost
    <3>4. call[d] = "RUNNING" => Settled(d)'
      BY <3>1, <3>3, TellKeeps DEF Settled, Terminal
    <3> QED BY <2>10, <3>4 DEF DropsWaiting
  <2>11. CASE KeepCalls
    BY <2>11 DEF KeepCalls
  <2> QED BY <1>8, <2>1, <2>2, <2>3, <2>4, <2>5, <2>6, <2>7, <2>8, <2>9, <2>10,
             <2>11
             DEF Transport
<1>9. CASE UNCHANGED vars
  BY <1>9 DEF vars
<1> QED BY <1>1, <1>2, <1>3, <1>4, <1>5, <1>6, <1>7, <1>8, <1>9 DEF Next

\* An accepted call is dropped without a word only with the whole table.
LEMMA NextFollowed ==
  ASSUME CallInv, [Next]_vars,
         NEW i \in InCalls, KeepsAccepted(i), ~ClearStep
  PROVE  KeepsAccepted(i)'
<1> DEFINE Kept == KeepsAccepted(i)'
<1> SUFFICES Kept
  OBVIOUS
<1>f. /\ pc \in [Threads -> Labels] /\ call \in [Calls -> CallState]
      /\ arg \in [Threads -> Calls \union {NoCall}]
      /\ after \in [Threads -> {"idle", "refused", "closed", "unregister"}]
      /\ told \in [Callbacks -> [Calls -> Nat]]
      /\ KeepsAccepted(i) /\ AcceptedOnce /\ HandlesEntered
      /\ OneOwner /\ EveryCallScanned /\ AnswersLocked /\ LaunchesOwn /\ LaunchesInvited
      /\ launchCalls \subseteq InCalls /\ callVec \subseteq Calls /\ lock \in InCalls \union {NoThread}
      /\ birth \in [Calls -> {"fresh", "begun", "entered"}]
  BY DEF CallInv, IInv, TypeOK
<1>s. \A c \in Calls : Settled(c) => Settled(c)'
  BY SettledStays
<1> USE <1>f, <1>s, ThreadsAssumption, CallsAssumption
    DEF Calls, Threads, callVars, relayVars,
        threadVars, launchVars, outVars, LockFree, Step, Goto, Rest, Resume, CloseThen,
        Start, KeepsAccepted, AcceptedOnce, LaunchesOwn, Launching,
        AnswersLocked, Followed, Waiting, Remove, Erase, Enter, Advance, InMap, Entering,
        HandlesEntered, OneOwner, Handling, Receive, ByeRequests, ExceptInvite,
        LaunchesInvited
<1>1. ASSUME NEW t \in Threads, Continue(t) PROVE Kept
  <2>1. CASE RelayBranch(t)
    BY <2>1 DEF RelayBranch
  <2>2. CASE CreateRelay(t)
    BY <2>2 DEF CreateRelay
  <2>3. ASSUME NEW k \in Conns, OpenRelay(t, k) PROVE Kept
    BY <2>3 DEF OpenRelay
  <2>4. CASE OpenRelayFails(t)
    BY <2>4 DEF OpenRelayFails
  <2>5. CASE SetRelay(t)
    BY <2>5 DEF SetRelay
  <2>6. CASE Insert(t)
    BY <2>6 DEF Insert
  <2>7. CASE InsertAndRequest(t)
    BY <2>7 DEF InsertAndRequest
  <2>8. CASE InsertAndLaunch(t)
    BY <2>8 DEF InsertAndLaunch
  <2>9. CASE Register(t)
    BY <2>9 DEF Register
  <2>10. CASE AnswerOk(t)
    <3>1. call'[i] = call[i] \/ call'[i] = "RUNNING"
      BY <2>10 DEF AnswerOk
    <3>2. /\ pc[i] = "accepting" => pc'[i] = "accepting"
          /\ UNCHANGED <<sent, got>>
      BY <2>10 DEF AnswerOk
    <3>3. ASSUME NEW u \in Threads, pc[u] = "delete"
          PROVE  pc'[u] = pc[u] /\ arg'[u] = arg[u]
      BY <2>10, <3>3 DEF AnswerOk
    <3> QED BY <3>1, <3>2, <3>3
  <2>11. CASE AnswerFail(t)
    <3>1. ASSUME NEW c \in Calls, c = arg[t] PROVE Settled(c)'
      BY <2>11, <3>1 DEF AnswerFail, Settled, Tells, Terminal
    <3> QED BY <2>11, <3>1 DEF AnswerFail
  <2>12. CASE Update(t)
    <3>1. call'[i] = call[i] /\ (pc[i] = "accepting" => pc'[i] = "accepting")
      BY <2>12 DEF Update
    <3>2. sent' \subseteq sent \union ({"UPDATE_RSP"} \X Calls) /\ sent \subseteq sent' /\ got' = got
      BY <2>12 DEF Update
    <3>3. ASSUME NEW u \in Threads, pc[u] = "delete"
          PROVE  pc'[u] = pc[u] /\ arg'[u] = arg[u]
      BY <2>12, <3>3 DEF Update
    <3> QED BY <3>1, <3>2, <3>3
  <2>13. CASE Cancel(t)
    <3>1. CASE i = arg[t]
      <4>1. pc'[t] = "delete" /\ arg'[t] = i
        BY <2>13, <3>1 DEF Cancel
      <4> QED BY <4>1 DEF Followed
    <3>2. CASE i # arg[t]
      <4>1. /\ call'[i] = call[i] /\ pc'[i] = pc[i] /\ sent' = sent /\ got' = got
        BY <2>13, <3>2 DEF Cancel
      <4>2. ASSUME NEW u \in Threads, pc[u] = "delete"
            PROVE  pc'[u] = pc[u] /\ arg'[u] = arg[u]
        BY <2>13, <4>2 DEF Cancel
      <4> QED BY <4>1, <4>2
    <3> QED BY <3>1, <3>2
  <2>14. CASE Delete(t)
    <3>1. ASSUME NEW c \in Calls, c = arg[t] PROVE Settled(c)'
      BY <2>14, <3>1 DEF Delete, Settled, Tells, Terminal
    <3> QED BY <2>14, <3>1 DEF Delete
  <2>15. CASE CloseRelayWhenNoCall(t)
    BY <2>15 DEF CloseRelayWhenNoCall
  <2>16. CASE DropRelay(t)
    <3>1. pc'[i] = pc[i] \/ pc[i] # "accepting"
      BY <2>16 DEF DropRelay
    <3>2. ASSUME NEW u \in Threads, pc[u] = "delete"
          PROVE  pc'[u] = pc[u] /\ arg'[u] = arg[u]
      BY <2>16, <3>2 DEF DropRelay
    <3>3. UNCHANGED <<call, sent, got>>
      BY <2>16 DEF DropRelay
    <3> QED BY <3>1, <3>2, <3>3
  <2>17. CASE CallBack(t)
    BY <2>17 DEF CallBack
  <2>18. CASE Clear(t)
    BY <2>18 DEF ClearStep
  <2>19. CASE Reset(t)
    BY <2>19 DEF Reset
  <2> QED BY <1>1, <2>1, <2>2, <2>3, <2>4, <2>5, <2>6, <2>7, <2>8, <2>9, <2>10,
             <2>11, <2>12, <2>13, <2>14, <2>15, <2>16, <2>17, <2>18, <2>19
             DEF Continue
<1>2. ASSUME NEW t \in AppThreads, Application(t) PROVE Kept
  <2>1. ASSUME NEW c \in Calls, DialCall(t, c) PROVE Kept
    BY <2>1 DEF DialCall
  <2>2. ASSUME NEW c \in Calls, CloseCall(t, c) PROVE Kept
    BY <2>2 DEF CloseCall
  <2>3. CASE Logout(t)
    <3> DEFINE K == {<<c, "closed">> : c \in {d \in callVec : call[d] = "RUNNING"}}
    <3>1. Tell(K) /\ lock = NoThread /\ sent \subseteq sent' /\ got' = got
      BY <2>3 DEF Logout
    <3>2. pc[i] # "accepting"
      BY <3>1
    <3>3. ASSUME NEW u \in Threads, pc[u] = "delete"
          PROVE  pc'[u] = pc[u] /\ arg'[u] = arg[u]
      BY <2>3, <3>3 DEF Logout
    <3>4. call[i] = "RUNNING" => Settled(i)'
      <4>1. call[i] = "RUNNING" => <<i, "closed">> \in K
        BY DEF EveryCallScanned
      <4> HIDE DEF K
      <4>2. "closed" \in Terminal
        BY DEF Terminal
      <4> QED BY <3>1, <4>1, <4>2, TellKeeps DEF Settled
    <3>5. <<"INVITE_OK", i>> \in sent' => <<"INVITE_OK", i>> \in sent
      BY <2>3 DEF Logout
    <3> QED BY <3>1, <3>2, <3>3, <3>4, <3>5
  <2> QED BY <1>2, <2>1, <2>2, <2>3
             DEF Application
<1>3. ASSUME NEW c \in Calls, Server(c) PROVE Kept
  <2>1. CASE InviteRequest(c)
    BY <2>1 DEF InviteRequest
  <2>2. CASE InviteBusy(c)
    BY <2>2 DEF InviteBusy
  <2>3. ASSUME NEW ok \in BOOLEAN, CreateResponse(c, ok) PROVE Kept
    BY <2>3 DEF CreateResponse
  <2>4. CASE ByeRequest(c)
    BY <2>4 DEF ByeRequest
  <2>5. CASE ByeResponse(c)
    BY <2>5 DEF ByeResponse
  <2>6. CASE UpdateRequest(c)
    BY <2>6 DEF UpdateRequest
  <2>7. ASSUME NEW msg \in GotMsg, DropSignal(msg, c) PROVE Kept
    BY <2>7 DEF DropSignal
  <2> HIDE DEF Kept
  <2> QED BY <1>3, <2>1, <2>2, <2>3, <2>4, <2>5, <2>6, <2>7
             DEF Server
<1>4. ASSUME NEW c \in Calls, Age(c) PROVE Kept
  BY <1>4 DEF Age
<1>5. ASSUME NEW c \in InCalls, Launch(c) PROVE Kept
  <2>1. CASE LaunchBegin(c)
    BY <2>1 DEF LaunchBegin
  <2>2. CASE LaunchLock(c)
    BY <2>2 DEF LaunchLock
  <2>3. CASE LaunchGone(c)
    BY <2>3 DEF LaunchGone
  <2>4. CASE LaunchRefuse(c)
    BY <2>4 DEF LaunchRefuse
  <2>5. CASE LaunchAccept(c)
    BY <2>5 DEF LaunchAccept
  <2>6. CASE LaunchRunning(c)
    BY <2>6 DEF LaunchRunning
  <2>7. CASE LaunchP2P(c)
    BY <2>7 DEF LaunchP2P
  <2>8. CASE Unregister(c)
    BY <2>8 DEF Unregister
  <2> QED BY <1>5, <2>1, <2>2, <2>3, <2>4, <2>5, <2>6, <2>7, <2>8
             DEF Launch
<1>6. CASE RtsScan
  <2>1. ASSUME NEW c \in Calls, c \in Expired PROVE Settled(c)'
    <3> DEFINE dialled == {d \in Expired : call[d] \in {"WAIT_SEND_CREATE_REQUEST",
                                                      "WAIT_CREATE_RESPONSE"}}
               K == {<<d, "refused">> : d \in dialled} \union
                    {<<d, "closed">> : d \in Expired \ dialled}
    <3>1. Tell(K)
      BY <1>6 DEF RtsScan
    <3>2. \E k \in Terminal : <<c, k>> \in K
      BY <2>1 DEF Terminal
    <3> HIDE DEF K
    <3>3. Ended(c)'
      BY <3>1, <3>2, TellKeeps
    <3> QED BY <3>3 DEF Settled
  <2>2. ASSUME i \notin Expired
        PROVE  /\ call'[i] = call[i] /\ pc[i] # "accepting" /\ sent' = sent /\ got' = got
    BY <1>6, <2>2 DEF RtsScan
  <2>3. ASSUME NEW u \in Threads, pc[u] = "delete"
        PROVE  pc'[u] = pc[u] /\ arg'[u] = arg[u]
    BY <1>6, <2>3 DEF RtsScan
  <2> QED BY <1>6, <2>1, <2>2, <2>3
<1>7. CASE RelayScan
  BY <1>7 DEF RelayScan
<1>8. CASE Transport
  <2>1. ASSUME NEW k \in Conns, ConnCreateSucc(k) PROVE Kept
    BY <2>1 DEF ConnCreateSucc
  <2>2. ASSUME NEW k \in Conns, ConnCreateFail(k) PROVE Kept
    BY <2>2 DEF ConnCreateFail
  <2>3. ASSUME NEW k \in Conns, ConnClosed(k) PROVE Kept
    BY <2>3 DEF ConnClosed
  <2>4. ASSUME NEW k \in Conns, BindSucc(k) PROVE Kept
    BY <2>4 DEF BindSucc
  <2>5. ASSUME NEW k \in Conns, BindFail(k) PROVE Kept
    BY <2>5 DEF BindFail
  <2>6. ASSUME NEW k \in Conns, ConnLost(k) PROVE Kept
    BY <2>6 DEF ConnLost
  <2>7. ASSUME NEW c \in Calls, P2PConnected(c) PROVE Kept
    BY <2>7 DEF P2PConnected
  <2>8. ASSUME NEW c \in Calls, P2PConnLost(c) PROVE Kept
    BY <2>8 DEF P2PConnLost
  <2>9. CASE Flush
    <3>1. ASSUME NEW u \in Threads, pc[u] = "delete"
          PROVE  pc'[u] = pc[u] /\ arg'[u] = arg[u]
      BY <2>9, <3>1 DEF Flush
    <3>2. /\ call[i] = "RUNNING" => call'[i] = "RUNNING"
          /\ pc[i] = "accepting" /\ <<"INVITE_OK", i>> \in sent => pc'[i] = "accepting"
      BY <2>9 DEF Flush
    <3>3. sent' \subseteq sent \union ({"CREATE"} \X Calls) /\ sent \subseteq sent' /\ got' = got
      BY <2>9 DEF Flush
    <3> QED BY <3>1, <3>2, <3>3
  <2>10. CASE CloseCalls
    <3> DEFINE lost == {c \in callVec : call[c] # "none" /\ p2p[c] # "up"}
               K == {<<c, "closed">> : c \in {d \in lost : call[d] = "RUNNING"}}
    <3>1. /\ Tell(K) /\ lock = NoThread /\ sent \subseteq sent' /\ got' = got
          /\ call' = [c \in Calls |-> IF c \in lost THEN "none" ELSE call[c]]
      BY <2>10 DEF CloseCalls
    <3>2. pc[i] # "accepting"
      BY <3>1
    <3>3. ASSUME NEW u \in Threads, pc[u] = "delete"
          PROVE  pc'[u] = pc[u] /\ arg'[u] = arg[u]
      BY <2>10, <3>3 DEF CloseCalls
    <3>4. call[i] = "RUNNING" /\ i \in lost => Settled(i)'
      <4>1. call[i] = "RUNNING" /\ i \in lost => <<i, "closed">> \in K
        OBVIOUS
      <4> HIDE DEF K, lost
      <4>2. "closed" \in Terminal
        BY DEF Terminal
      <4> QED BY <3>1, <4>1, <4>2, TellKeeps DEF Settled
    <3>5. i \notin lost => call'[i] = call[i]
      BY <3>1
    <3>6. <<"INVITE_OK", i>> \in sent' => <<"INVITE_OK", i>> \in sent
      BY <2>10 DEF CloseCalls
    <3> HIDE DEF lost
    <3> QED BY <3>1, <3>2, <3>3, <3>4, <3>5, <3>6
  <2>11. CASE KeepCalls
    BY <2>11 DEF KeepCalls
  <2> QED BY <1>8, <2>1, <2>2, <2>3, <2>4, <2>5, <2>6, <2>7, <2>8, <2>9, <2>10,
             <2>11
             DEF Transport
<1>9. CASE UNCHANGED vars
  BY <1>9 DEF vars
<1> QED BY <1>1, <1>2, <1>3, <1>4, <1>5, <1>6, <1>7, <1>8, <1>9 DEF Next

\* The calls start in order.
LEMMA InitCalls ==
  Init => CallInv /\ NothingClears /\ AcceptedIsSettled /\ GoneIsSettled /\ NothingCloses
<1> SUFFICES ASSUME Init
             PROVE  CallInv /\ NothingClears /\ AcceptedIsSettled /\ GoneIsSettled /\ NothingCloses
  OBVIOUS
<1>1. NothingClears /\ NothingCloses /\ LaunchesOwn
  BY DEF Init, NothingClears, NothingCloses, LaunchesOwn, Launching, Calls, Threads
<1>2. GoneIsSettled /\ AcceptedOnce /\ AcceptedIsSettled
  BY DEF Init, GoneIsSettled, Stage, AcceptedOnce, AcceptedIsSettled, KeepsAccepted, Calls
<1> QED BY <1>1, <1>2, InitInv DEF CallInv

\* Launch threads keep to their calls under any faults.
LEMMA NextCall == CallInv /\ [Next]_vars => CallInv'
  BY NextInv, NextLaunches, NextOnce DEF CallInv

\* So they do from the start on.
LEMMA CallInvariant == Spec => []CallInv
  BY InitCalls, NextCall, PTL DEF Spec

\* Under any faults, a dialled call goes only when its end was, or will be,
\* reported, or with the whole table in clearCurrentCallsMap, or, if it was not
\* answered, in logout or checkAndCloseCalls; and what was to be reported is.
EndsAreReported ==
  [][\A d \in OutCalls :
       /\ Settled(d) => Settled(d)'
       /\ Stage(d) # "gone" /\ Stage(d)' = "gone" =>
            Settled(d)' \/ ClearStep \/ (call[d] # "RUNNING" /\ DropsWaiting)]_vars

\* The three places named in EndsAreReported are the only ones.
THEOREM DropsAreKnown == Spec => EndsAreReported
<1>1. ASSUME CallInv, [Next]_vars, NEW d \in OutCalls
      PROVE  /\ Settled(d) => Settled(d)'
             /\ Stage(d) # "gone" /\ Stage(d)' = "gone" =>
                  Settled(d)' \/ ClearStep \/ (call[d] # "RUNNING" /\ DropsWaiting)
  BY <1>1, NextEnds, SettledStays DEF Calls
<1>2. CallInv /\ [Next]_vars =>
        [\A d \in OutCalls :
           /\ Settled(d) => Settled(d)'
           /\ Stage(d) # "gone" /\ Stage(d)' = "gone" =>
                Settled(d)' \/ ClearStep \/ (call[d] # "RUNNING" /\ DropsWaiting)]_vars
  BY <1>1
<1> QED BY <1>2, CallInvariant, PTL DEF Spec, EndsAreReported

\* Under any faults, an accepted invitation is forgotten only with the whole
\* table: logout, and a relay lost later, hang up properly.
AcceptedIsKept ==
  [][\A i \in InCalls : KeepsAccepted(i) => KeepsAccepted(i)' \/ ClearStep]_vars

\* Only clearCurrentCallsMap forgets an accepted invitation.
THEOREM OnlyClearForgets == Spec => AcceptedIsKept
<1>1. ASSUME CallInv, [Next]_vars, NEW i \in InCalls
      PROVE  KeepsAccepted(i) => KeepsAccepted(i)' \/ ClearStep
  BY <1>1, NextFollowed
<1>2. CallInv /\ [Next]_vars =>
        [\A i \in InCalls : KeepsAccepted(i) => KeepsAccepted(i)' \/ ClearStep]_vars
  BY <1>1
<1> QED BY <1>2, CallInvariant, PTL DEF Spec, AcceptedIsKept

\* While the relay stays up and the user stays logged in, a dialled call that
\* is gone and that no thread works on was reported to the application.
THEOREM NothingGoesSilently ==
  ASSUME Healthy
  PROVE  Spec => []NoSilentDrop
<1>1. Init => GoneInv
  BY InitCalls DEF GoneInv
<1>2. GoneInv /\ [Next]_vars => GoneInv'
  <2> SUFFICES ASSUME GoneInv, [Next]_vars PROVE GoneInv'
    OBVIOUS
  <2>1. CallInv' /\ NothingClears' /\ NothingCloses'
    BY NextCall, NextClears, NextCloses DEF GoneInv, Healthy
  <2>2. ~ClearStep /\ ~DropsWaiting
    BY DEF GoneInv, NothingClears, NothingCloses, ClearStep, DropsWaiting, Clear, CloseCalls,
           Logout, Healthy, Threads
  <2>3. ASSUME NEW c \in OutCalls, Stage(c)' = "gone" PROVE Settled(c)'
    <3>1. CASE Stage(c) = "gone"
      BY <3>1, SettledStays DEF GoneInv, GoneIsSettled, Calls
    <3>2. CASE Stage(c) # "gone"
      BY <2>2, <2>3, <3>2, NextEnds DEF GoneInv
    <3> QED BY <3>1, <3>2
  <2>4. GoneIsSettled'
    BY <2>3 DEF GoneIsSettled
  <2> QED BY <2>1, <2>4 DEF GoneInv
<1>3. GoneInv => NoSilentDrop
  BY DEF GoneInv, GoneIsSettled, Stage, NoSilentDrop, Settled, Tells, Busy
<1> QED BY <1>1, <1>2, <1>3, PTL DEF Spec

\* With a relay that comes up when it is asked for, whatever becomes of it then
\* and of the login, an accepted invitation is running until its end is told.
THEOREM AcceptedRuns ==
  ASSUME RelayComesUp
  PROVE  Spec => []AcceptedIsRunning
<1>1. Init => AcceptInv
  BY InitCalls DEF AcceptInv
<1>2. AcceptInv /\ [Next]_vars => AcceptInv'
  <2> SUFFICES ASSUME AcceptInv, [Next]_vars PROVE AcceptInv'
    OBVIOUS
  <2>1. CallInv' /\ NothingClears'
    BY NextCall, NextClears DEF AcceptInv
  <2>2. ~ClearStep
    BY DEF AcceptInv, NothingClears, ClearStep, Clear
  <2>3. AcceptedIsSettled'
    BY <2>2, NextFollowed DEF AcceptInv, AcceptedIsSettled
  <2> QED BY <2>1, <2>3 DEF AcceptInv
<1>3. AcceptInv => AcceptedIsRunning
  BY DEF AcceptInv, AcceptedIsSettled, KeepsAccepted, Followed, AcceptedIsRunning, Settled, Tells, Busy
<1> QED BY <1>1, <1>2, <1>3, PTL DEF Spec
=============================================================================
