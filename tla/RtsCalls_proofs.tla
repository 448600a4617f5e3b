--------------------------- MODULE RtsCalls_proofs ---------------------------
(***************************************************************************)
(* Proofs about RtsCalls for any sets of calls, threads and connections,   *)
(* any limit, and any choice of what the application, the server and the   *)
(* relay do.                                                               *)
(***************************************************************************)
EXTENDS RtsCalls, TLAPS

LEMMA InitInv == Init => IInv
<1> SUFFICES ASSUME Init PROVE IInv
  OBVIOUS
<1> USE ThreadsAssumption, RelayAssumption
    DEF Init, Calls, Threads, Labels, Entering, Callbacks, Handling, Terminal,
        Waiting, CallState, InMap, Ended
<1>1. TypeOK
  BY DEF TypeOK
<1>2. EveryCallScanned /\ OneOwner /\ Unentered /\ LaunchesInvited
  BY DEF EveryCallScanned, OneOwner, Unentered, LaunchesInvited
<1>3. HandlesEntered /\ EndingIsRemoved /\ AnswersLocked /\ EndedIsFinal
  BY DEF HandlesEntered, EndingIsRemoved, AnswersLocked, EndedIsFinal
<1> QED BY <1>1, <1>2, <1>3 DEF IInv

\* Every step of every thread keeps the invariant.
LEMMA NextInv == IInv /\ [Next]_vars => IInv'
<1> SUFFICES ASSUME IInv, [Next]_vars PROVE IInv'
  OBVIOUS
<1> USE ThreadsAssumption, RelayAssumption
    DEF IInv, TypeOK, EveryCallScanned, OneOwner, Unentered, LaunchesInvited,
        HandlesEntered, EndingIsRemoved, AnswersLocked, EndedIsFinal, Ended,
        InMap, Calls, Threads, Waiting, CallState, Labels, Entering, Callbacks,
        Handling, Terminal, SentMsg, GotMsg, callVars, relayVars, threadVars,
        launchVars, outVars, LockFree, Step, Goto, Rest, Resume, CloseThen,
        Start, Tell, Enter, Remove, Erase, Advance, StartP2P, Closing, ResetRelayLink,
        Receive, ExceptInvite, ByeRequests, Expired
<1>1. ASSUME NEW t \in Threads, Continue(t) PROVE IInv'
  <2>1. CASE RelayBranch(t)
    <3>1. CASE pc[t] = "relay"
      BY <2>1, <3>1 DEF RelayBranch
    <3>2. CASE pc[t] = "relayBeing"
      BY <2>1, <3>2 DEF RelayBranch
    <3>3. CASE pc[t] = "relayBound"
      <4>1. CASE relayLinkState = "SUCC_CREATED"
        BY <2>1, <3>3, <4>1 DEF RelayBranch
      <4>2. CASE relayLinkState # "SUCC_CREATED"
        BY <2>1, <3>3, <4>2 DEF RelayBranch
      <4> QED BY <4>1, <4>2
    <3> QED BY <2>1, <3>1, <3>2, <3>3 DEF RelayBranch
  <2>2. CASE CreateRelay(t)
    BY <2>2 DEF CreateRelay
  <2>3. ASSUME NEW k \in Conns, OpenRelay(t, k) PROVE IInv'
    BY <2>3 DEF OpenRelay
  <2>4. CASE OpenRelayFails(t)
    BY <2>4 DEF OpenRelayFails
  <2>5. CASE SetRelay(t)
    BY <2>5 DEF SetRelay
  <2>6. CASE Insert(t)
    BY <2>6 DEF Insert
  <2>7. CASE InsertAndRequest(t)
    BY <2>7 DEF InsertAndRequest
  <2>8. CASE InsertAndLaunch(t)
    BY <2>8 DEF InsertAndLaunch
  <2>9. CASE Register(t)
    BY <2>9 DEF Register
  <2>10. CASE AnswerOk(t)
    BY <2>10, SMTT(30) DEF AnswerOk
  <2>11. CASE AnswerFail(t)
    BY <2>11 DEF AnswerFail
  <2>12. CASE Update(t)
    BY <2>12 DEF Update
  <2>13. CASE Cancel(t)
    BY <2>13 DEF Cancel
  <2>14. CASE Delete(t)
    BY <2>14 DEF Delete
  <2>15. CASE CloseRelayWhenNoCall(t)
    BY <2>15 DEF CloseRelayWhenNoCall
  <2>16. CASE DropRelay(t)
    <3>1. bound' \in BOOLEAN
      BY <2>16, Zenon DEF DropRelay
    <3>2. conn' \in [Conns -> {"free", "connecting", "up", "bound", "closing",
                               "ending"}]
      BY <2>16 DEF DropRelay
    <3>3. CASE after[t] = "idle"
      BY <2>16, <3>1, <3>2, <3>3 DEF DropRelay
    <3>4. CASE after[t] # "idle"
      BY <2>16, <3>1, <3>2, <3>4 DEF DropRelay
    <3> QED BY <3>3, <3>4
  <2>17. CASE CallBack(t)
    BY <2>17 DEF CallBack
  <2>18. CASE Clear(t)
    BY <2>18 DEF Clear
  <2>19. CASE Reset(t)
    <3>1. bound' \in BOOLEAN
      BY <2>19, Zenon DEF Reset
    <3> QED BY <2>19, <3>1 DEF Reset
  <2> QED BY <1>1, <2>1, <2>2, <2>3, <2>4, <2>5, <2>6, <2>7, <2>8, <2>9, <2>10,
             <2>11, <2>12, <2>13, <2>14, <2>15, <2>16, <2>17, <2>18, <2>19
             DEF Continue
<1>2. ASSUME NEW t \in AppThreads, Application(t) PROVE IInv'
  <2>1. ASSUME NEW c \in Calls, DialCall(t, c) PROVE IInv'
    BY <2>1 DEF DialCall
  <2>2. ASSUME NEW c \in Calls, CloseCall(t, c) PROVE IInv'
    BY <2>2 DEF CloseCall
  <2>3. CASE Logout(t)
    BY <2>3 DEF Logout
  <2> QED BY <1>2, <2>1, <2>2, <2>3 DEF Application
<1>3. ASSUME NEW c \in Calls, Server(c) PROVE IInv'
  <2>1. CASE InviteRequest(c)
    BY <2>1 DEF InviteRequest
  <2>2. CASE InviteBusy(c)
    BY <2>2 DEF InviteBusy
  <2>3. ASSUME NEW ok \in BOOLEAN, CreateResponse(c, ok) PROVE IInv'
    BY <2>3 DEF CreateResponse
  <2>4. CASE ByeRequest(c)
    BY <2>4 DEF ByeRequest
  <2>5. CASE ByeResponse(c)
    BY <2>5 DEF ByeResponse
  <2>6. CASE UpdateRequest(c)
    BY <2>6 DEF UpdateRequest
  <2>7. ASSUME NEW msg \in GotMsg, DropSignal(msg, c) PROVE IInv'
    BY <2>7 DEF DropSignal
  <2> QED BY <1>3, <2>1, <2>2, <2>3, <2>4, <2>5, <2>6, <2>7 DEF Server
<1>4. ASSUME NEW c \in Calls, Age(c) PROVE IInv'
  BY <1>4 DEF Age
<1>5. ASSUME NEW c \in InCalls, Launch(c) PROVE IInv'
  <2>1. CASE LaunchBegin(c)
    <3>1. CASE call[c] = "none"
      BY <2>1, <3>1 DEF LaunchBegin
    <3>2. CASE call[c] # "none"
      BY <2>1, <3>2 DEF LaunchBegin
    <3> QED BY <3>1, <3>2
  <2>2. CASE LaunchLock(c)
    BY <2>2 DEF LaunchLock
  <2>3. CASE LaunchGone(c)
    BY <2>3 DEF LaunchGone
  <2>4. CASE LaunchRefuse(c)
    BY <2>4 DEF LaunchRefuse
  <2>5. CASE LaunchAccept(c)
    BY <2>5 DEF LaunchAccept
  <2>6. CASE LaunchRunning(c)
    BY <2>6 DEF LaunchRunning
  <2>7. CASE LaunchP2P(c)
    BY <2>7 DEF LaunchP2P
  <2>8. CASE Unregister(c)
    BY <2>8 DEF Unregister
  <2> QED BY <1>5, <2>1, <2>2, <2>3, <2>4, <2>5, <2>6, <2>7, <2>8 DEF Launch
<1>6. CASE RtsScan
  <2>1. TypeOK'
    BY <1>6 DEF RtsScan
  <2>2. EveryCallScanned' /\ OneOwner' /\ Unentered' /\ LaunchesInvited'
    BY <1>6 DEF RtsScan
  <2>3. HandlesEntered'
    BY <1>6 DEF RtsScan
  <2>4. EndingIsRemoved' /\ AnswersLocked'
    BY <1>6 DEF RtsScan
  <2>5. EndedIsFinal'
    BY <1>6 DEF RtsScan
  <2> QED BY <2>1, <2>2, <2>3, <2>4, <2>5 DEF IInv
<1>7. CASE RelayScan
  BY <1>7 DEF RelayScan
<1>8. CASE Transport
  <2>1. ASSUME NEW k \in Conns, ConnCreateSucc(k) PROVE IInv'
    BY <2>1 DEF ConnCreateSucc
  <2>2. ASSUME NEW k \in Conns, ConnCreateFail(k) PROVE IInv'
    BY <2>2 DEF ConnCreateFail
  <2>3. ASSUME NEW k \in Conns, ConnClosed(k) PROVE IInv'
    BY <2>3 DEF ConnClosed
  <2>4. ASSUME NEW k \in Conns, BindSucc(k) PROVE IInv'
    BY <2>4 DEF BindSucc
  <2>5. ASSUME NEW k \in Conns, BindFail(k) PROVE IInv'
    BY <2>5 DEF BindFail
  <2>6. ASSUME NEW k \in Conns, ConnLost(k) PROVE IInv'
    <3>1. bound' \in BOOLEAN
      BY <2>6, Zenon DEF ConnLost
    <3>2. relayLinkState' \in {"NOT_CREATED", "BEING_CREATED", "SUCC_CREATED"}
      BY <2>6 DEF ConnLost
    <3> QED BY <2>6, <3>1, <3>2 DEF ConnLost
  <2>7. ASSUME NEW c \in Calls, P2PConnected(c) PROVE IInv'
    BY <2>7 DEF P2PConnected
  <2>8. ASSUME NEW c \in Calls, P2PConnLost(c) PROVE IInv'
    BY <2>8 DEF P2PConnLost
  <2>9. CASE Flush
    BY <2>9 DEF Flush
  <2>10. CASE CloseCalls
    BY <2>10, SMTT(30) DEF CloseCalls
  <2>11. CASE KeepCalls
    BY <2>11 DEF KeepCalls
  <2> QED BY <1>8, <2>1, <2>2, <2>3, <2>4, <2>5, <2>6, <2>7, <2>8, <2>9, <2>10, <2>11 DEF Transport
<1>9. CASE UNCHANGED vars
  BY <1>9 DEF vars
<1> QED BY <1>1, <1>2, <1>3, <1>4, <1>5, <1>6, <1>7, <1>8, <1>9 DEF Next

THEOREM InductiveInvariant == Spec => []IInv
  BY InitInv, NextInv, PTL DEF Spec

\* Every variable of the call table keeps its type.
THEOREM TypeCorrect == Spec => []TypeOK
<1>1. IInv => TypeOK
  BY DEF IInv
<1> QED BY <1>1, InductiveInvariant, PTL

\* A call of currentCalls is in currentCallVec, so that every scan, flush and
\* logout sees it.
THEOREM CallsAreScanned == Spec => []EveryCallScanned
<1>1. IInv => EveryCallScanned
  BY DEF IInv
<1> QED BY <1>1, InductiveInvariant, PTL

\* No interleaving of dials, invitations, answers, timeouts, hang-ups, launch
\* threads and relay failures brings a call back after its end was reported.
THEOREM EndedStaysEnded == Spec => []EndedIsFinal
<1>1. IInv => EndedIsFinal
  BY DEF IInv
<1> QED BY <1>1, InductiveInvariant, PTL

-----------------------------------------------------------------------------
(* The refinement of CallLifecycle: its invariant, then its steps.          *)

\* The receive thread alone answers, and only dialled calls.
LEMMA NextOnlyDialled == IInv /\ OnlyDialledAnswered /\ [Next]_vars => OnlyDialledAnswered'
<1> SUFFICES ASSUME IInv, OnlyDialledAnswered, [Next]_vars PROVE OnlyDialledAnswered'
  OBVIOUS
<1>f. TypeOK /\ OneOwner /\ LaunchesInvited
  BY DEF IInv
<1> USE <1>f, ThreadsAssumption
    DEF TypeOK, OneOwner, LaunchesInvited, OnlyDialledAnswered, Calls, Threads, Waiting,
        CallState, Entering, callVars, relayVars, threadVars, launchVars, outVars, Step,
        Goto, Rest, Resume, CloseThen, Start, Enter, Remove, Erase, Advance, Receive,
        ExceptInvite, ByeRequests
<1>1. ASSUME NEW t \in Threads, Continue(t) PROVE OnlyDialledAnswered'
  <2>1. CASE RelayBranch(t)
    BY <2>1 DEF RelayBranch
  <2>2. CASE CreateRelay(t)
    BY <2>2 DEF CreateRelay
  <2>3. ASSUME NEW k \in Conns, OpenRelay(t, k) PROVE OnlyDialledAnswered'
    BY <2>3 DEF OpenRelay
  <2>4. CASE OpenRelayFails(t)
    BY <2>4 DEF OpenRelayFails
  <2>5. CASE SetRelay(t)
    BY <2>5 DEF SetRelay
  <2>6. CASE Insert(t)
    BY <2>6 DEF Insert
  <2>7. CASE InsertAndRequest(t)
    BY <2>7 DEF InsertAndRequest
  <2>8. CASE InsertAndLaunch(t)
    BY <2>8 DEF InsertAndLaunch
  <2>9. CASE Register(t)
    BY <2>9 DEF Register
  <2>10. CASE AnswerOk(t)
    BY <2>10 DEF AnswerOk
  <2>11. CASE AnswerFail(t)
    BY <2>11 DEF AnswerFail
  <2>12. CASE Update(t)
    BY <2>12 DEF Update
  <2>13. CASE Cancel(t)
    BY <2>13 DEF Cancel
  <2>14. CASE Delete(t)
    BY <2>14 DEF Delete
  <2>15. CASE CloseRelayWhenNoCall(t)
    BY <2>15 DEF CloseRelayWhenNoCall
  <2>16. CASE DropRelay(t)
    BY <2>16 DEF DropRelay
  <2>17. CASE CallBack(t)
    BY <2>17 DEF CallBack
  <2>18. CASE Clear(t)
    BY <2>18 DEF Clear
  <2>19. CASE Reset(t)
    BY <2>19 DEF Reset
  <2> QED BY <1>1, <2>1, <2>2, <2>3, <2>4, <2>5, <2>6, <2>7, <2>8, <2>9, <2>10, <2>11,
             <2>12, <2>13, <2>14, <2>15, <2>16, <2>17, <2>18, <2>19 DEF
             Continue
<1>2. ASSUME NEW t \in AppThreads, Application(t) PROVE OnlyDialledAnswered'
  <2>1. ASSUME NEW c \in Calls, DialCall(t, c) PROVE OnlyDialledAnswered'
    BY <2>1 DEF DialCall
  <2>2. ASSUME NEW c \in Calls, CloseCall(t, c) PROVE OnlyDialledAnswered'
    BY <2>2 DEF CloseCall
  <2>3. CASE Logout(t)
    BY <2>3 DEF Logout
  <2> QED BY <1>2, <2>1, <2>2, <2>3 DEF Application
<1>3. ASSUME NEW c \in Calls, Server(c) PROVE OnlyDialledAnswered'
  <2>1. CASE InviteRequest(c)
    BY <2>1 DEF InviteRequest
  <2>2. CASE InviteBusy(c)
    BY <2>2 DEF InviteBusy
  <2>3. ASSUME NEW ok \in BOOLEAN, CreateResponse(c, ok) PROVE OnlyDialledAnswered'
    BY <2>3 DEF CreateResponse
  <2>4. CASE ByeRequest(c)
    BY <2>4 DEF ByeRequest
  <2>5. CASE ByeResponse(c)
    BY <2>5 DEF ByeResponse
  <2>6. CASE UpdateRequest(c)
    BY <2>6 DEF UpdateRequest
  <2>7. ASSUME NEW msg \in GotMsg, DropSignal(msg, c) PROVE OnlyDialledAnswered'
    BY <2>7 DEF DropSignal
  <2> QED BY <1>3, <2>1, <2>2, <2>3, <2>4, <2>5, <2>6, <2>7 DEF Server
<1>4. ASSUME NEW c \in Calls, Age(c) PROVE OnlyDialledAnswered'
  BY <1>4 DEF Age
<1>5. ASSUME NEW c \in InCalls, Launch(c) PROVE OnlyDialledAnswered'
  <2>1. CASE LaunchBegin(c)
    BY <2>1 DEF LaunchBegin
  <2>2. CASE LaunchLock(c)
    BY <2>2 DEF LaunchLock
  <2>3. CASE LaunchGone(c)
    BY <2>3 DEF LaunchGone
  <2>4. CASE LaunchRefuse(c)
    BY <2>4 DEF LaunchRefuse
  <2>5. CASE LaunchAccept(c)
    BY <2>5 DEF LaunchAccept
  <2>6. CASE LaunchRunning(c)
    BY <2>6 DEF LaunchRunning
  <2>7. CASE LaunchP2P(c)
    BY <2>7 DEF LaunchP2P
  <2>8. CASE Unregister(c)
    BY <2>8 DEF Unregister
  <2> QED BY <1>5, <2>1, <2>2, <2>3, <2>4, <2>5, <2>6, <2>7, <2>8 DEF Launch
<1>6. CASE RtsScan
  BY <1>6 DEF RtsScan
<1>7. CASE RelayScan
  BY <1>7 DEF RelayScan
<1>8. CASE Transport
  <2>1. ASSUME NEW k \in Conns, ConnCreateSucc(k) PROVE OnlyDialledAnswered'
    BY <2>1 DEF ConnCreateSucc
  <2>2. ASSUME NEW k \in Conns, ConnCreateFail(k) PROVE OnlyDialledAnswered'
    BY <2>2 DEF ConnCreateFail
  <2>3. ASSUME NEW k \in Conns, ConnClosed(k) PROVE OnlyDialledAnswered'
    BY <2>3 DEF ConnClosed
  <2>4. ASSUME NEW k \in Conns, BindSucc(k) PROVE OnlyDialledAnswered'
    BY <2>4 DEF BindSucc
  <2>5. ASSUME NEW k \in Conns, BindFail(k) PROVE OnlyDialledAnswered'
    BY <2>5 DEF BindFail
  <2>6. ASSUME NEW k \in Conns, ConnLost(k) PROVE OnlyDialledAnswered'
    BY <2>6 DEF ConnLost
  <2>7. ASSUME NEW c \in Calls, P2PConnected(c) PROVE OnlyDialledAnswered'
    BY <2>7 DEF P2PConnected
  <2>8. ASSUME NEW c \in Calls, P2PConnLost(c) PROVE OnlyDialledAnswered'
    BY <2>8 DEF P2PConnLost
  <2>9. CASE Flush
    BY <2>9 DEF Flush
  <2>10. CASE CloseCalls
    BY <2>10 DEF CloseCalls
  <2>11. CASE KeepCalls
    BY <2>11 DEF KeepCalls
  <2> QED BY <1>8, <2>1, <2>2, <2>3, <2>4, <2>5, <2>6, <2>7, <2>8, <2>9, <2>10, <2>11
             DEF Transport
<1>9. CASE UNCHANGED vars
  BY <1>9 DEF vars
<1> QED BY <1>1, <1>2, <1>3, <1>4, <1>5, <1>6, <1>7, <1>8, <1>9 DEF Next

\* An accepted call gets no other answer.
LEMMA NextOneAnswer ==
  IInv /\ OnlyDialledAnswered /\ OneAnswer /\ [Next]_vars => OneAnswer'
<1> SUFFICES ASSUME IInv, OnlyDialledAnswered, OneAnswer, [Next]_vars PROVE OneAnswer'
  OBVIOUS
<1>f. TypeOK /\ OneOwner /\ Unentered /\ LaunchesInvited /\ HandlesEntered
  BY DEF IInv
<1> USE <1>f, ThreadsAssumption, CallsAssumption
    DEF TypeOK, OneOwner, Unentered, LaunchesInvited, HandlesEntered, OnlyDialledAnswered,
        OneAnswer, Answered, Calls, Threads, Waiting, CallState, Entering, Callbacks, GotMsg,
        Handling, Tell, LockFree, Expired,
        callVars, relayVars, threadVars, launchVars, outVars, Step,
        Goto, Rest, Resume, CloseThen, Start, Enter, Remove, Erase, Advance, Receive
<1>1. ASSUME NEW t \in Threads, Continue(t) PROVE OneAnswer'
  <2>1. CASE RelayBranch(t)
    BY <2>1 DEF RelayBranch
  <2>2. CASE CreateRelay(t)
    BY <2>2 DEF CreateRelay
  <2>3. ASSUME NEW k \in Conns, OpenRelay(t, k) PROVE OneAnswer'
    BY <2>3 DEF OpenRelay
  <2>4. CASE OpenRelayFails(t)
    BY <2>4 DEF OpenRelayFails
  <2>5. CASE SetRelay(t)
    BY <2>5 DEF SetRelay
  <2>6. CASE Insert(t)
    BY <2>6 DEF Insert
  <2>7. CASE InsertAndRequest(t)
    BY <2>7 DEF InsertAndRequest
  <2>8. CASE InsertAndLaunch(t)
    BY <2>8 DEF InsertAndLaunch
  <2>9. CASE Register(t)
    BY <2>9 DEF Register
  <2>10. CASE AnswerOk(t)
    BY <2>10, SMTT(30) DEF AnswerOk
  <2>11. CASE AnswerFail(t)
    BY <2>11 DEF AnswerFail
  <2>12. CASE Update(t)
    BY <2>12 DEF Update
  <2>13. CASE Cancel(t)
    BY <2>13 DEF Cancel
  <2>14. CASE Delete(t)
    BY <2>14 DEF Delete
  <2>15. CASE CloseRelayWhenNoCall(t)
    BY <2>15 DEF CloseRelayWhenNoCall
  <2>16. CASE DropRelay(t)
    BY <2>16, SMTT(30) DEF DropRelay
  <2>17. CASE CallBack(t)
    BY <2>17 DEF CallBack
  <2>18. CASE Clear(t)
    BY <2>18 DEF Clear
  <2>19. CASE Reset(t)
    BY <2>19 DEF Reset
  <2> QED BY <1>1, <2>1, <2>2, <2>3, <2>4, <2>5, <2>6, <2>7, <2>8, <2>9, <2>10, <2>11,
             <2>12, <2>13, <2>14, <2>15, <2>16, <2>17, <2>18, <2>19 DEF
             Continue
<1>2. ASSUME NEW t \in AppThreads, Application(t) PROVE OneAnswer'
  <2>1. ASSUME NEW c \in Calls, DialCall(t, c) PROVE OneAnswer'
    BY <2>1 DEF DialCall
  <2>2. ASSUME NEW c \in Calls, CloseCall(t, c) PROVE OneAnswer'
    BY <2>2 DEF CloseCall
  <2>3. CASE Logout(t)
    <3>1. pc'[Recv] = pc[Recv] /\ arg'[Recv] = arg[Recv]
      BY <2>3 DEF Logout
    <3>2. \A c \in Calls : told'["accepted"][c] = told["accepted"][c]
      BY <2>3 DEF Logout
    <3>3. \A c \in Calls : call'[c] = "none"
      BY <2>3 DEF Logout, Remove
    <3>4. got' = got /\ birth' = birth
      BY <2>3 DEF Logout, Remove
    <3> QED BY <3>1, <3>2, <3>3, <3>4
  <2> QED BY <1>2, <2>1, <2>2, <2>3 DEF Application
<1>3. ASSUME NEW c \in Calls, Server(c) PROVE OneAnswer'
  <2>1. CASE InviteRequest(c)
    BY <2>1 DEF InviteRequest
  <2>2. CASE InviteBusy(c)
    BY <2>2 DEF InviteBusy
  <2>3. ASSUME NEW ok \in BOOLEAN, CreateResponse(c, ok) PROVE OneAnswer'
    BY <2>3 DEF CreateResponse
  <2>4. CASE ByeRequest(c)
    BY <2>4 DEF ByeRequest
  <2>5. CASE ByeResponse(c)
    BY <2>5 DEF ByeResponse
  <2>6. CASE UpdateRequest(c)
    BY <2>6 DEF UpdateRequest
  <2>7. ASSUME NEW msg \in GotMsg, DropSignal(msg, c) PROVE OneAnswer'
    BY <2>7 DEF DropSignal
  <2> QED BY <1>3, <2>1, <2>2, <2>3, <2>4, <2>5, <2>6, <2>7 DEF Server
<1>4. ASSUME NEW c \in Calls, Age(c) PROVE OneAnswer'
  BY <1>4 DEF Age
<1>5. ASSUME NEW c \in InCalls, Launch(c) PROVE OneAnswer'
  <2>1. CASE LaunchBegin(c)
    BY <2>1 DEF LaunchBegin
  <2>2. CASE LaunchLock(c)
    BY <2>2 DEF LaunchLock
  <2>3. CASE LaunchGone(c)
    BY <2>3 DEF LaunchGone
  <2>4. CASE LaunchRefuse(c)
    BY <2>4 DEF LaunchRefuse
  <2>5. CASE LaunchAccept(c)
    BY <2>5 DEF LaunchAccept
  <2>6. CASE LaunchRunning(c)
    BY <2>6 DEF LaunchRunning
  <2>7. CASE LaunchP2P(c)
    BY <2>7 DEF LaunchP2P
  <2>8. CASE Unregister(c)
    BY <2>8 DEF Unregister
  <2> QED BY <1>5, <2>1, <2>2, <2>3, <2>4, <2>5, <2>6, <2>7, <2>8 DEF Launch
<1>6. CASE RtsScan
  <2>1. /\ got' = got /\ birth' = birth
       /\ \A c \in Calls : call'[c] = call[c] \/ call'[c] = "none"
    BY <1>6 DEF RtsScan
  <2>2. told'["accepted"] = told["accepted"]
    BY <1>6 DEF RtsScan
  <2>3. pc'[Recv] = pc[Recv] /\ arg'[Recv] = arg[Recv]
    BY <1>6 DEF RtsScan
  <2> QED BY <2>1, <2>2, <2>3
<1>7. CASE RelayScan
  BY <1>7 DEF RelayScan
<1>8. CASE Transport
  <2>1. ASSUME NEW k \in Conns, ConnCreateSucc(k) PROVE OneAnswer'
    BY <2>1 DEF ConnCreateSucc
  <2>2. ASSUME NEW k \in Conns, ConnCreateFail(k) PROVE OneAnswer'
    BY <2>2 DEF ConnCreateFail
  <2>3. ASSUME NEW k \in Conns, ConnClosed(k) PROVE OneAnswer'
    BY <2>3 DEF ConnClosed
  <2>4. ASSUME NEW k \in Conns, BindSucc(k) PROVE OneAnswer'
    BY <2>4 DEF BindSucc
  <2>5. ASSUME NEW k \in Conns, BindFail(k) PROVE OneAnswer'
    BY <2>5 DEF BindFail
  <2>6. ASSUME NEW k \in Conns, ConnLost(k) PROVE OneAnswer'
    BY <2>6 DEF ConnLost
  <2>7. ASSUME NEW c \in Calls, P2PConnected(c) PROVE OneAnswer'
    BY <2>7 DEF P2PConnected
  <2>8. ASSUME NEW c \in Calls, P2PConnLost(c) PROVE OneAnswer'
    BY <2>8 DEF P2PConnLost
  <2>9. CASE Flush
    BY <2>9 DEF Flush
  <2>10. CASE CloseCalls
    <3>1. /\ got' = got /\ birth' = birth
         /\ \A c \in Calls : call'[c] = call[c] \/ call'[c] = "none"
      BY <2>10 DEF CloseCalls
    <3>2. told'["accepted"] = told["accepted"]
      BY <2>10 DEF CloseCalls
    <3>3. pc'[Recv] = pc[Recv] /\ arg'[Recv] = arg[Recv]
      BY <2>10 DEF CloseCalls
    <3> QED BY <3>1, <3>2, <3>3
  <2>11. CASE KeepCalls
    BY <2>11 DEF KeepCalls
  <2> QED BY <1>8, <2>1, <2>2, <2>3, <2>4, <2>5, <2>6, <2>7, <2>8, <2>9, <2>10, <2>11
             DEF Transport
<1>9. CASE UNCHANGED vars
  BY <1>9 DEF vars
<1> QED BY <1>1, <1>2, <1>3, <1>4, <1>5, <1>6, <1>7, <1>8, <1>9 DEF Next

\* A launch thread runs once for its call.
LEMMA NextLaunchedOnce ==
  IInv /\ OnlyDialledAnswered /\ LaunchedOnce /\ [Next]_vars => LaunchedOnce'
<1> SUFFICES ASSUME IInv, OnlyDialledAnswered, LaunchedOnce, [Next]_vars PROVE LaunchedOnce'
  OBVIOUS
<1>f. TypeOK /\ OneOwner /\ Unentered /\ LaunchesInvited /\ HandlesEntered
  BY DEF IInv
<1> USE <1>f, ThreadsAssumption, CallsAssumption
    DEF TypeOK, OneOwner, Unentered, LaunchesInvited, HandlesEntered, OnlyDialledAnswered,
        LaunchedOnce,
        Calls, Threads, Waiting, CallState, Entering, Callbacks,
        Handling, Tell, LockFree, Expired,
        callVars, relayVars, threadVars, launchVars, outVars, Step,
        Goto, Rest, Resume, CloseThen, Start, Enter, Remove, Erase, Advance, Receive
<1>1. ASSUME NEW t \in Threads, Continue(t) PROVE LaunchedOnce'
  <2>1. CASE RelayBranch(t)
    BY <2>1 DEF RelayBranch
  <2>2. CASE CreateRelay(t)
    BY <2>2 DEF CreateRelay
  <2>3. ASSUME NEW k \in Conns, OpenRelay(t, k) PROVE LaunchedOnce'
    BY <2>3 DEF OpenRelay
  <2>4. CASE OpenRelayFails(t)
    BY <2>4 DEF OpenRelayFails
  <2>5. CASE SetRelay(t)
    BY <2>5 DEF SetRelay
  <2>6. CASE Insert(t)
    BY <2>6 DEF Insert
  <2>7. CASE InsertAndRequest(t)
    BY <2>7 DEF InsertAndRequest
  <2>8. CASE InsertAndLaunch(t)
    BY <2>8 DEF InsertAndLaunch
  <2>9. CASE Register(t)
    BY <2>9 DEF Register
  <2>10. CASE AnswerOk(t)
    BY <2>10 DEF AnswerOk
  <2>11. CASE AnswerFail(t)
    BY <2>11 DEF AnswerFail
  <2>12. CASE Update(t)
    BY <2>12 DEF Update
  <2>13. CASE Cancel(t)
    BY <2>13 DEF Cancel
  <2>14. CASE Delete(t)
    BY <2>14 DEF Delete
  <2>15. CASE CloseRelayWhenNoCall(t)
    BY <2>15 DEF CloseRelayWhenNoCall
  <2>16. CASE DropRelay(t)
    BY <2>16 DEF DropRelay
  <2>17. CASE CallBack(t)
    BY <2>17 DEF CallBack
  <2>18. CASE Clear(t)
    BY <2>18 DEF Clear
  <2>19. CASE Reset(t)
    BY <2>19 DEF Reset
  <2> QED BY <1>1, <2>1, <2>2, <2>3, <2>4, <2>5, <2>6, <2>7, <2>8, <2>9, <2>10, <2>11,
             <2>12, <2>13, <2>14, <2>15, <2>16, <2>17, <2>18, <2>19 DEF
             Continue
<1>2. ASSUME NEW t \in AppThreads, Application(t) PROVE LaunchedOnce'
  <2>1. ASSUME NEW c \in Calls, DialCall(t, c) PROVE LaunchedOnce'
    BY <2>1 DEF DialCall
  <2>2. ASSUME NEW c \in Calls, CloseCall(t, c) PROVE LaunchedOnce'
    BY <2>2 DEF CloseCall
  <2>3. CASE Logout(t)
    BY <2>3 DEF Logout
  <2> QED BY <1>2, <2>1, <2>2, <2>3 DEF Application
<1>3. ASSUME NEW c \in Calls, Server(c) PROVE LaunchedOnce'
  <2>1. CASE InviteRequest(c)
    BY <2>1 DEF InviteRequest
  <2>2. CASE InviteBusy(c)
    BY <2>2 DEF InviteBusy
  <2>3. ASSUME NEW ok \in BOOLEAN, CreateResponse(c, ok) PROVE LaunchedOnce'
    BY <2>3 DEF CreateResponse
  <2>4. CASE ByeRequest(c)
    BY <2>4 DEF ByeRequest
  <2>5. CASE ByeResponse(c)
    BY <2>5 DEF ByeResponse
  <2>6. CASE UpdateRequest(c)
    BY <2>6 DEF UpdateRequest
  <2>7. ASSUME NEW msg \in GotMsg, DropSignal(msg, c) PROVE LaunchedOnce'
    BY <2>7 DEF DropSignal
  <2> QED BY <1>3, <2>1, <2>2, <2>3, <2>4, <2>5, <2>6, <2>7 DEF Server
<1>4. ASSUME NEW c \in Calls, Age(c) PROVE LaunchedOnce'
  BY <1>4 DEF Age
<1>5. ASSUME NEW c \in InCalls, Launch(c) PROVE LaunchedOnce'
  <2>1. CASE LaunchBegin(c)
    BY <2>1 DEF LaunchBegin
  <2>2. CASE LaunchLock(c)
    BY <2>2 DEF LaunchLock
  <2>3. CASE LaunchGone(c)
    BY <2>3 DEF LaunchGone
  <2>4. CASE LaunchRefuse(c)
    BY <2>4 DEF LaunchRefuse
  <2>5. CASE LaunchAccept(c)
    BY <2>5 DEF LaunchAccept
  <2>6. CASE LaunchRunning(c)
    BY <2>6 DEF LaunchRunning
  <2>7. CASE LaunchP2P(c)
    BY <2>7 DEF LaunchP2P
  <2>8. CASE Unregister(c)
    BY <2>8 DEF Unregister
  <2> QED BY <1>5, <2>1, <2>2, <2>3, <2>4, <2>5, <2>6, <2>7, <2>8 DEF Launch
<1>6. CASE RtsScan
  BY <1>6 DEF RtsScan
<1>7. CASE RelayScan
  BY <1>7 DEF RelayScan
<1>8. CASE Transport
  <2>1. ASSUME NEW k \in Conns, ConnCreateSucc(k) PROVE LaunchedOnce'
    BY <2>1 DEF ConnCreateSucc
  <2>2. ASSUME NEW k \in Conns, ConnCreateFail(k) PROVE LaunchedOnce'
    BY <2>2 DEF ConnCreateFail
  <2>3. ASSUME NEW k \in Conns, ConnClosed(k) PROVE LaunchedOnce'
    BY <2>3 DEF ConnClosed
  <2>4. ASSUME NEW k \in Conns, BindSucc(k) PROVE LaunchedOnce'
    BY <2>4 DEF BindSucc
  <2>5. ASSUME NEW k \in Conns, BindFail(k) PROVE LaunchedOnce'
    BY <2>5 DEF BindFail
  <2>6. ASSUME NEW k \in Conns, ConnLost(k) PROVE LaunchedOnce'
    BY <2>6 DEF ConnLost
  <2>7. ASSUME NEW c \in Calls, P2PConnected(c) PROVE LaunchedOnce'
    BY <2>7 DEF P2PConnected
  <2>8. ASSUME NEW c \in Calls, P2PConnLost(c) PROVE LaunchedOnce'
    BY <2>8 DEF P2PConnLost
  <2>9. CASE Flush
    BY <2>9 DEF Flush
  <2>10. CASE CloseCalls
    BY <2>10 DEF CloseCalls
  <2>11. CASE KeepCalls
    BY <2>11 DEF KeepCalls
  <2> QED BY <1>8, <2>1, <2>2, <2>3, <2>4, <2>5, <2>6, <2>7, <2>8, <2>9, <2>10, <2>11
             DEF Transport
<1>9. CASE UNCHANGED vars
  BY <1>9 DEF vars
<1> QED BY <1>1, <1>2, <1>3, <1>4, <1>5, <1>6, <1>7, <1>8, <1>9 DEF Next

\* The callbacks a thread may owe, and what it owes at location l with r after it.
Reports == {"accepted"} \union Terminal
OwesAt(l, r) == IF l \in {"closeRelay", "dropRelay"} THEN r ELSE l

\* A step by which a call goes, or its end is reported once more.
LEMMA Ending ==
  ASSUME NEW d \in Calls, NEW now \in SUBSET Terminal, NEW later \in SUBSET Terminal,
         Stage(d) # "new", Stage(d)' = "gone",
         now # {} => Stage(d) # "gone",
         "refused" \in now \union later =>
           d \in OutCalls /\ Stage(d) # "running" /\
           "accepted" \notin Owed(d) /\ told["accepted"][d] = 0,
         told \in [Callbacks -> [Calls -> Nat]],
         \A k \in Callbacks : told'[k][d] = IF k \in now THEN told[k][d] + 1 ELSE told[k][d],
         Owed(d)' = Owed(d) \union later
  PROVE  Life(d)!Next
<1>1. Life(d)!End(now, later)
  BY DEF Life!End, Life!Accepted, Callbacks, Terminal, Life!Callbacks, Life!Ends
<1> QED BY <1>1 DEF Life!Next, Life!Ends, Terminal

\* The call goes, and its end is reported at once or not at all.
LEMMA EndingNow ==
  ASSUME NEW d \in Calls, NEW now \in SUBSET Terminal,
         Stage(d) # "new", Stage(d)' = "gone",
         now # {} => Stage(d) # "gone",
         "refused" \in now => d \in OutCalls /\ Stage(d) # "running" /\
                              "accepted" \notin Owed(d) /\ told["accepted"][d] = 0,
         told \in [Callbacks -> [Calls -> Nat]],
         \A k \in Callbacks : told'[k][d] = IF k \in now THEN told[k][d] + 1 ELSE told[k][d],
         Owed(d)' = Owed(d)
  PROVE  Life(d)!Next
<1>1. {} \in SUBSET Terminal /\ now \union {} = now /\ Owed(d) \union {} = Owed(d)
  OBVIOUS
<1> QED BY <1>1, Ending

\* A handler has removed the call and will report the end k.
LEMMA EndingLater ==
  ASSUME NEW d \in Calls, NEW k \in Terminal, Stage(d) # "new", Stage(d)' = "gone",
         k = "refused" => d \in OutCalls /\ Stage(d) # "running" /\
                          "accepted" \notin Owed(d) /\ told["accepted"][d] = 0,
         told \in [Callbacks -> [Calls -> Nat]],
         told' = told, Owed(d)' = Owed(d) \union {k}
  PROVE  Life(d)!Next
<1>1. /\ {} \in SUBSET Terminal /\ {k} \in SUBSET Terminal
      /\ \A j \in Callbacks : told'[j][d] = IF j \in {} THEN told[j][d] + 1 ELSE told[j][d]
  OBVIOUS
<1>2. {} \union {k} = {k}
  OBVIOUS
<1> HIDE DEF Terminal, Callbacks
<1> QED BY <1>1, <1>2, Ending

\* A call is owed what the thread that moves owed it, and what the others do.
LEMMA OwedSplit ==
  ASSUME NEW d \in Calls, NEW t \in Threads, NEW k \in Reports
  PROVE  k \in Owed(d) <=> \/ arg[t] = d /\ Owes(t) = k
                           \/ \E u \in Threads \ {t} : arg[u] = d /\ Owes(u) = k
  BY DEF Owed, Reports

\* When one thread moves, only what it owes itself changes: the launch threads
\* that it may stop owe nothing.
LEMMA OwedMoves ==
  ASSUME TypeOK, LaunchedOnce, NEW d \in Calls, NEW t \in Threads, NEW k \in Reports,
         NEW l, NEW c, NEW r, NEW killed \in SUBSET InCalls, Step(t, l, c, r, killed)
  PROVE  k \in Owed(d)' <=> \/ c = d /\ OwesAt(l, r) = k
                            \/ \E u \in Threads \ {t} : arg[u] = d /\ Owes(u) = k
<1>1. ASSUME NEW u \in Threads \ {t}
      PROVE  (arg'[u] = d /\ Owes(u)' = k) <=> (arg[u] = d /\ Owes(u) = k)
  <2>1. CASE u \in killed
    BY <2>1 DEF TypeOK, LaunchedOnce, Step, Owes, Reports, Terminal, Threads
  <2>2. CASE u \notin killed
    BY <2>2 DEF TypeOK, Step, Owes
  <2> QED BY <2>1, <2>2
<1>2. (arg'[t] = d /\ Owes(t)' = k) <=> (c = d /\ OwesAt(l, r) = k)
  BY DEF Step, Owes, OwesAt
<1>3. k \in Owed(d)' <=> \E u \in Threads : arg'[u] = d /\ Owes(u)' = k
  BY DEF Owed, Reports
<1> QED BY <1>1, <1>2, <1>3

\* A thread that begins to owe a report.
LEMMA OwedMore ==
  ASSUME TypeOK, LaunchedOnce, NEW d \in Calls, NEW t \in Threads,
         NEW l, NEW r, NEW killed \in SUBSET InCalls, Step(t, l, d, r, killed),
         OwesAt(l, r) \in Reports, Owes(t) \notin Reports
  PROVE  Owed(d)' = Owed(d) \union {OwesAt(l, r)}
<1>1. \A k \in Reports : k \in Owed(d)' <=> k \in Owed(d) \/ k = OwesAt(l, r)
  BY OwedSplit, OwedMoves
<1>2. Owed(d) \subseteq Reports /\ Owed(d)' \subseteq Reports
  BY DEF Owed, Reports
<1> QED BY <1>1, <1>2

\* A thread that has made its report.
LEMMA OwedLess ==
  ASSUME TypeOK, LaunchedOnce, NEW d \in Calls, NEW t \in Threads, arg[t] = d,
         NEW k \in Reports, Owes(t) = k,
         NEW l, NEW c, NEW r, NEW killed \in SUBSET InCalls, Step(t, l, c, r, killed),
         OwesAt(l, r) \notin Reports
  PROVE  /\ k \in Owed(d)
         /\ \/ Owed(d)' = Owed(d) \ {k}
            \/ Owed(d)' = Owed(d) /\ \E u \in Threads \ {t} : arg[u] = d /\ Owes(u) = k
<1>1. \A j \in Reports \ {k} : j \in Owed(d)' <=> j \in Owed(d)
  BY OwedSplit, OwedMoves
<1>2. k \in Owed(d)
  BY OwedSplit
<1>3. k \in Owed(d)' <=> \E u \in Threads \ {t} : arg[u] = d /\ Owes(u) = k
  BY OwedMoves
<1>4. Owed(d) \subseteq Reports /\ Owed(d)' \subseteq Reports
  BY DEF Owed, Reports
<1> QED BY <1>1, <1>2, <1>3, <1>4

\* Nothing of call d changes: no thread that owes it a report, or will, moves.
Quiet(d) ==
  \A u \in Threads :
    (arg[u] = d /\ Owes(u) \in Reports) \/ (arg'[u] = d /\ Owes(u)' \in Reports) =>
      arg'[u] = arg[u] /\ Owes(u)' = Owes(u)
ToldSame(d) == \A k \in Callbacks : told'[k][d] = told[k][d]
Untouched(d) == Stage(d)' = Stage(d) /\ Quiet(d) /\ ToldSame(d)

LifeStep(d) == Life(d)!Next \/ UNCHANGED Life(d)!vars

\* Then the same reports are owed.
LEMMA OwedStays ==
  ASSUME NEW d \in Calls, Quiet(d)
  PROVE  Owed(d)' = Owed(d)
  BY DEF Owed, Reports, Quiet

\* A step that a call does not notice.
LEMMA Unnoticed ==
  ASSUME NEW d \in Calls, Untouched(d)
  PROVE  LifeStep(d)
<1>1. Owed(d)' = Owed(d)
  BY OwedStays DEF Untouched
<1> QED BY <1>1 DEF LifeStep, Life!vars, Untouched, ToldSame

\* Only the receive thread can owe an acceptance.
LEMMA OwedAccepted ==
  ASSUME TypeOK, OnlyDialledAnswered, NEW d \in Calls, "accepted" \in Owed(d)
  PROVE  Answered(d)
  BY DEF TypeOK, OnlyDialledAnswered, Owed, Owes, Answered, Terminal

\* A call enters the table.
LEMMA EnteringStep ==
  ASSUME NEW d \in Calls, Stage(d) = "new", Stage(d)' = "waiting",
         Owed(d)' = Owed(d), told' = told
  PROVE  Life(d)!Next
  BY DEF Life!Next, Life!Enter

\* A call is accepted.
LEMMA AcceptingStep ==
  ASSUME NEW d \in Calls, Stage(d) = "waiting", Stage(d)' = "running",
         Owed(d)' = IF d \in OutCalls THEN Owed(d) \union {"accepted"} ELSE Owed(d),
         told' = told
  PROVE  Life(d)!Next
  BY DEF Life!Next, Life!Accept

\* The application is asked.
LEMMA LaunchingStep ==
  ASSUME NEW d \in Calls, d \notin OutCalls, Stage(d) = "waiting", Stage(d)' = Stage(d),
         told["launched"][d] = 0, Owed(d)' = Owed(d),
         \A k \in Callbacks : told'[k][d] = IF k = "launched" THEN 1 ELSE told[k][d]
  PROVE  Life(d)!Next
<1>1. Life(d)!Launch
  BY DEF Life!Launch, Callbacks
<1> QED BY <1>1 DEF Life!Next

\* A report is made.
LEMMA ReportingStep ==
  ASSUME NEW d \in Calls, NEW k \in Reports, k \in Owed(d), Stage(d)' = Stage(d),
         Owed(d)' = Owed(d) \ {k} \/ (k \in Terminal /\ Owed(d)' = Owed(d)),
         \A j \in Callbacks : told'[j][d] = IF j = k THEN told[j][d] + 1 ELSE told[j][d]
  PROVE  Life(d)!Next
<1>1. Life(d)!Report(k)
  BY DEF Life!Report, Life!Ends, Callbacks, Reports, Terminal
<1> QED BY <1>1 DEF Life!Next, Life!Callbacks, Life!Ends, Reports, Terminal

\* Every step is a step of each call's life, or one the call does not notice.
LEMMA LifeSteps ==
  ASSUME LifeInv, [Next]_vars, NEW d \in Calls
  PROVE  LifeStep(d)
<1>f. TypeOK /\ AnswersLocked /\ HandlesEntered /\ EndingIsRemoved /\ OneOwner /\ Unentered
  BY DEF LifeInv, IInv
<1>g. OnlyDialledAnswered /\ OneAnswer /\ LaunchedOnce
  BY DEF LifeInv
<1> USE <1>f, <1>g, ThreadsAssumption, CallsAssumption
    DEF TypeOK, OneOwner, Unentered, HandlesEntered, EndingIsRemoved,
        OnlyDialledAnswered, OneAnswer, LaunchedOnce, Calls, Threads, Waiting, CallState,
        Entering, Handling, Terminal, Callbacks, Stage, Quiet, ToldSame, Untouched, Owes,
        Reports, Step, Goto, Rest, Start, Receive, Resume, CloseThen, Tell, Enter,
        Remove, Erase, Advance, callVars, threadVars, outVars
<1>1. ASSUME NEW t \in Threads, Continue(t) PROVE LifeStep(d)
  <2>1. CASE RelayBranch(t)
    BY <2>1, Unnoticed DEF RelayBranch
  <2>2. CASE CreateRelay(t)
    BY <2>2, Unnoticed DEF CreateRelay
  <2>3. ASSUME NEW k \in Conns, OpenRelay(t, k) PROVE LifeStep(d)
    BY <2>3, Unnoticed DEF OpenRelay
  <2>4. CASE OpenRelayFails(t)
    BY <2>4, Unnoticed DEF OpenRelayFails
  <2>5. CASE SetRelay(t)
    BY <2>5, Unnoticed DEF SetRelay
  <2>6. CASE Insert(t)
    <3>1. Quiet(d)
      BY <2>6 DEF Insert
    <3>2. told' = told
      BY <2>6 DEF Insert
    <3>3. CASE d = arg[t]
      <4>1. Stage(d) = "new" /\ Stage(d)' = "waiting"
        BY <2>6, <3>3 DEF Insert
      <4> QED BY <3>1, <3>2, <4>1, OwedStays, EnteringStep DEF LifeStep
    <3>4. CASE d # arg[t]
      <4>1. Stage(d)' = Stage(d)
        BY <2>6, <3>4 DEF Insert
      <4> QED BY <3>1, <3>2, <4>1, OwedStays, Unnoticed DEF LifeStep
    <3> QED BY <3>3, <3>4
  <2>7. CASE InsertAndRequest(t)
    <3>1. Quiet(d)
      BY <2>7 DEF InsertAndRequest
    <3>2. told' = told
      BY <2>7 DEF InsertAndRequest
    <3>3. CASE d = arg[t]
      <4>1. Stage(d) = "new" /\ Stage(d)' = "waiting"
        BY <2>7, <3>3 DEF InsertAndRequest
      <4> QED BY <3>1, <3>2, <4>1, OwedStays, EnteringStep DEF LifeStep
    <3>4. CASE d # arg[t]
      <4>1. Stage(d)' = Stage(d)
        BY <2>7, <3>4 DEF InsertAndRequest
      <4> QED BY <3>1, <3>2, <4>1, OwedStays, Unnoticed DEF LifeStep
    <3> QED BY <3>3, <3>4
  <2>8. CASE InsertAndLaunch(t)
    <3>1. Quiet(d)
      BY <2>8 DEF InsertAndLaunch
    <3>2. told' = told
      BY <2>8 DEF InsertAndLaunch
    <3>3. CASE d = arg[t]
      <4>1. Stage(d) = "new" /\ Stage(d)' = "waiting"
        BY <2>8, <3>3 DEF InsertAndLaunch
      <4> QED BY <3>1, <3>2, <4>1, OwedStays, EnteringStep DEF LifeStep
    <3>4. CASE d # arg[t]
      <4>1. Stage(d)' = Stage(d)
        BY <2>8, <3>4 DEF InsertAndLaunch
      <4> QED BY <3>1, <3>2, <4>1, OwedStays, Unnoticed DEF LifeStep
    <3> QED BY <3>3, <3>4
  <2>9. CASE Register(t)
    BY <2>9, Unnoticed DEF Register
  <2>10. CASE AnswerOk(t)
    <3>1. CASE d = arg[t] /\ call[d] # "none"
      <4>1. Stage(d) = "waiting" /\ Stage(d)' = "running" /\ d \in OutCalls
        BY <2>10, <3>1 DEF AnswerOk
      <4>2. Step(t, "accepted", d, "idle", {})
        BY <2>10, <3>1 DEF AnswerOk
      <4>3. /\ OwesAt("accepted", "idle") = "accepted" /\ "accepted" \in Reports
            /\ Owes(t) \notin Reports
        BY <2>10 DEF AnswerOk, OwesAt
      <4>5. Owed(d)' = Owed(d) \union {"accepted"}
        <5> HIDE DEF TypeOK, LaunchedOnce, Calls, Threads, Terminal, Reports, Owes, Step
        <5> QED BY <4>2, <4>3, OwedMore
      <4>4. told' = told
        BY <2>10 DEF AnswerOk
      <4> QED BY <4>1, <4>4, <4>5, AcceptingStep DEF LifeStep
    <3>2. CASE ~(d = arg[t] /\ call[d] # "none")
      BY <2>10, <3>2, Unnoticed DEF AnswerOk
    <3> QED BY <3>1, <3>2
  <2>11. CASE AnswerFail(t)
    <3>1. CASE d = arg[t]
      <4>1. Stage(d) # "new" /\ Stage(d)' = "gone"
        BY <2>11, <3>1 DEF AnswerFail
      <4>2. Step(t, "closeRelay", d, "refused", {})
        BY <2>11, <3>1 DEF AnswerFail
      <4>3. /\ OwesAt("closeRelay", "refused") = "refused" /\ "refused" \in Reports
            /\ Owes(t) \notin Reports
        BY <2>11 DEF AnswerFail, OwesAt
      <4>6. Owed(d)' = Owed(d) \union {"refused"}
        <5> HIDE DEF TypeOK, LaunchedOnce, Calls, Threads, Terminal, Reports, Owes, Step
        <5> QED BY <4>2, <4>3, OwedMore
      <4>4. told' = told
        BY <2>11 DEF AnswerFail
      <4>5. "refused" = "refused" =>
              d \in OutCalls /\ Stage(d) # "running" /\
              "accepted" \notin Owed(d) /\ told["accepted"][d] = 0
        BY <2>11, <3>1, OwedAccepted DEF AnswerFail, Answered
      <4> QED BY <4>1, <4>4, <4>5, <4>6, EndingLater DEF LifeStep
    <3>2. CASE d # arg[t]
      BY <2>11, <3>2, Unnoticed DEF AnswerFail
    <3> QED BY <3>1, <3>2
  <2>12. CASE Update(t)
    BY <2>12, Unnoticed DEF Update
  <2>13. CASE Cancel(t)
    BY <2>13, Unnoticed DEF Cancel
  <2>14. CASE Delete(t)
    <3>1. CASE d = arg[t]
      <4>1. Stage(d) # "new" /\ Stage(d)' = "gone"
        BY <2>14, <3>1 DEF Delete
      <4>2. Step(t, "closeRelay", d, "closed", {})
        BY <2>14, <3>1 DEF Delete
      <4>3. /\ OwesAt("closeRelay", "closed") = "closed" /\ "closed" \in Reports
            /\ Owes(t) \notin Reports
        BY <2>14 DEF Delete, OwesAt
      <4>6. Owed(d)' = Owed(d) \union {"closed"}
        <5> HIDE DEF TypeOK, LaunchedOnce, Calls, Threads, Terminal, Reports, Owes, Step
        <5> QED BY <4>2, <4>3, OwedMore
      <4>4. told' = told
        BY <2>14 DEF Delete
      <4>5. "closed" = "refused" =>
              d \in OutCalls /\ Stage(d) # "running" /\
              "accepted" \notin Owed(d) /\ told["accepted"][d] = 0
        BY <2>14, <3>1, OwedAccepted DEF Delete, Answered
      <4> QED BY <4>1, <4>4, <4>5, <4>6, EndingLater DEF LifeStep
    <3>2. CASE d # arg[t]
      BY <2>14, <3>2, Unnoticed DEF Delete
    <3> QED BY <3>1, <3>2
  <2>15. CASE CloseRelayWhenNoCall(t)
    BY <2>15, Unnoticed DEF CloseRelayWhenNoCall
  <2>16. CASE DropRelay(t)
    BY <2>16, Unnoticed DEF DropRelay
  <2>17. CASE CallBack(t)
    <3>1. CASE d = arg[t]
      <4>1. Stage(d)' = Stage(d) /\ pc[t] \in Reports /\ Owes(t) = pc[t]
        BY <2>17 DEF CallBack
      <4>2. Step(t, "idle", NoCall, "idle", {}) /\ OwesAt("idle", "idle") \notin Reports
        BY <2>17 DEF CallBack, OwesAt
      <4>3. /\ pc[t] \in Owed(d)
            /\ \/ Owed(d)' = Owed(d) \ {pc[t]}
               \/ Owed(d)' = Owed(d) /\ \E u \in Threads \ {t} : arg[u] = d /\ Owes(u) = pc[t]
        <5> HIDE DEF TypeOK, LaunchedOnce, Calls, Threads, Terminal, Reports, Owes, Step
        <5> QED BY <3>1, <4>1, <4>2, OwedLess
      <4>4. ASSUME NEW u \in Threads \ {t}, Owes(u) = pc[t] PROVE pc[t] \in Terminal
        BY <2>17, <4>4 DEF CallBack
      <4>5. \A j \in Callbacks : told'[j][d] = IF j = pc[t] THEN told[j][d] + 1 ELSE told[j][d]
        BY <2>17, <3>1 DEF CallBack
      <4> QED BY <4>1, <4>3, <4>4, <4>5, ReportingStep DEF LifeStep
    <3>2. CASE d # arg[t]
      <4>1. Stage(d)' = Stage(d) /\ Quiet(d)
        BY <2>17, <3>2 DEF CallBack
      <4>2. ToldSame(d)
        BY <2>17, <3>2 DEF CallBack
      <4> QED BY <4>1, <4>2, Unnoticed
    <3> QED BY <3>1, <3>2
  <2>18. CASE Clear(t)
    <3>1. CASE birth[d] = "entered"
      <4> DEFINE now == {}
      <4>1. Stage(d) # "new" /\ Stage(d)' = "gone" /\ (now # {} => Stage(d) # "gone")
        BY <2>18, <3>1 DEF Clear
      <4>2. Quiet(d)
        BY <2>18 DEF Clear
      <4>3. \A k \in Callbacks : told'[k][d] = IF k \in now THEN told[k][d] + 1 ELSE told[k][d]
        BY <2>18, <3>1 DEF Clear
      <4>4. "refused" \in now =>
              d \in OutCalls /\ Stage(d) # "running" /\
              "accepted" \notin Owed(d) /\ told["accepted"][d] = 0
        BY <2>18, <3>1, OwedAccepted DEF Clear, Answered
      <4>5. now \in SUBSET Terminal /\ Owed(d)' = Owed(d)
        BY <4>2, OwedStays
      <4> HIDE DEF now
      <4> QED BY <4>1, <4>3, <4>4, <4>5, EndingNow DEF LifeStep
    <3>2. CASE ~(birth[d] = "entered")
      BY <2>18, <3>2, Unnoticed DEF Clear
    <3> QED BY <3>1, <3>2
  <2>19. CASE Reset(t)
    BY <2>19, Unnoticed DEF Reset
  <2> QED BY <1>1, <2>1, <2>2, <2>3, <2>4, <2>5, <2>6, <2>7, <2>8, <2>9, <2>10, <2>11,
             <2>12, <2>13, <2>14, <2>15, <2>16, <2>17, <2>18, <2>19 DEF
             Continue
<1>2. ASSUME NEW t \in AppThreads, Application(t) PROVE LifeStep(d)
  <2>1. ASSUME NEW c \in Calls, DialCall(t, c) PROVE LifeStep(d)
    BY <2>1, Unnoticed DEF DialCall
  <2>2. ASSUME NEW c \in Calls, CloseCall(t, c) PROVE LifeStep(d)
    BY <2>2, Unnoticed DEF CloseCall
  <2>3. CASE Logout(t)
    <3>1. CASE birth[d] = "entered"
      <4> DEFINE now == IF d \in callVec /\ call[d] = "RUNNING" THEN {"closed"} ELSE {}
      <4>1. Stage(d) # "new" /\ Stage(d)' = "gone" /\ (now # {} => Stage(d) # "gone")
        BY <2>3, <3>1 DEF Logout
      <4>2. Quiet(d)
        BY <2>3 DEF Logout
      <4>3. \A k \in Callbacks : told'[k][d] = IF k \in now THEN told[k][d] + 1 ELSE told[k][d]
        BY <2>3, <3>1 DEF Logout
      <4>4. "refused" \in now =>
              d \in OutCalls /\ Stage(d) # "running" /\
              "accepted" \notin Owed(d) /\ told["accepted"][d] = 0
        BY <2>3, <3>1, OwedAccepted DEF Logout, Answered
      <4>5. now \in SUBSET Terminal /\ Owed(d)' = Owed(d)
        BY <4>2, OwedStays
      <4> HIDE DEF now
      <4> QED BY <4>1, <4>3, <4>4, <4>5, EndingNow DEF LifeStep
    <3>2. CASE ~(birth[d] = "entered")
      <4>1. Stage(d)' = Stage(d) /\ Quiet(d)
        BY <2>3, <3>2 DEF Logout
      <4>2. ToldSame(d)
        BY <2>3, <3>2 DEF Logout
      <4> QED BY <4>1, <4>2, Unnoticed
    <3> QED BY <3>1, <3>2
  <2> QED BY <1>2, <2>1, <2>2, <2>3 DEF Application
<1>3. ASSUME NEW c \in Calls, Server(c) PROVE LifeStep(d)
  <2>1. CASE InviteRequest(c)
    BY <2>1, Unnoticed DEF InviteRequest
  <2>2. CASE InviteBusy(c)
    BY <2>2, Unnoticed DEF InviteBusy
  <2>3. ASSUME NEW ok \in BOOLEAN, CreateResponse(c, ok) PROVE LifeStep(d)
    BY <2>3, Unnoticed DEF CreateResponse
  <2>4. CASE ByeRequest(c)
    BY <2>4, Unnoticed DEF ByeRequest
  <2>5. CASE ByeResponse(c)
    BY <2>5, Unnoticed DEF ByeResponse
  <2>6. CASE UpdateRequest(c)
    BY <2>6, Unnoticed DEF UpdateRequest
  <2>7. ASSUME NEW msg \in GotMsg, DropSignal(msg, c) PROVE LifeStep(d)
    BY <2>7, Unnoticed DEF DropSignal
  <2> QED BY <1>3, <2>1, <2>2, <2>3, <2>4, <2>5, <2>6, <2>7 DEF Server
<1>4. ASSUME NEW c \in Calls, Age(c) PROVE LifeStep(d)
  BY <1>4, Unnoticed DEF Age
<1>5. ASSUME NEW c \in InCalls, Launch(c) PROVE LifeStep(d)
  <2>1. CASE LaunchBegin(c)
    <3>1. CASE d = c /\ call[d] # "none"
      <4>1. /\ Stage(d) = "waiting" /\ Stage(d)' = Stage(d)
            /\ d \notin OutCalls /\ told["launched"][d] = 0
        BY <2>1, <3>1 DEF LaunchBegin
      <4>2. Quiet(d)
        BY <2>1 DEF LaunchBegin
      <4>3. \A k \in Callbacks : told'[k][d] = IF k = "launched" THEN 1 ELSE told[k][d]
        BY <2>1, <3>1, <4>1 DEF LaunchBegin
      <4> QED BY <4>1, <4>2, <4>3, OwedStays, LaunchingStep DEF LifeStep
    <3>2. CASE ~(d = c /\ call[d] # "none")
      BY <2>1, <3>2, Unnoticed DEF LaunchBegin
    <3> QED BY <3>1, <3>2
  <2>2. CASE LaunchLock(c)
    BY <2>2, Unnoticed DEF LaunchLock
  <2>3. CASE LaunchGone(c)
    BY <2>3, Unnoticed DEF LaunchGone
  <2>4. CASE LaunchRefuse(c)
    <3>1. CASE d = c
      <4> DEFINE now == {}
      <4>1. Stage(d) # "new" /\ Stage(d)' = "gone" /\ (now # {} => Stage(d) # "gone")
        BY <2>4, <3>1 DEF LaunchRefuse
      <4>2. Quiet(d)
        BY <2>4 DEF LaunchRefuse
      <4>3. \A k \in Callbacks : told'[k][d] = IF k \in now THEN told[k][d] + 1 ELSE told[k][d]
        BY <2>4, <3>1 DEF LaunchRefuse
      <4>4. "refused" \in now =>
              d \in OutCalls /\ Stage(d) # "running" /\
              "accepted" \notin Owed(d) /\ told["accepted"][d] = 0
        BY <2>4, <3>1, OwedAccepted DEF LaunchRefuse, Answered
      <4>5. now \in SUBSET Terminal /\ Owed(d)' = Owed(d)
        BY <4>2, OwedStays
      <4> HIDE DEF now
      <4> QED BY <4>1, <4>3, <4>4, <4>5, EndingNow DEF LifeStep
    <3>2. CASE ~(d = c)
      BY <2>4, <3>2, Unnoticed DEF LaunchRefuse
    <3> QED BY <3>1, <3>2
  <2>5. CASE LaunchAccept(c)
    BY <2>5, Unnoticed DEF LaunchAccept
  <2>6. CASE LaunchRunning(c)
    <3>1. CASE d = c
      <4>1. Stage(d) = "waiting" /\ Stage(d)' = "running" /\ d \notin OutCalls
        BY <2>6, <3>1 DEF LaunchRunning, AnswersLocked
      <4>2. Quiet(d) /\ told' = told
        BY <2>6 DEF LaunchRunning
      <4> QED BY <4>1, <4>2, OwedStays, AcceptingStep DEF LifeStep
    <3>2. CASE d # c
      BY <2>6, <3>2, Unnoticed DEF LaunchRunning
    <3> QED BY <3>1, <3>2
  <2>7. CASE LaunchP2P(c)
    BY <2>7, Unnoticed DEF LaunchP2P
  <2>8. CASE Unregister(c)
    BY <2>8, Unnoticed DEF Unregister
  <2> QED BY <1>5, <2>1, <2>2, <2>3, <2>4, <2>5, <2>6, <2>7, <2>8 DEF Launch
<1>6. CASE RtsScan
  <2>1. CASE d \in Expired
    <3> DEFINE now == IF call[d] \in {"WAIT_SEND_CREATE_REQUEST", "WAIT_CREATE_RESPONSE"}
                      THEN {"refused"} ELSE {"closed"}
    <3>1. Stage(d) # "new" /\ Stage(d)' = "gone" /\ (now # {} => Stage(d) # "gone")
      BY <1>6, <2>1 DEF RtsScan, Expired
    <3>2. Quiet(d)
      <4>1. \A u \in InCalls : Owes(u) \notin Reports
        OBVIOUS
      <4>2. Step(Check, "closeRelay", NoCall, "idle",
                 {c \in Expired : call[c] \notin {"WAIT_SEND_CREATE_REQUEST",
                                                "WAIT_CREATE_RESPONSE"}} \intersect launchCalls)
        BY <1>6 DEF RtsScan
      <4>3. pc[Check] = "idle" /\ launchCalls \subseteq InCalls
        BY <1>6 DEF RtsScan
      <4> QED BY <4>1, <4>2, <4>3
    <3>3. \A k \in Callbacks : told'[k][d] = IF k \in now THEN told[k][d] + 1 ELSE told[k][d]
      BY <1>6, <2>1 DEF RtsScan, Expired
    <3>4. "refused" \in now =>
            d \in OutCalls /\ Stage(d) # "running" /\
            "accepted" \notin Owed(d) /\ told["accepted"][d] = 0
      <4>1. CASE call[d] \in {"WAIT_SEND_CREATE_REQUEST", "WAIT_CREATE_RESPONSE"}
        <5>1. d \in OutCalls /\ ~Answered(d) /\ Stage(d) # "running"
          BY <4>1
        <5>2. told["accepted"][d] = 0
          BY <5>1 DEF Answered
        <5>3. "accepted" \notin Owed(d)
          <6> HIDE DEF TypeOK, OnlyDialledAnswered, Calls
          <6> QED BY <5>1, OwedAccepted
        <5> QED BY <5>1, <5>2, <5>3
      <4>2. CASE call[d] \notin {"WAIT_SEND_CREATE_REQUEST", "WAIT_CREATE_RESPONSE"}
        BY <4>2
      <4> QED BY <4>1, <4>2
    <3>5. now \in SUBSET Terminal /\ Owed(d)' = Owed(d)
      BY <3>2, OwedStays
    <3> HIDE DEF now
    <3> QED BY <3>1, <3>3, <3>4, <3>5, EndingNow DEF LifeStep
  <2>2. CASE ~(d \in Expired)
    <3>1. Stage(d)' = Stage(d) /\ Quiet(d)
      BY <1>6, <2>2 DEF RtsScan, Expired
    <3>2. ToldSame(d)
      BY <1>6, <2>2 DEF RtsScan, Expired
    <3> QED BY <3>1, <3>2, Unnoticed
  <2> QED BY <2>1, <2>2
<1>7. CASE RelayScan
  BY <1>7, Unnoticed DEF RelayScan
<1>8. CASE Transport
  <2>1. ASSUME NEW k \in Conns, ConnCreateSucc(k) PROVE LifeStep(d)
    BY <2>1, Unnoticed DEF ConnCreateSucc
  <2>2. ASSUME NEW k \in Conns, ConnCreateFail(k) PROVE LifeStep(d)
    BY <2>2, Unnoticed DEF ConnCreateFail
  <2>3. ASSUME NEW k \in Conns, ConnClosed(k) PROVE LifeStep(d)
    BY <2>3, Unnoticed DEF ConnClosed
  <2>4. ASSUME NEW k \in Conns, BindSucc(k) PROVE LifeStep(d)
    BY <2>4, Unnoticed DEF BindSucc
  <2>5. ASSUME NEW k \in Conns, BindFail(k) PROVE LifeStep(d)
    BY <2>5, Unnoticed DEF BindFail
  <2>6. ASSUME NEW k \in Conns, ConnLost(k) PROVE LifeStep(d)
    BY <2>6, Unnoticed DEF ConnLost
  <2>7. ASSUME NEW c \in Calls, P2PConnected(c) PROVE LifeStep(d)
    BY <2>7, Unnoticed DEF P2PConnected
  <2>8. ASSUME NEW c \in Calls, P2PConnLost(c) PROVE LifeStep(d)
    BY <2>8, Unnoticed DEF P2PConnLost
  <2>9. CASE Flush
    BY <2>9, Unnoticed DEF Flush
  <2>10. CASE CloseCalls
    <3>1. CASE d \in callVec /\ call[d] # "none" /\ p2p[d] # "up"
      <4> DEFINE now == IF call[d] = "RUNNING" THEN {"closed"} ELSE {}
      <4>1. Stage(d) # "new" /\ Stage(d)' = "gone" /\ (now # {} => Stage(d) # "gone")
        BY <2>10, <3>1 DEF CloseCalls
      <4>2. Quiet(d)
        BY <2>10 DEF CloseCalls
      <4>3. \A k \in Callbacks : told'[k][d] = IF k \in now THEN told[k][d] + 1 ELSE told[k][d]
        BY <2>10, <3>1 DEF CloseCalls
      <4>4. "refused" \in now =>
              d \in OutCalls /\ Stage(d) # "running" /\
              "accepted" \notin Owed(d) /\ told["accepted"][d] = 0
        BY <2>10, <3>1, OwedAccepted DEF CloseCalls, Answered
      <4>5. now \in SUBSET Terminal /\ Owed(d)' = Owed(d)
        BY <4>2, OwedStays
      <4> HIDE DEF now
      <4> QED BY <4>1, <4>3, <4>4, <4>5, EndingNow DEF LifeStep
    <3>2. CASE ~(d \in callVec /\ call[d] # "none" /\ p2p[d] # "up")
      <4>1. Stage(d)' = Stage(d) /\ Quiet(d)
        BY <2>10, <3>2, SMTT(30) DEF CloseCalls
      <4>2. ToldSame(d)
        BY <2>10, <3>2 DEF CloseCalls
      <4> QED BY <4>1, <4>2, Unnoticed
    <3> QED BY <3>1, <3>2
  <2>11. CASE KeepCalls
    BY <2>11, Unnoticed DEF KeepCalls
  <2> QED BY <1>8, <2>1, <2>2, <2>3, <2>4, <2>5, <2>6, <2>7, <2>8, <2>9, <2>10, <2>11
             DEF Transport
<1>9. CASE UNCHANGED vars
  BY <1>9, Unnoticed DEF vars
<1> QED BY <1>1, <1>2, <1>3, <1>4, <1>5, <1>6, <1>7, <1>8, <1>9 DEF Next

\* The invariant that the refinement rests on holds throughout.
LEMMA LifeInvariant == Spec => []LifeInv
<1>1. Init => LifeInv
  <2> SUFFICES ASSUME Init PROVE LifeInv
    OBVIOUS
  <2> USE ThreadsAssumption, CallsAssumption DEF Init, Threads, Calls, Callbacks
  <2>1. IInv
    BY InitInv
  <2>2. OnlyDialledAnswered /\ OneAnswer
    BY DEF OnlyDialledAnswered, OneAnswer, Answered
  <2>3. LaunchedOnce
    BY DEF LaunchedOnce
  <2> QED BY <2>1, <2>2, <2>3 DEF LifeInv
<1>2. LifeInv /\ [Next]_vars => LifeInv'
  BY NextInv, NextOnlyDialled, NextOneAnswer, NextLaunchedOnce DEF LifeInv
<1> QED BY <1>1, <1>2, PTL DEF Spec

\* A call begins its life outside the table.
LEMMA LifeInit == ASSUME Init, NEW c \in Calls PROVE Life(c)!Init
<1>1. Owed(c) = {}
  BY ThreadsAssumption DEF Init, Owed, Owes, Terminal, Threads
<1>2. Stage(c) = "new" /\ [k \in Callbacks |-> told[k][c]] = [k \in Life(c)!Callbacks |-> 0]
  BY DEF Init, Stage, Callbacks, Life!Callbacks, Life!Ends
<1> QED BY <1>1, <1>2 DEF Life!Init

\* Every call of the table lives as CallLifecycle says, for any number of calls
\* and threads and every fault of the relay.
THEOREM Implementation == Spec => ImplementsLifecycle
<1>1. Init => \A c \in Calls : Life(c)!Init
  BY LifeInit
<1>2. LifeInv /\ [Next]_vars => [\A c \in Calls : [Life(c)!Next]_(Life(c)!vars)]_vars
  BY LifeSteps DEF LifeStep
<1> QED BY <1>1, <1>2, LifeInvariant, PTL DEF Spec, ImplementsLifecycle

\* What CallLifecycle promises of one call follows from its steps.
LEMMA LifePromises == ASSUME NEW c \in Calls PROVE Life(c)!Spec => []Life(c)!OneVerdict
<1> USE DEF Life!Callbacks, Life!Ends, Life!Accepted
<1>1. Life(c)!Init => Life(c)!Inv
  BY DEF Life!Init, Life!Inv
<1>2. Life(c)!Inv /\ [Life(c)!Next]_(Life(c)!vars) => Life(c)!Inv'
  <2> SUFFICES ASSUME Life(c)!Inv, [Life(c)!Next]_(Life(c)!vars) PROVE Life(c)!Inv'
    OBVIOUS
  <2> USE DEF Life!Inv
  <2>1. CASE Life(c)!Enter
    BY <2>1 DEF Life!Enter
  <2>2. CASE Life(c)!Launch
    BY <2>2 DEF Life!Launch
  <2>3. CASE Life(c)!Accept
    BY <2>3 DEF Life!Accept
  <2>4. ASSUME NEW now \in SUBSET Life(c)!Ends, NEW later \in SUBSET Life(c)!Ends,
               Life(c)!End(now, later)
        PROVE  Life(c)!Inv'
    <3> DEFINE T == [k \in Callbacks |-> told[k][c]]
    <3>1. T' = [k \in Callbacks |-> IF k \in now THEN T[k] + 1 ELSE T[k]]
      BY <2>4 DEF Life!End, Callbacks
    <3>2. T' \in [Callbacks -> Nat]
      BY <3>1 DEF Callbacks
    <3>3. /\ T'["accepted"] = T["accepted"] /\ T'["launched"] = T["launched"]
          /\ T'["refused"] \in {T["refused"], T["refused"] + 1}
          /\ "refused" \notin now => T'["refused"] = T["refused"]
      BY <3>1 DEF Callbacks
    <3>4. /\ Owed(c)' = Owed(c) \union later /\ Stage(c)' = "gone"
          /\ "refused" \in now \union later =>
               "accepted" \notin Owed(c) /\ T["accepted"] = 0
      BY <2>4 DEF Life!End
    <3>5. "accepted" \in Owed(c)' \/ T'["accepted"] > 0 =>
            "refused" \notin Owed(c)' /\ T'["refused"] = 0
      BY <3>3, <3>4
    <3> HIDE DEF T
    <3> QED BY <3>2, <3>3, <3>4, <3>5 DEF T
  <2>5. ASSUME NEW k \in Life(c)!Callbacks, Life(c)!Report(k)
        PROVE  Life(c)!Inv'
    BY <2>5 DEF Life!Report
  <2>6. CASE UNCHANGED Life(c)!vars
    BY <2>6 DEF Life!vars
  <2> QED BY <2>1, <2>2, <2>3, <2>4, <2>5, <2>6 DEF Life!Next
<1>3. Life(c)!Inv => Life(c)!OneVerdict
  BY DEF Life!Inv, Life!OneVerdict
<1> QED BY <1>1, <1>2, <1>3, PTL DEF Life!Spec

\* The application gets one verdict on each call, and hears of no end too soon.
THEOREM VerdictsAreFinal == ASSUME NEW c \in Calls PROVE Spec => []Life(c)!OneVerdict
<1>1. Init => Life(c)!Init
  BY LifeInit
<1>2. LifeInv /\ [Next]_vars => [Life(c)!Next]_(Life(c)!vars)
  BY LifeSteps DEF LifeStep
<1>3. Spec => Life(c)!Spec
  BY <1>1, <1>2, LifeInvariant, PTL DEF Spec, Life!Spec
<1> QED BY <1>3, LifePromises, PTL
=============================================================================
