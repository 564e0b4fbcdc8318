------------------------- MODULE PgFixedConnProofs -------------------------
(***************************************************************************)
(* Proofs about PgFixedConn, for any set of request kinds and any bounds.  *)
(***************************************************************************)
EXTENDS PgFixedConn, TLAPS

USE KindsAssumption, BoundsAssumption, StartupsAssumption DEF BoundsAssumption

---------------------------------------------------------------------------
\* Type correctness, one lemma for each part of the state.

LEMMA RouteTypeStep == TypeOK /\ Next => RouteTypeOK'
<1> SUFFICES ASSUME TypeOK, Next PROVE RouteTypeOK'
  OBVIOUS
<1> USE DEF TypeOK, RouteTypeOK, ServerTypeOK, TaskTypeOK, TxStates, Continuity
<1>1. CASE UNCHANGED handleVars
  BY <1>1 DEF handleVars
<1>2. CASE RefuseByGuard
  BY <1>2 DEF RefuseByGuard, Refuse
<1>3. CASE RefuseByState
  BY <1>3 DEF RefuseByState, Refuse
<1>4. CASE SendRequest
  BY <1>4 DEF SendRequest, ContinuityOnSend
<1>5. CASE FinishRequest
  BY <1>5 DEF FinishRequest, ContinuityAfter, ConnectionAfter, ReadyForQuery
<1>6. CASE FinishDisconnect
  BY <1>6 DEF FinishDisconnect
<1>7. CASE FailUser
  BY <1>7 DEF FailUser
<1>8. QED
  BY <1>1, <1>2, <1>3, <1>4, <1>5, <1>6, <1>7
     DEF Next, Start, ConnectOk, ConnectFail, ReceiveReply, Break, PeerClosed, Timeout,
         StartupDone, StartupRejected, StartupNull, FailStartup, IdleClose,
         ServerStartup, ServerAnswer, ServerTerminates, ServerDies, Halted, vars

LEMMA SocketTypeStep == TypeOK /\ Next => SocketTypeOK'
<1> SUFFICES ASSUME TypeOK, Next PROVE SocketTypeOK'
  OBVIOUS
<1> USE DEF TypeOK, SocketTypeOK, ProtocolStates
<1>1. CASE UNCHANGED sockVars
  BY <1>1 DEF sockVars
<1>2. CASE \E inFlight : CloseSocket(inFlight)
  BY <1>2 DEF CloseSocket
<1>3. CASE ConnectOk
  BY <1>3 DEF ConnectOk
<1>4. CASE SendRequest
  BY <1>4 DEF SendRequest, StateAfterSend
<1>5. CASE FinishRequest
  BY <1>5 DEF FinishRequest, StateAfterAnswer
<1>6. CASE StartupDone
  BY <1>6 DEF StartupDone
<1>7. QED
  BY <1>1, <1>2, <1>3, <1>4, <1>5, <1>6
     DEF Next, Start, ConnectFail, Refuse, RefuseByGuard, RefuseByState, ReceiveReply,
         Break, PeerClosed, Timeout, FinishDisconnect, FailUser,
         StartupRejected, StartupNull, FailStartup, IdleClose,
         ServerStartup, ServerAnswer, ServerTerminates, ServerDies, Halted, vars

LEMMA TaskTypeStep == TypeOK /\ Next => TaskTypeOK'
<1> SUFFICES ASSUME TypeOK, Next PROVE TaskTypeOK'
  OBVIOUS
<1> USE DEF TypeOK, TaskTypeOK, StartupStates, taskVars, Outcomes
<1>1. ASSUME NEW k \in Kinds, Start(k) PROVE TaskTypeOK'
  <2>1. retries' \in 0..RetryMax /\ tasks' \in 0..MaxTasks /\ sent' \in Nat
    BY <1>1 DEF Start
  <2>2. QED
    BY <1>1, <2>1 DEF Start
<1>2. CASE ConnectOk
  BY <1>2 DEF ConnectOk
<1>3. CASE ConnectFail
  BY <1>3 DEF ConnectFail
<1>4. CASE RefuseByGuard
  BY <1>4 DEF RefuseByGuard, Refuse
<1>5. CASE RefuseByState
  <2>1. Verdict(kind, connState, proto) \in Outcomes
    BY <1>5 DEF RefuseByState, Verdict, SocketTypeOK, ProtocolStates
  <2>2. QED
    BY <1>5, <2>1 DEF RefuseByState, Refuse
<1>6. CASE SendRequest
  BY <1>6 DEF SendRequest
<1>7. CASE ReceiveReply
  BY <1>7 DEF ReceiveReply, StartupRead, ServerTypeOK, Answers, TxStates
<1>8. CASE PeerClosed
  BY <1>8 DEF PeerClosed, Break, Partly, ServerTypeOK, Answers, TxStates
<1>9. CASE Timeout
  BY <1>9 DEF Timeout, Break, Partly, ServerTypeOK, Answers, TxStates
<1>10. CASE FinishRequest
  BY <1>10 DEF FinishRequest
<1>11. CASE FinishDisconnect
  BY <1>11 DEF FinishDisconnect
<1>12. CASE FailUser
  BY <1>12 DEF FailUser
<1>13. CASE StartupDone
  BY <1>13 DEF StartupDone
<1>14. CASE StartupRejected
  BY <1>14 DEF StartupRejected
<1>15. CASE StartupNull
  BY <1>15 DEF StartupNull
<1>16. CASE FailStartup
  BY <1>16 DEF FailStartup
<1>17. CASE UNCHANGED <<pc, taskVars, outcome>>
  BY <1>17
<1>18. QED
  BY <1>1, <1>2, <1>3, <1>4, <1>5, <1>6, <1>7, <1>8, <1>9, <1>10, <1>11, <1>12, <1>13,
     <1>14, <1>15, <1>16, <1>17
     DEF Next, IdleClose, ServerStartup, ServerAnswer, ServerTerminates, ServerDies,
         Halted, vars

LEMMA ServerTypeStep == TypeOK /\ Next => ServerTypeOK'
<1> SUFFICES ASSUME TypeOK, Next PROVE ServerTypeOK'
  OBVIOUS
<1> USE DEF TypeOK, ServerTypeOK, TxStates, Answers, StartupAnswers, TellsPid
<1>1. CASE UNCHANGED <<serverVars, wireVars>>
  BY <1>1 DEF serverVars, wireVars
<1>2. CASE \E inFlight : CloseSocket(inFlight)
  BY <1>2 DEF CloseSocket
<1>3. CASE ConnectOk
  BY <1>3 DEF ConnectOk
<1>4. CASE SendRequest
  BY <1>4 DEF SendRequest, serverVars
<1>5. CASE ReceiveReply
  BY <1>2, <1>5 DEF ReceiveReply, serverVars
<1>6. CASE FinishRequest
  BY <1>6 DEF FinishRequest, wireVars
<1>7. CASE FinishDisconnect
  <2>1. orphan' \in BOOLEAN
    BY Zenon, <1>7 DEF FinishDisconnect
  <2>2. QED
    BY <1>7, <2>1 DEF FinishDisconnect, wireVars
<1>8. ASSUME NEW a \in Startups, ServerStartup(a) PROVE ServerTypeOK'
  BY <1>8 DEF ServerStartup
<1>9. ASSUME NEW a \in Answers, ServerAnswer(a) PROVE ServerTypeOK'
  BY <1>9 DEF ServerAnswer, ReadyForQuery
<1>10. CASE ServerTerminates
  BY <1>10 DEF ServerTerminates, wireVars
<1>11. CASE ServerDies
  BY <1>11 DEF ServerDies, wireVars
<1>12. QED
  BY <1>1, <1>2, <1>3, <1>4, <1>5, <1>6, <1>7, <1>8, <1>9, <1>10, <1>11
     DEF Next, Start, ConnectFail, Refuse, RefuseByGuard, RefuseByState, Break, PeerClosed,
         Timeout, FailUser, StartupDone, StartupRejected, StartupNull, FailStartup,
         IdleClose, Halted, vars

LEMMA TypeInit == Init => TypeOK
<1>1. Init => RouteTypeOK
  BY DEF Init, RouteTypeOK, TxStates, Continuity
<1>2. Init => SocketTypeOK
  BY DEF Init, SocketTypeOK, ProtocolStates
<1>3. Init => TaskTypeOK
  <2>1. Init => isUser \in BOOLEAN /\ started \in BOOLEAN
    BY Zenon DEF Init
  <2>2. QED
    BY <2>1 DEF Init, TaskTypeOK, StartupStates, Outcomes
<1>4. Init => ServerTypeOK
  <2>1. Init => copying \in BOOLEAN /\ orphan \in BOOLEAN
    BY Zenon DEF Init
  <2>2. QED
    BY <2>1 DEF Init, ServerTypeOK, TxStates, Answers
<1>5. QED
  BY <1>1, <1>2, <1>3, <1>4 DEF TypeOK

LEMMA TypeStep == TypeOK /\ [Next]_vars => TypeOK'
<1>1. ASSUME TypeOK, Next PROVE TypeOK'
  BY <1>1, RouteTypeStep, SocketTypeStep, TaskTypeStep, ServerTypeStep DEF TypeOK
<1>2. ASSUME TypeOK, UNCHANGED vars PROVE TypeOK'
  BY <1>2 DEF TypeOK, RouteTypeOK, SocketTypeOK, TaskTypeOK, ServerTypeOK, vars,
              handleVars, sockVars, taskVars, serverVars, wireVars
<1>3. QED
  BY <1>1, <1>2

\* Every variable stays in its type: the states the code's enums and fields name.
THEOREM TypeCorrect == Spec => []TypeOK
  BY TypeInit, TypeStep, PTL DEF Spec

---------------------------------------------------------------------------
\* Continuity: the guard and the bookkeeping around it, step by step.

\* Each action keeps the relation between the route's continuity, the socket's
\* state and the backend that Continuation spells out.
LEMMA ContinuationStep == SameMajor /\ Inductive /\ Next => Continuation'
<1> SUFFICES ASSUME SameMajor, Inductive, Next PROVE Continuation'
  OBVIOUS
<1> USE DEF Inductive, TypeOK, SocketTypeOK, TaskTypeOK, ServerTypeOK,
        Continuation, SocketShape, FailedIsClosed, NoContextShape, EstablishedShape,
        FreshIsClean, InUseShape, LossIsKnown, RunningIsUnknown, AnswerIsTrue,
        OpenWork, ReadyForQuery, NoContext, Established, InUse,
        TxStates, Answers, StartupAnswers, StartupStates, StartupRead, TellsPid,
        SameMajor, Partly,
        handleVars, sockVars, taskVars, serverVars, wireVars
<1>1. ASSUME NEW k \in Kinds, Start(k) PROVE Continuation'
  BY <1>1 DEF Start
<1>2. CASE ConnectOk
  BY <1>2 DEF ConnectOk
<1>3. CASE ConnectFail
  BY <1>3 DEF ConnectFail
<1>4. CASE RefuseByGuard
  BY <1>4 DEF RefuseByGuard, Refuse, CloseSocket
<1>5. CASE RefuseByState
  <2>1. CloseSocket(FALSE) /\ pc' = "handle" /\ pc = "dispatch" /\ cont' = cont
    BY <1>5 DEF RefuseByState, Refuse
  <2>2. outcome' \in {"EPROTO", "EBADF"}
    BY <1>5 DEF RefuseByState, Refuse, Verdict, ProtocolStates
  <2>3. QED
    BY <2>1, <2>2 DEF CloseSocket
<1>6. CASE SendRequest
  BY <1>6 DEF SendRequest, GuardAccepts, AllowIdleReconnect, ContinuityOnSend
<1>7. CASE ReceiveReply
  BY <1>7 DEF ReceiveReply, CloseSocket, KeepsSocket
<1>8. CASE PeerClosed
  BY <1>8 DEF PeerClosed, Break, CloseSocket, Running
<1>9. CASE Timeout
  BY <1>9 DEF Timeout, Break, CloseSocket, Running
<1>10. CASE FinishRequest
  BY <1>10 DEF FinishRequest, ContinuityAfter
<1>11. CASE FinishDisconnect
  BY <1>11 DEF FinishDisconnect, HandledOutcome
<1>12. CASE FailUser
  BY <1>12 DEF FailUser, HandledOutcome
<1>13. CASE StartupDone
  BY <1>13 DEF StartupDone, HandledOutcome
<1>14. CASE StartupRejected
  BY <1>14 DEF StartupRejected, HandledOutcome
<1>15. CASE StartupNull
  BY <1>15 DEF StartupNull, HandledOutcome
<1>16. CASE FailStartup
  BY <1>16 DEF FailStartup, HandledOutcome
<1>17. CASE IdleClose
  BY <1>17 DEF IdleClose, CloseSocket
<1>18. CASE ServerTerminates
  BY <1>18 DEF ServerTerminates
<1>19. CASE ServerDies
  BY <1>19 DEF ServerDies
<1>20. ASSUME NEW a \in Startups, ServerStartup(a) PROVE Continuation'
  BY <1>20 DEF ServerStartup
<1>21. ASSUME NEW a \in Answers, ServerAnswer(a) PROVE Continuation'
  BY <1>21 DEF ServerAnswer, Outcome
<1>22. QED
  BY <1>1, <1>2, <1>3, <1>4, <1>5, <1>6, <1>7, <1>8, <1>9, <1>10, <1>11,
     <1>12, <1>13, <1>14, <1>15, <1>16, <1>17, <1>18, <1>19, <1>20, <1>21
     DEF Next, Halted, vars

\* The strengthened invariant: types, and what the route's continuity says of the socket,
\* the backend behind it and the work that was lost.
THEOREM InductiveInvariant == ASSUME SameMajor PROVE Spec => []Inductive
<1>1. Init => Inductive
  <2>1. Init => TypeOK
    BY TypeInit
  <2>2. Init => Continuation
    BY DEF Init, Continuation, SocketShape, FailedIsClosed, NoContextShape,
           EstablishedShape, FreshIsClean, InUseShape, LossIsKnown, RunningIsUnknown,
           AnswerIsTrue, OpenWork, NoContext, Established, InUse
  <2>3. QED
    BY <2>1, <2>2 DEF Inductive
<1>2. Inductive /\ [Next]_vars => Inductive'
  <2>1. ASSUME Inductive, Next PROVE Inductive'
    BY <2>1, TypeStep, ContinuationStep DEF Inductive
  <2>2. ASSUME Inductive, UNCHANGED vars PROVE Inductive'
    <3>1. TypeOK'
      BY <2>2, TypeStep DEF Inductive
    <3>2. Continuation'
      BY <2>2 DEF Inductive, Continuation, SocketShape, FailedIsClosed, NoContextShape,
                  EstablishedShape, FreshIsClean, InUseShape, LossIsKnown, RunningIsUnknown,
                  AnswerIsTrue, OpenWork, ReadyForQuery, vars, handleVars, sockVars,
                  taskVars, serverVars, wireVars
    <3>3. QED
      BY <3>1, <3>2 DEF Inductive
  <2>3. QED
    BY <2>1, <2>2
<1>3. QED
  BY <1>1, <1>2, PTL DEF Spec

\* No request reaches a live backend after unfinished work was lost, until a
\* disconnect has succeeded: for any mix of requests and any number of tasks,
\* sessions and retries.
THEOREM NoSqlOnReplacementHolds == ASSUME SameMajor PROVE Spec => []NoSqlOnReplacement
<1>1. Inductive => NoSqlOnReplacement
  BY DEF Inductive, TypeOK, SocketTypeOK, Continuation, SocketShape, NoContextShape,
         EstablishedShape, InUseShape, NoSqlOnReplacement, NoContext, Established, InUse
<1>2. QED
  BY <1>1, InductiveInvariant, PTL

---------------------------------------------------------------------------
\* PgFixedConn implements LogicalSession.

\* Each step is a step of the promise, or leaves it as it is.
LEMMA PromiseStep == SameMajor /\ Inductive /\ Inductive' /\ Next => [Promise!Next]_(Promise!vars)
<1> SUFFICES ASSUME SameMajor, Inductive, Inductive', Next PROVE [Promise!Next]_(Promise!vars)
  OBVIOUS
<1> USE DEF Inductive, TypeOK, SocketTypeOK, TaskTypeOK, ServerTypeOK,
        Continuation, SocketShape, FailedIsClosed, NoContextShape, EstablishedShape,
        FreshIsClean, InUseShape, LossIsKnown, RunningIsUnknown, AnswerIsTrue,
        Running, OpenWork, ReadyForQuery, NoContext, Established, InUse,
        TxStates, Answers, StartupAnswers, StartupStates, StartupRead, TellsPid,
        SameMajor, Partly,
        handleVars, sockVars, taskVars, serverVars, wireVars,
        Promise!Next, Promise!vars, Promise!Begin, Promise!Complete, Promise!Lose,
        Promise!Reset, Promise!Replace
<1>1. ASSUME NEW k \in Kinds, Start(k) PROVE [Promise!Next]_(Promise!vars)
  BY <1>1 DEF Start
<1>2. CASE ConnectOk
  BY <1>2 DEF ConnectOk
<1>3. CASE ConnectFail
  BY <1>3 DEF ConnectFail
<1>4. CASE RefuseByGuard
  BY <1>4 DEF RefuseByGuard, Refuse, CloseSocket
<1>5. CASE RefuseByState
  <2>1. CloseSocket(FALSE) /\ pc' = "handle" /\ pc = "dispatch" /\ cont' = cont
    BY <1>5 DEF RefuseByState, Refuse
  <2>2. outcome' \in {"EPROTO", "EBADF"}
    BY <1>5 DEF RefuseByState, Refuse, Verdict, ProtocolStates
  <2>3. QED
    BY <2>1, <2>2 DEF CloseSocket
<1>6. CASE SendRequest
  BY <1>6 DEF SendRequest, GuardAccepts, AllowIdleReconnect, ContinuityOnSend
<1>7. CASE ReceiveReply
  BY <1>7 DEF ReceiveReply, CloseSocket, KeepsSocket
<1>8. CASE PeerClosed
  BY <1>8 DEF PeerClosed, Break, CloseSocket, Running
<1>9. CASE Timeout
  BY <1>9 DEF Timeout, Break, CloseSocket, Running
<1>10. CASE FinishRequest
  BY <1>10 DEF FinishRequest, ContinuityAfter
<1>11. CASE FinishDisconnect
  BY <1>11 DEF FinishDisconnect, HandledOutcome
<1>12. CASE FailUser
  BY <1>12 DEF FailUser, HandledOutcome
<1>13. CASE StartupDone
  BY <1>13 DEF StartupDone, HandledOutcome
<1>14. CASE StartupRejected
  BY <1>14 DEF StartupRejected, HandledOutcome
<1>15. CASE StartupNull
  BY <1>15 DEF StartupNull, HandledOutcome
<1>16. CASE FailStartup
  BY <1>16 DEF FailStartup, HandledOutcome
<1>17. CASE IdleClose
  BY <1>17 DEF IdleClose, CloseSocket
<1>18. CASE ServerTerminates
  BY <1>18 DEF ServerTerminates
<1>19. CASE ServerDies
  BY <1>19 DEF ServerDies
<1>20. ASSUME NEW a \in Startups, ServerStartup(a) PROVE [Promise!Next]_(Promise!vars)
  BY <1>20 DEF ServerStartup
<1>21. ASSUME NEW a \in Answers, ServerAnswer(a) PROVE [Promise!Next]_(Promise!vars)
  BY <1>21 DEF ServerAnswer, Outcome
<1>22. CASE Halted
  BY <1>22 DEF Halted, vars
<1> HIDE DEF Inductive, Promise!Next, Promise!vars
<1>23. QED
  BY <1>1, <1>2, <1>3, <1>4, <1>5, <1>6, <1>7, <1>8, <1>9, <1>10, <1>11, <1>12,
     <1>13, <1>14, <1>15, <1>16, <1>17, <1>18, <1>19, <1>20, <1>21, <1>22 DEF Next

\* The code keeps the promise of README.md's "Connection lifecycle" for any mix of
\* requests: work is never continued on, nor started after a loss on, a new session.
THEOREM Refinement == ASSUME SameMajor PROVE Spec => RefinesLogicalSession
<1>1. Init => Promise!Init
  BY DEF Init, Promise!Init, Running, OpenWork
<1>2. Inductive /\ Inductive' /\ [Next]_vars => [Promise!Next]_(Promise!vars)
  <2>1. CASE Next
    BY <2>1, PromiseStep
  <2>2. CASE UNCHANGED vars
    BY <2>2 DEF Promise!vars, Running, OpenWork, vars, handleVars, sockVars, taskVars,
                serverVars, wireVars
  <2>3. QED
    BY <2>1, <2>2
<1>3. QED
  BY <1>1, <1>2, InductiveInvariant, PTL DEF Spec, RefinesLogicalSession, Promise!Spec

---------------------------------------------------------------------------
\* What the other invariants rest on, beside Inductive.

\* The protocol state of a session in use is the backend's whenever no request is
\* under way, and an answer in hand is what makes it so.
ProtocolShape ==
    /\ connState # InUse => proto = "READY"
    /\ connState = InUse /\ pc \in {"none", "dispatch"} =>
        /\ proto \in {"READY", "COPY_IN"}
        /\ copying <=> proto = "COPY_IN"
    /\ isUser /\ kind # "disconnect"
       /\ (wire = "reply" \/ (pc = "handle" /\ outcome = "SUCCESS" /\ sock = "open"))
       => connState = InUse /\ (copying <=> ans = "copyIn")

LEMMA ProtocolStep == SameMajor /\ Inductive /\ ProtocolShape /\ [Next]_vars => ProtocolShape'
<1> SUFFICES ASSUME SameMajor, Inductive, ProtocolShape, [Next]_vars PROVE ProtocolShape'
  OBVIOUS
<1> USE DEF Inductive, TypeOK, SocketTypeOK, TaskTypeOK, ServerTypeOK, RouteTypeOK,
        Continuation, SocketShape, FailedIsClosed, NoContextShape, EstablishedShape,
        FreshIsClean, InUseShape, RunningIsUnknown, AnswerIsTrue,
        OpenWork, ReadyForQuery, NoContext, Established, InUse,
        TxStates, Answers, StartupAnswers, StartupStates, StartupRead, TellsPid,
        SameMajor, Partly,
        handleVars, sockVars, taskVars, serverVars, wireVars
<1> USE DEF ProtocolShape
<1>1. ASSUME NEW k \in Kinds, Start(k) PROVE ProtocolShape'
  BY <1>1 DEF Start
<1>2. CASE ConnectOk
  BY <1>2 DEF ConnectOk
<1>3. CASE ConnectFail
  BY <1>3 DEF ConnectFail
<1>4. CASE RefuseByGuard
  BY <1>4 DEF RefuseByGuard, Refuse, CloseSocket
<1>5. CASE RefuseByState
  <2>1. CloseSocket(FALSE) /\ pc' = "handle" /\ pc = "dispatch" /\ cont' = cont
        /\ UNCHANGED <<kind, started, sresp, retries, tasks, sent, lastTx, pid>> /\ isUser'
    BY <1>5 DEF RefuseByState, Refuse
  <2>2. QED
    BY <2>1 DEF CloseSocket
<1>6. CASE SendRequest
  BY <1>6 DEF SendRequest, GuardAccepts, AllowIdleReconnect, ContinuityOnSend, Verdict,
              StateAfterSend, ProtocolStates
<1>7. CASE ReceiveReply
  BY <1>7 DEF ReceiveReply, CloseSocket, KeepsSocket
<1>8. CASE PeerClosed
  BY <1>8 DEF PeerClosed, Break, CloseSocket
<1>9. CASE Timeout
  BY <1>9 DEF Timeout, Break, CloseSocket
<1>10. CASE FinishRequest
  BY <1>10 DEF FinishRequest, ContinuityAfter, ConnectionAfter, StateAfterAnswer
<1>11. CASE FinishDisconnect
  BY <1>11 DEF FinishDisconnect, HandledOutcome
<1>12. CASE FailUser
  BY <1>12 DEF FailUser, HandledOutcome
<1>13. CASE StartupDone
  BY <1>13 DEF StartupDone, HandledOutcome
<1>14. CASE StartupRejected
  BY <1>14 DEF StartupRejected, HandledOutcome
<1>15. CASE StartupNull
  BY <1>15 DEF StartupNull, HandledOutcome
<1>16. CASE FailStartup
  BY <1>16 DEF FailStartup, HandledOutcome
<1>17. CASE IdleClose
  BY <1>17 DEF IdleClose, CloseSocket
<1>18. CASE ServerTerminates
  BY <1>18 DEF ServerTerminates
<1>19. CASE ServerDies
  BY <1>19 DEF ServerDies
<1>20. ASSUME NEW a \in Startups, ServerStartup(a) PROVE ProtocolShape'
  BY <1>20 DEF ServerStartup
<1>21. ASSUME NEW a \in Answers, ServerAnswer(a) PROVE ProtocolShape'
  BY <1>21 DEF ServerAnswer, Outcome
<1>22. CASE UNCHANGED vars
  BY <1>22 DEF vars
<1>23. QED
  BY <1>1, <1>2, <1>3, <1>4, <1>5, <1>6, <1>7, <1>8, <1>9, <1>10, <1>11,
     <1>12, <1>13, <1>14, <1>15, <1>16, <1>17, <1>18, <1>19, <1>20, <1>21, <1>22
     DEF Next, Halted

\* The connection object and the route agree, and a failed transaction is seen by
\* nobody but the answer that reports it.
StateShape ==
    /\ cont \in TxStates => lastTx = cont
    /\ sock = "open" => tx # "E" \/ (pc = "wait" /\ wire = "reply" /\ ans = "E")

LEMMA StateStep == SameMajor /\ Inductive /\ StateShape /\ [Next]_vars => StateShape'
<1> SUFFICES ASSUME SameMajor, Inductive, StateShape, [Next]_vars PROVE StateShape'
  OBVIOUS
<1> USE DEF Inductive, TypeOK, SocketTypeOK, TaskTypeOK, ServerTypeOK, RouteTypeOK,
        Continuation, SocketShape, FailedIsClosed, NoContextShape, EstablishedShape,
        FreshIsClean, InUseShape, RunningIsUnknown, AnswerIsTrue,
        OpenWork, ReadyForQuery, NoContext, Established, InUse,
        TxStates, Answers, StartupAnswers, StartupStates, StartupRead, TellsPid,
        SameMajor, Partly,
        handleVars, sockVars, taskVars, serverVars, wireVars
<1> USE DEF StateShape
<1>1. ASSUME NEW k \in Kinds, Start(k) PROVE StateShape'
  BY <1>1 DEF Start
<1>2. CASE ConnectOk
  BY <1>2 DEF ConnectOk
<1>3. CASE ConnectFail
  BY <1>3 DEF ConnectFail
<1>4. CASE RefuseByGuard
  BY <1>4 DEF RefuseByGuard, Refuse, CloseSocket
<1>5. CASE RefuseByState
  <2>1. CloseSocket(FALSE) /\ pc' = "handle" /\ pc = "dispatch" /\ cont' = cont
        /\ UNCHANGED <<kind, started, sresp, retries, tasks, sent, lastTx, pid>> /\ isUser'
    BY <1>5 DEF RefuseByState, Refuse
  <2>2. QED
    BY <2>1 DEF CloseSocket
<1>6. CASE SendRequest
  BY <1>6 DEF SendRequest, GuardAccepts, AllowIdleReconnect, ContinuityOnSend, Verdict,
              StateAfterSend, ProtocolStates
<1>7. CASE ReceiveReply
  BY <1>7 DEF ReceiveReply, CloseSocket, KeepsSocket
<1>8. CASE PeerClosed
  BY <1>8 DEF PeerClosed, Break, CloseSocket
<1>9. CASE Timeout
  BY <1>9 DEF Timeout, Break, CloseSocket
<1>10. CASE FinishRequest
  BY <1>10 DEF FinishRequest, ContinuityAfter, ConnectionAfter, StateAfterAnswer
<1>11. CASE FinishDisconnect
  BY <1>11 DEF FinishDisconnect, HandledOutcome
<1>12. CASE FailUser
  BY <1>12 DEF FailUser, HandledOutcome
<1>13. CASE StartupDone
  BY <1>13 DEF StartupDone, HandledOutcome
<1>14. CASE StartupRejected
  BY <1>14 DEF StartupRejected, HandledOutcome
<1>15. CASE StartupNull
  BY <1>15 DEF StartupNull, HandledOutcome
<1>16. CASE FailStartup
  BY <1>16 DEF FailStartup, HandledOutcome
<1>17. CASE IdleClose
  BY <1>17 DEF IdleClose, CloseSocket
<1>18. CASE ServerTerminates
  BY <1>18 DEF ServerTerminates
<1>19. CASE ServerDies
  BY <1>19 DEF ServerDies
<1>20. ASSUME NEW a \in Startups, ServerStartup(a) PROVE StateShape'
  BY <1>20 DEF ServerStartup
<1>21. ASSUME NEW a \in Answers, ServerAnswer(a) PROVE StateShape'
  BY <1>21 DEF ServerAnswer, Outcome
<1>22. CASE UNCHANGED vars
  BY <1>22 DEF vars
<1>23. QED
  BY <1>1, <1>2, <1>3, <1>4, <1>5, <1>6, <1>7, <1>8, <1>9, <1>10, <1>11,
     <1>12, <1>13, <1>14, <1>15, <1>16, <1>17, <1>18, <1>19, <1>20, <1>21, <1>22
     DEF Next, Halted

\* The session that answered last is the one in use, and its key is known.
SessionShape ==
    /\ answered <= sess
    /\ sock = "open" /\ answered = sess => pid = sess
    /\ cont = "NEW" => answered = 0
    /\ connState = InUse /\ pc \in {"none", "dispatch"} => answered = sess
    /\ OriginalSession

LEMMA SessionStep == SameMajor /\ Inductive /\ SessionShape /\ [Next]_vars => SessionShape'
<1> SUFFICES ASSUME SameMajor, Inductive, SessionShape, [Next]_vars PROVE SessionShape'
  OBVIOUS
<1> USE DEF Inductive, TypeOK, SocketTypeOK, TaskTypeOK, ServerTypeOK, RouteTypeOK,
        Continuation, SocketShape, FailedIsClosed, NoContextShape, EstablishedShape,
        FreshIsClean, InUseShape, RunningIsUnknown, AnswerIsTrue,
        OpenWork, ReadyForQuery, NoContext, Established, InUse,
        TxStates, Answers, StartupAnswers, StartupStates, StartupRead, TellsPid,
        SameMajor, Partly,
        handleVars, sockVars, taskVars, serverVars, wireVars
<1> USE DEF SessionShape, OriginalSession, Running, CopyKinds
<1>1. ASSUME NEW k \in Kinds, Start(k) PROVE SessionShape'
  BY <1>1 DEF Start
<1>2. CASE ConnectOk
  BY <1>2 DEF ConnectOk
<1>3. CASE ConnectFail
  BY <1>3 DEF ConnectFail
<1>4. CASE RefuseByGuard
  BY <1>4 DEF RefuseByGuard, Refuse, CloseSocket
<1>5. CASE RefuseByState
  <2>1. CloseSocket(FALSE) /\ pc' = "handle" /\ pc = "dispatch" /\ cont' = cont
        /\ UNCHANGED <<kind, started, sresp, retries, tasks, sent, lastTx, pid>> /\ isUser'
    BY <1>5 DEF RefuseByState, Refuse
  <2>2. QED
    BY <2>1 DEF CloseSocket
<1>6. CASE SendRequest
  BY <1>6 DEF SendRequest, GuardAccepts, AllowIdleReconnect, ContinuityOnSend, Verdict,
              StateAfterSend, ProtocolStates
<1>7. CASE ReceiveReply
  BY <1>7 DEF ReceiveReply, CloseSocket, KeepsSocket
<1>8. CASE PeerClosed
  BY <1>8 DEF PeerClosed, Break, CloseSocket
<1>9. CASE Timeout
  BY <1>9 DEF Timeout, Break, CloseSocket
<1>10. CASE FinishRequest
  BY <1>10 DEF FinishRequest, ContinuityAfter, ConnectionAfter, StateAfterAnswer
<1>11. CASE FinishDisconnect
  BY <1>11 DEF FinishDisconnect, HandledOutcome
<1>12. CASE FailUser
  BY <1>12 DEF FailUser, HandledOutcome
<1>13. CASE StartupDone
  BY <1>13 DEF StartupDone, HandledOutcome
<1>14. CASE StartupRejected
  BY <1>14 DEF StartupRejected, HandledOutcome
<1>15. CASE StartupNull
  BY <1>15 DEF StartupNull, HandledOutcome
<1>16. CASE FailStartup
  BY <1>16 DEF FailStartup, HandledOutcome
<1>17. CASE IdleClose
  BY <1>17 DEF IdleClose, CloseSocket
<1>18. CASE ServerTerminates
  BY <1>18 DEF ServerTerminates
<1>19. CASE ServerDies
  BY <1>19 DEF ServerDies
<1>20. ASSUME NEW a \in Startups, ServerStartup(a) PROVE SessionShape'
  BY <1>20 DEF ServerStartup
<1>21. ASSUME NEW a \in Answers, ServerAnswer(a) PROVE SessionShape'
  BY <1>21 DEF ServerAnswer, Outcome
<1>22. CASE UNCHANGED vars
  BY <1>22 DEF vars
<1>23. QED
  BY <1>1, <1>2, <1>3, <1>4, <1>5, <1>6, <1>7, <1>8, <1>9, <1>10, <1>11,
     <1>12, <1>13, <1>14, <1>15, <1>16, <1>17, <1>18, <1>19, <1>20, <1>21, <1>22
     DEF Next, Halted

\* A request that was sent leaves a continuity that stops the next attempt.
SentShape ==
    /\ sent <= 1
    /\ sent = 1 /\ pc \in {"dispatch", "wait", "handle"} =>
        /\ kind # "disconnect" /\ cont = "UNKNOWN"
        /\ pc = "dispatch" /\ sock = "open" => connState = Established

LEMMA SentStep == SameMajor /\ Inductive /\ SentShape /\ [Next]_vars => SentShape'
<1> SUFFICES ASSUME SameMajor, Inductive, SentShape, [Next]_vars PROVE SentShape'
  OBVIOUS
<1> USE DEF Inductive, TypeOK, SocketTypeOK, TaskTypeOK, ServerTypeOK, RouteTypeOK,
        Continuation, SocketShape, FailedIsClosed, NoContextShape, EstablishedShape,
        FreshIsClean, InUseShape, RunningIsUnknown, AnswerIsTrue,
        OpenWork, ReadyForQuery, NoContext, Established, InUse,
        TxStates, Answers, StartupAnswers, StartupStates, StartupRead, TellsPid,
        SameMajor, Partly,
        handleVars, sockVars, taskVars, serverVars, wireVars
<1> USE DEF SentShape
<1>1. ASSUME NEW k \in Kinds, Start(k) PROVE SentShape'
  BY <1>1 DEF Start
<1>2. CASE ConnectOk
  BY <1>2 DEF ConnectOk
<1>3. CASE ConnectFail
  BY <1>3 DEF ConnectFail
<1>4. CASE RefuseByGuard
  BY <1>4 DEF RefuseByGuard, Refuse, CloseSocket
<1>5. CASE RefuseByState
  <2>1. CloseSocket(FALSE) /\ pc' = "handle" /\ pc = "dispatch" /\ cont' = cont
        /\ UNCHANGED <<kind, started, sresp, retries, tasks, sent, lastTx, pid>> /\ isUser'
    BY <1>5 DEF RefuseByState, Refuse
  <2>2. QED
    BY <2>1 DEF CloseSocket
<1>6. CASE SendRequest
  BY <1>6 DEF SendRequest, GuardAccepts, AllowIdleReconnect, ContinuityOnSend, Verdict,
              StateAfterSend, ProtocolStates
<1>7. CASE ReceiveReply
  BY <1>7 DEF ReceiveReply, CloseSocket, KeepsSocket
<1>8. CASE PeerClosed
  BY <1>8 DEF PeerClosed, Break, CloseSocket
<1>9. CASE Timeout
  BY <1>9 DEF Timeout, Break, CloseSocket
<1>10. CASE FinishRequest
  BY <1>10 DEF FinishRequest, ContinuityAfter, ConnectionAfter, StateAfterAnswer
<1>11. CASE FinishDisconnect
  BY <1>11 DEF FinishDisconnect, HandledOutcome
<1>12. CASE FailUser
  BY <1>12 DEF FailUser, HandledOutcome
<1>13. CASE StartupDone
  BY <1>13 DEF StartupDone, HandledOutcome
<1>14. CASE StartupRejected
  BY <1>14 DEF StartupRejected, HandledOutcome
<1>15. CASE StartupNull
  BY <1>15 DEF StartupNull, HandledOutcome
<1>16. CASE FailStartup
  BY <1>16 DEF FailStartup, HandledOutcome
<1>17. CASE IdleClose
  BY <1>17 DEF IdleClose, CloseSocket
<1>18. CASE ServerTerminates
  BY <1>18 DEF ServerTerminates
<1>19. CASE ServerDies
  BY <1>19 DEF ServerDies
<1>20. ASSUME NEW a \in Startups, ServerStartup(a) PROVE SentShape'
  BY <1>20 DEF ServerStartup
<1>21. ASSUME NEW a \in Answers, ServerAnswer(a) PROVE SentShape'
  BY <1>21 DEF ServerAnswer, Outcome
<1>22. CASE UNCHANGED vars
  BY <1>22 DEF vars
<1>23. QED
  BY <1>1, <1>2, <1>3, <1>4, <1>5, <1>6, <1>7, <1>8, <1>9, <1>10, <1>11,
     <1>12, <1>13, <1>14, <1>15, <1>16, <1>17, <1>18, <1>19, <1>20, <1>21, <1>22
     DEF Next, Halted

\* While the last completed response was 'I', the route still says so (or is new),
\* unless a later request is under way or has just failed.
ReportShape ==
    report = "I" =>
        \/ cont \in {"NEW", "I"}
        \/ started /\ isUser /\ pc \in {"wait", "handle"} /\ kind # "disconnect"

LEMMA ReportStep == SameMajor /\ Inductive /\ ReportShape /\ [Next]_vars => ReportShape'
<1> SUFFICES ASSUME SameMajor, Inductive, ReportShape, [Next]_vars PROVE ReportShape'
  OBVIOUS
<1> USE DEF Inductive, TypeOK, SocketTypeOK, TaskTypeOK, ServerTypeOK, RouteTypeOK,
        Continuation, SocketShape, FailedIsClosed, NoContextShape, EstablishedShape,
        FreshIsClean, InUseShape, RunningIsUnknown, AnswerIsTrue,
        OpenWork, ReadyForQuery, NoContext, Established, InUse,
        TxStates, Answers, StartupAnswers, StartupStates, StartupRead, TellsPid,
        SameMajor, Partly,
        handleVars, sockVars, taskVars, serverVars, wireVars
<1> USE DEF ReportShape
<1>1. ASSUME NEW k \in Kinds, Start(k) PROVE ReportShape'
  BY <1>1 DEF Start
<1>2. CASE ConnectOk
  BY <1>2 DEF ConnectOk
<1>3. CASE ConnectFail
  BY <1>3 DEF ConnectFail
<1>4. CASE RefuseByGuard
  BY <1>4 DEF RefuseByGuard, Refuse, CloseSocket
<1>5. CASE RefuseByState
  <2>1. pc = "dispatch" /\ cont' = cont /\ report' = report
    BY <1>5 DEF RefuseByState, Refuse
  <2>2. QED
    BY <2>1
<1>6. CASE SendRequest
  BY <1>6 DEF SendRequest, GuardAccepts, AllowIdleReconnect, ContinuityOnSend, Verdict,
              StateAfterSend, ProtocolStates
<1>7. CASE ReceiveReply
  BY <1>7 DEF ReceiveReply, CloseSocket, KeepsSocket
<1>8. CASE PeerClosed
  BY <1>8 DEF PeerClosed, Break, CloseSocket
<1>9. CASE Timeout
  BY <1>9 DEF Timeout, Break, CloseSocket
<1>10. CASE FinishRequest
  BY <1>10 DEF FinishRequest, ContinuityAfter, ConnectionAfter, StateAfterAnswer
<1>11. CASE FinishDisconnect
  BY <1>11 DEF FinishDisconnect, HandledOutcome
<1>12. CASE FailUser
  BY <1>12 DEF FailUser, HandledOutcome
<1>13. CASE StartupDone
  BY <1>13 DEF StartupDone, HandledOutcome
<1>14. CASE StartupRejected
  BY <1>14 DEF StartupRejected, HandledOutcome
<1>15. CASE StartupNull
  BY <1>15 DEF StartupNull, HandledOutcome
<1>16. CASE FailStartup
  BY <1>16 DEF FailStartup, HandledOutcome
<1>17. CASE IdleClose
  BY <1>17 DEF IdleClose, CloseSocket
<1>18. CASE ServerTerminates
  BY <1>18 DEF ServerTerminates
<1>19. CASE ServerDies
  BY <1>19 DEF ServerDies
<1>20. ASSUME NEW a \in Startups, ServerStartup(a) PROVE ReportShape'
  BY <1>20 DEF ServerStartup
<1>21. ASSUME NEW a \in Answers, ServerAnswer(a) PROVE ReportShape'
  BY <1>21 DEF ServerAnswer, Outcome
<1>22. CASE UNCHANGED vars
  BY <1>22 DEF vars
<1>23. QED
  BY <1>1, <1>2, <1>3, <1>4, <1>5, <1>6, <1>7, <1>8, <1>9, <1>10, <1>11,
     <1>12, <1>13, <1>14, <1>15, <1>16, <1>17, <1>18, <1>19, <1>20, <1>21, <1>22
     DEF Next, Halted

Shapes == ProtocolShape /\ StateShape /\ SessionShape /\ SentShape /\ ReportShape

LEMMA ShapesInvariant == ASSUME SameMajor PROVE Spec => [](Inductive /\ Shapes)
<1>1. Init => Shapes
  BY DEF Init, Shapes, ProtocolShape, StateShape, SessionShape, SentShape,
         ReportShape, OriginalSession, Running, TxStates, NoContext, InUse, Established
<1>2. Inductive /\ Shapes /\ [Next]_vars => Shapes'
  BY ProtocolStep, StateStep, SessionStep, SentStep, ReportStep DEF Shapes
<1>3. QED
  BY <1>1, <1>2, InductiveInvariant, PTL DEF Spec

\* Between tasks the client and the backend of a session in use agree on COPY mode.
THEOREM ProtocolStateAgreesHolds == ASSUME SameMajor PROVE Spec => []ProtocolStateAgrees
<1>1. Shapes => ProtocolStateAgrees
  BY DEF Shapes, ProtocolShape, ProtocolStateAgrees
<1>2. QED
  BY <1>1, ShapesInvariant, PTL

\* Between tasks a transaction state on the route is the backend's, and the one the
\* connection reports.
THEOREM LastTxConfirmedHolds == ASSUME SameMajor PROVE Spec => []LastTxConfirmed
<1>1. Inductive /\ Shapes => LastTxConfirmed
  BY DEF Inductive, Continuation, InUseShape, Shapes, StateShape, LastTxConfirmed, TxStates
<1>2. QED
  BY <1>1, ShapesInvariant, PTL

\* No task is offered a session whose transaction failed.
THEOREM NoPoisonedSocketHolds == ASSUME SameMajor PROVE Spec => []NoPoisonedSocket
<1>1. Shapes => NoPoisonedSocket
  BY DEF Shapes, StateShape, NoPoisonedSocket
<1>2. QED
  BY <1>1, ShapesInvariant, PTL

\* A cancel task made while a session that has answered before runs a request
\* carries that session's key.
THEOREM CancelKeyCurrentHolds == ASSUME SameMajor PROVE Spec => []CancelKeyCurrent
<1>1. Inductive /\ Shapes => CancelKeyCurrent
  BY DEF Inductive, Continuation, SocketShape, Shapes, SessionShape, CancelKeyCurrent, Running
<1>2. QED
  BY <1>1, ShapesInvariant, PTL

\* COPY data and notification waits stay on the session that answered last.
THEOREM OriginalSessionHolds == ASSUME SameMajor PROVE Spec => []OriginalSession
<1>1. Shapes => OriginalSession
  BY DEF Shapes, SessionShape
<1>2. QED
  BY <1>1, ShapesInvariant, PTL

\* No task sends its request twice, whatever is lost and however often it is retried.
THEOREM AtMostOnceHolds == ASSUME SameMajor PROVE Spec => []AtMostOnce
<1>1. Shapes => AtMostOnce
  BY DEF Shapes, SentShape, AtMostOnce
<1>2. QED
  BY <1>1, ShapesInvariant, PTL

\* A plain query is refused for lack of continuity only if the last completed response
\* was not 'I', or was followed by a refusal.
THEOREM IdleLossReconnectsHolds == ASSUME SameMajor PROVE Spec => IdleLossReconnects
<1>1. Shapes /\ [Next]_vars => [RefuseByGuard /\ kind = "query" => report # "I"]_vars
  <2>1. ASSUME Shapes, RefuseByGuard, kind = "query" PROVE report # "I"
    BY <2>1 DEF Shapes, ReportShape, RefuseByGuard, GuardAccepts, AllowIdleReconnect,
                CopyKinds
  <2>2. QED
    BY <2>1
<1>2. QED
  BY <1>1, ShapesInvariant, PTL DEF Spec, IdleLossReconnects
=============================================================================
