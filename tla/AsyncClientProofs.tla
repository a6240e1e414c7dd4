------------------------- MODULE AsyncClientProofs -------------------------
(***************************************************************************)
(* Proofs of the safety properties of AsyncClient, for any number of tasks *)
(* and requests and any configuration.                                     *)
(***************************************************************************)
EXTENDS AsyncClient, TLAPS

\* The variables in the groups of AsyncClient.
USE DEF clientVars, connectVars, runVars, pingVars, tableVars, rpcVars, vars,
        ClientAssumption

-----------------------------------------------------------------------------
(* Type correctness.                                                       *)

LEMMA InitTypeOK == Init => TypeOK
  <1>. SUFFICES ASSUME Init PROVE TypeOK
       OBVIOUS
  <1>1. /\ fut \in [RequestIds -> {"none", "pending"} \cup FutureResults]
        /\ rpc \in [RequestIds -> {"none", "writing", "waiting"}]
        /\ via \in [RequestIds -> {"none", "this", "old"}]
        BY DEF Init
  <1>2. /\ connector \in [Connectors -> {"idle", "waiting", "ok", "gaveUp"} \cup Errors]
        /\ closer \in [Closers -> {"idle", "closeWs", "awaitRun", "returned"}]
        BY DEF Init
  <1>3. /\ delay \in Nat \ {0}
        /\ answering \in 0 .. MaxRequests
        /\ pingId \in 0 .. MaxRequests
        /\ requestId \in 0 .. MaxRequests
        /\ pending \subseteq RequestIds
        BY ClientAssumption DEF Init
  <1>4. /\ closed \in BOOLEAN /\ connected \in BOOLEAN /\ loginInfo \in BOOLEAN
        /\ ws \in BOOLEAN /\ stopReconnect \in BOOLEAN
        /\ firstConnect \in {"none", "pending", "ok"} \cup Errors
        /\ run \in RunStates
        /\ runCancel \in BOOLEAN
        /\ err \in {"none"} \cup Errors
        /\ sock \in {"none", "open", "closing"}
        /\ ping \in {"none", "sleep", "rpc", "onError"}
        /\ pingCancel \in BOOLEAN
        BY DEF Init, RunStates
  <1>5. run = "none" /\ closed = FALSE
        BY DEF Init
  <1>. QED BY <1>1, <1>2, <1>3, <1>4, <1>5 DEF TypeOK

\* What _signal_first_connect leaves is a future and outcomes of the right type.
LEMMA SignalType ==
    ASSUME TypeOK, NEW result \in {"ok"} \cup Errors, Signal(result)
    PROVE  /\ firstConnect' \in {"none", "pending", "ok"} \cup Errors
           /\ firstConnect # "none" => firstConnect' # "none"
           /\ connector' \in [Connectors -> {"idle", "waiting", "ok", "gaveUp"} \cup Errors]
  BY DEF TypeOK, Signal, Errors

\* Failing or resolving futures keeps the table of futures well typed.
LEMMA FailAllType ==
    ASSUME TypeOK, NEW e \in {"disconnected"} \cup Errors, FailAll(e)
    PROVE  fut' \in [RequestIds -> {"none", "pending"} \cup FutureResults]
  BY DEF TypeOK, FailAll, FutureResults, Errors

LEMMA ResolveType ==
    ASSUME TypeOK, NEW i \in RequestIds, NEW result \in {"value", "error"},
           Resolve(i, result)
    PROVE  fut' \in [RequestIds -> {"none", "pending"} \cup FutureResults]
  BY DEF TypeOK, Resolve, FutureResults, Errors

\* Where _run goes on with an exception.
BackInRunTypes ==
    /\ run' \in {"done", "onError"}
    /\ err' = "none"
    /\ firstConnect' \in {"none", "pending", "ok"} \cup Errors
    /\ firstConnect # "none" => firstConnect' # "none"
    /\ connector' \in [Connectors -> {"idle", "waiting", "ok", "gaveUp"} \cup Errors]
    /\ fut' \in [RequestIds -> {"none", "pending"} \cup FutureResults]

LEMMA BackInRunType ==
    ASSUME TypeOK, NEW e \in Errors, BackInRun(e)
    PROVE  BackInRunTypes
  <1>1. CASE e = "raised" /\ FailAll("closed") /\ UNCHANGED connectVars
        BY <1>1, FailAllType DEF BackInRun, BackInRunTypes, TypeOK, Errors
  <1>2. CASE ShouldRetry(e) /\ UNCHANGED <<fut, connectVars>>
        BY <1>2 DEF BackInRun, BackInRunTypes, TypeOK, Errors
  <1>3. CASE Signal(e) /\ FailAll(e)
        BY <1>3, SignalType, FailAllType DEF BackInRun, BackInRunTypes
  <1>. QED BY <1>1, <1>2, <1>3 DEF BackInRun

LEMMA SmallerType ==
    ASSUME NEW a \in Nat \ {0}, NEW b \in Nat \ {0}
    PROVE  Smaller(a, b) \in Nat \ {0}
  BY DEF Smaller

LEMMA RegisterType ==
    ASSUME TypeOK, NEW i \in RequestIds, Register(i)
    PROVE  /\ requestId' \in 0 .. MaxRequests
           /\ pending' \subseteq RequestIds
           /\ fut' \in [RequestIds -> {"none", "pending"} \cup FutureResults]
           /\ rpc' \in [RequestIds -> {"none", "writing", "waiting"}]
           /\ via' \in [RequestIds -> {"none", "this", "old"}]
  BY ClientAssumption DEF TypeOK, Register, NextId, RequestIds

LEMMA EndRpcType ==
    ASSUME TypeOK, NEW i \in RequestIds, NEW next \in {"none", "sleep", "onError"},
           EndRpc(i, next)
    PROVE  TypeOK'
  <1>1. /\ pending' \subseteq RequestIds
        /\ fut' \in [RequestIds -> {"none", "pending"} \cup FutureResults]
        /\ rpc' \in [RequestIds -> {"none", "writing", "waiting"}]
        /\ UNCHANGED <<requestId, via>>
        BY DEF TypeOK, EndRpc, Unregister
  <1>2. /\ ping' \in {"none", "sleep", "rpc", "onError"}
        /\ pingId' \in 0 .. MaxRequests
        /\ pingCancel' \in BOOLEAN
        <2>1. CASE i = pingId
              <3>1. ping' = next /\ pingId' = 0 /\ pingCancel' \in BOOLEAN
                    BY <2>1 DEF EndRpc
              <3>. QED BY <3>1, ClientAssumption
        <2>2. CASE i # pingId
              BY <2>2 DEF TypeOK, EndRpc
        <2>. QED BY <2>1, <2>2
  <1>3. UNCHANGED <<clientVars, connectVars, runVars, sock, closer>>
        BY DEF EndRpc
  <1>. QED BY <1>1, <1>2, <1>3 DEF TypeOK

\* The finally clause of _connect_and_serve.
LEMMA LeaveServeType ==
    ASSUME TypeOK, NEW e \in Errors, LeaveServe(e), run # "none",
           UNCHANGED <<delay, answering, tableVars, closer>>,
           runCancel' \in BOOLEAN, sock' \in {"none", "open", "closing"}
    PROVE  TypeOK'
  <1>1. CASE ping = "none"
        <2>1. BackInRunTypes /\ UNCHANGED <<ping, pingCancel>>
              BY <1>1, BackInRunType DEF LeaveServe
        <2>. QED BY <2>1 DEF TypeOK, LeaveServe, BackInRunTypes, RunStates
  <1>2. CASE ping # "none"
        <2>1. e # "none"
              BY DEF Errors
        <2>. QED BY <1>2, <2>1 DEF TypeOK, LeaveServe, RunStates
  <1>. QED BY <1>1, <1>2

\* How _run enters _connect_and_serve.
BeginServeTypes ==
    /\ run' \in RunStates \ {"none"}
    /\ run' \in {"onDisconnect", "closingWs", "excClosing", "stopPing"} => err' # "none"
    /\ err' \in {"none"} \cup Errors
    /\ firstConnect' \in {"none", "pending", "ok"} \cup Errors
    /\ firstConnect # "none" => firstConnect' # "none"
    /\ connector' \in [Connectors -> {"idle", "waiting", "ok", "gaveUp"} \cup Errors]
    /\ fut' \in [RequestIds -> {"none", "pending"} \cup FutureResults]

LEMMA BeginServeType == ASSUME TypeOK, BeginServe PROVE BeginServeTypes
  <1>1. CASE closed
        <2>1. BackInRunTypes
              BY <1>1, BackInRunType DEF BeginServe, Errors
        <2>. QED BY <2>1 DEF BackInRunTypes, BeginServeTypes, RunStates
  <1>2. CASE ~closed
        BY <1>2 DEF TypeOK, BeginServe, BeginServeTypes, RunStates
  <1>. QED BY <1>1, <1>2

-----------------------------------------------------------------------------
LEMMA ConnectCloseTypeOK ==
    ASSUME TypeOK,
           \/ \E c \in Connectors : Connect(c) \/ ConnectCancelled(c)
           \/ \E k \in Closers :
                \/ CloseFirst(k) \/ CloseWsDone(k) \/ CloseAgain(k) \/ CloseDone(k)
    PROVE  TypeOK'
  <1>1. ASSUME NEW c \in Connectors, Connect(c) PROVE TypeOK'
        <2>1. ASSUME NEW outcome \in {"waiting", "ok"} \cup Errors, ConnectYields(c, outcome)
              PROVE  TypeOK'
              <3>1. connector' \in [Connectors -> {"idle", "waiting", "ok", "gaveUp"} \cup Errors]
                    BY <2>1 DEF TypeOK, ConnectYields
              <3>2. UNCHANGED <<clientVars, firstConnect, runVars, sock, pingVars, rpcVars,
                               closer>>
                    BY <2>1 DEF ConnectYields
              <3>. QED BY <3>1, <3>2 DEF TypeOK
        <2>2. CASE /\ firstConnect' = "pending"
                   /\ run' = "start" /\ runCancel' = FALSE
                   /\ connector' = [connector EXCEPT ![c] = "waiting"]
                   /\ UNCHANGED <<clientVars, err, delay, answering, sock, pingVars,
                                  rpcVars, closer>>
              <3>1. connector' \in [Connectors -> {"idle", "waiting", "ok", "gaveUp"} \cup Errors]
                    BY <2>2 DEF TypeOK
              <3>2. /\ firstConnect' = "pending" /\ run' = "start"
                    /\ runCancel' \in BOOLEAN
                    BY <2>2
              <3>3. UNCHANGED <<clientVars, err, delay, answering, sock, pingVars, rpcVars,
                               closer>>
                    BY <2>2
              <3>. QED BY <3>1, <3>2, <3>3 DEF TypeOK, RunStates
        <2>3. RunOver \/ firstConnect \in {"pending", "ok"} \cup Errors
              BY DEF TypeOK, RunOver
        <2>. QED BY <1>1, <2>1, <2>2, <2>3 DEF Connect, Errors
  <1>2. ASSUME NEW c \in Connectors, ConnectCancelled(c) PROVE TypeOK'
        BY <1>2 DEF TypeOK, ConnectCancelled, Errors
  <1>3. ASSUME NEW k \in Closers, CloseFirst(k) PROVE TypeOK'
        <2>1. /\ firstConnect' \in {"none", "pending", "ok"} \cup Errors
              /\ firstConnect # "none" => firstConnect' # "none"
              /\ connector' \in [Connectors -> {"idle", "waiting", "ok", "gaveUp"} \cup Errors]
              /\ fut' \in [RequestIds -> {"none", "pending"} \cup FutureResults]
              BY <1>3, SignalType, FailAllType DEF CloseFirst, Errors
        <2>. QED BY <1>3, <2>1 DEF TypeOK, CloseFirst, RunOver
  <1>4. ASSUME NEW k \in Closers, CloseWsDone(k) PROVE TypeOK'
        <2>1. runCancel' \in BOOLEAN
              BY <1>4 DEF CloseWsDone
        <2>. QED BY <1>4, <2>1 DEF TypeOK, CloseWsDone
  <1>5. ASSUME NEW k \in Closers, CloseAgain(k) \/ CloseDone(k) PROVE TypeOK'
        BY <1>5 DEF TypeOK, CloseAgain, CloseDone
  <1>. QED BY <1>1, <1>2, <1>3, <1>4, <1>5

LEMMA RunResumesTypeOK == ASSUME TypeOK, RunResumes PROVE TypeOK'
  <1>1. CASE RunStarts
        <2>1. delay' \in Nat \ {0}
              BY <1>1, ClientAssumption DEF RunStarts
        <2>2. run = "start" /\ BeginServeTypes
              BY <1>1, BeginServeType DEF RunStarts, RunAt
        <2>. QED BY <1>1, <2>1, <2>2 DEF TypeOK, RunStarts, BeginServeTypes
  <1>2. CASE Loaded \/ LoginWritten \/ ReadErrorDone \/ OnErrorDone
        BY <1>2 DEF TypeOK, Loaded, LoginWritten, ReadErrorDone, OnErrorDone, Goto, RunAt, RunStates
  <1>3. CASE LoadOrDialFails
        BY <1>3, LeaveServeType DEF TypeOK, LoadOrDialFails, RunAt, Errors
  <1>4. CASE Dialled
        BY <1>4 DEF TypeOK, Dialled, RunAt, RunStates
  <1>5. ASSUME NEW e \in {"failed", "unauthorized"}, LoginFails(e) PROVE TypeOK'
        <2>1. run # "none" /\ stopReconnect' \in BOOLEAN
              BY <1>5 DEF TypeOK, LoginFails, RunAt
        <2>2. /\ run' = "excClosing" /\ err' = e /\ sock' = "closing"
              /\ UNCHANGED <<closed, connected, loginInfo, ws, connectVars, runCancel,
                             delay, answering, pingVars, rpcVars, closer>>
              BY <1>5 DEF LoginFails, CloseAfterException
        <2>. QED BY <2>1, <2>2 DEF TypeOK, RunStates, Errors
  <1>6. CASE LoginOk
        BY <1>6 DEF TypeOK, LoginOk, RunAt, RunStates
  <1>7. CASE OnLoginDone
        BY <1>7, SignalType DEF TypeOK, OnLoginDone, RunAt, RunStates
  <1>8. CASE HandlingDone
        <2>1. fut' \in [RequestIds -> {"none", "pending"} \cup FutureResults]
              BY <1>8, ResolveType DEF TypeOK, HandlingDone, RunAt, RequestIds
        <2>2. answering' \in 0 .. MaxRequests
              BY <1>8, ClientAssumption DEF HandlingDone
        <2>. QED BY <1>8, <2>1, <2>2 DEF TypeOK, HandlingDone, RunAt, RunStates
  <1>9. CASE HandlingFails
        BY <1>9, ClientAssumption DEF TypeOK, HandlingFails, RunAt, RunStates
  <1>10. CASE OnDisconnectDone
        BY <1>10 DEF TypeOK, OnDisconnectDone, RunAt, RunStates
  <1>11. CASE ClosingDone
        <2>1. err \in Errors
              BY <1>11 DEF TypeOK, ClosingDone, RunAt
        <2>. QED BY <1>11, <2>1, LeaveServeType DEF TypeOK, ClosingDone, RunAt
  <1>12. CASE PingStopped
        <2>1. err \in Errors
              BY <1>12 DEF TypeOK, PingStopped, RunAt
        <2>2. BackInRunTypes
              BY <1>12, <2>1, BackInRunType DEF PingStopped
        <2>. QED BY <1>12, <2>2 DEF TypeOK, PingStopped, RunAt, BackInRunTypes, RunStates
  <1>13. CASE SleepDone
        <2>1. delay' \in Nat \ {0}
              BY <1>13, ClientAssumption, SmallerType DEF TypeOK, SleepDone, RunAt
        <2>2. run = "sleeping" /\ BeginServeTypes
              BY <1>13, BeginServeType DEF SleepDone, RunAt
        <2>. QED BY <1>13, <2>1, <2>2 DEF TypeOK, SleepDone, BeginServeTypes
  <1>. QED BY <1>1, <1>2, <1>3, <1>4, <1>5, <1>6, <1>7, <1>8, <1>9, <1>10, <1>11,
              <1>12, <1>13 DEF RunResumes

LEMMA RunCancelledTypeOK == ASSUME TypeOK, RunCancelled PROVE TypeOK'
  <1>1. CASE CancelledAtStart
        <2>1. run = "start" /\ runCancel' \in BOOLEAN
              BY <1>1 DEF CancelledAtStart, CancelledAt
        <2>. QED BY <1>1, <2>1 DEF TypeOK, CancelledAtStart, RunStates
  <1>2. CASE CancelledBeforeSocket
        BY <1>2, LeaveServeType DEF TypeOK, CancelledBeforeSocket, CancelledAt, Errors
  <1>3. CASE CancelledWithSocket
        <2>1. run # "none" /\ runCancel' \in BOOLEAN
              BY <1>3 DEF CancelledWithSocket, CancelledAt
        <2>. QED BY <1>3, <2>1 DEF TypeOK, CancelledWithSocket, CloseAfterException,
                                   RunStates, Errors
  <1>4. CASE CancelledReading
        <2>1. fut' \in [RequestIds -> {"none", "pending"} \cup FutureResults]
              BY <1>4, FailAllType DEF CancelledReading, Disconnect
        <2>. QED BY <1>4, <2>1, ZenonT(60) DEF TypeOK, CancelledReading, CancelledAt,
                                             Disconnect, RunStates, Errors
  <1>5. CASE CancelledHandling
        <2>1. run = "handling" /\ runCancel' \in BOOLEAN
              BY <1>5 DEF CancelledHandling, CancelledAt
        <2>. QED BY <1>5, <2>1, ClientAssumption DEF TypeOK, CancelledHandling, RunStates
  <1>6. CASE CancelledExcClosing
        BY <1>6, LeaveServeType DEF TypeOK, CancelledExcClosing, CancelledAt, Errors
  <1>7. CASE CancelledStopPing
        BY <1>7, ZenonT(60) DEF TypeOK, CancelledStopPing, CancelledAt
  <1>8. CASE CancelledBetween
        <2>1. fut' \in [RequestIds -> {"none", "pending"} \cup FutureResults]
              BY <1>8, FailAllType DEF CancelledBetween, Errors
        <2>2. run # "none" /\ runCancel' \in BOOLEAN
              BY <1>8 DEF CancelledBetween, CancelledAt
        <2>. QED BY <1>8, <2>1, <2>2 DEF TypeOK, CancelledBetween, RunStates
  <1>. QED BY <1>1, <1>2, <1>3, <1>4, <1>5, <1>6, <1>7, <1>8 DEF RunCancelled

LEMMA ReadsTypeOK == ASSUME TypeOK, Reads PROVE TypeOK'
  <1>1. CASE ReadPush \/ ReadUnusable
        BY <1>1 DEF TypeOK, ReadPush, ReadUnusable, Goto, RunAt, RunStates
  <1>2. CASE ReadFails
        <2>1. fut' \in [RequestIds -> {"none", "pending"} \cup FutureResults]
              BY <1>2, FailAllType DEF ReadFails, Disconnect
        <2>. QED BY <1>2, <2>1, ZenonT(60) DEF TypeOK, ReadFails, RunAt, Disconnect,
                                             RunStates, Errors
  <1>3. ASSUME NEW i \in RequestIds, ReadMessageAnswer(i) PROVE TypeOK'
        BY <1>3 DEF TypeOK, ReadMessageAnswer, RunAt, RunStates, RequestIds
  <1>4. ASSUME NEW i \in RequestIds, NEW result \in {"value", "error"},
               ReadAnswer(i, result)
        PROVE  TypeOK'
        <2>1. fut' \in [RequestIds -> {"none", "pending"} \cup FutureResults]
              BY <1>4, ResolveType DEF ReadAnswer
        <2>. QED BY <1>4, <2>1 DEF TypeOK, ReadAnswer
  <1>. QED BY <1>1, <1>2, <1>3, <1>4 DEF Reads

LEMMA RequestsTypeOK ==
    ASSUME TypeOK,
           \/ PingSteps
           \/ \E i \in RequestIds : StartRpc(i) \/ RpcSteps(i) \/ RpcCancelled(i)
    PROVE  TypeOK'
  <1>1. CASE PingEnds \/ PingErrorHandled \/ PingCancelled
        <2>1. ASSUME NEW from, NEW cancelled, NEW to \in {"none", "sleep"},
                     PingMoves(from, cancelled, to)
              PROVE  TypeOK'
              <3>1. /\ ping' = to /\ pingCancel' \in BOOLEAN
                    /\ UNCHANGED <<clientVars, connectVars, runVars, sock, pingId,
                                   rpcVars, closer>>
                    BY <2>1 DEF PingMoves
              <3>. QED BY <3>1 DEF TypeOK
        <2>. QED BY <1>1, <2>1 DEF PingEnds, PingErrorHandled, PingCancelled
  <1>2. ASSUME NEW i \in RequestIds, PingSends(i) PROVE TypeOK'
        BY <1>2, RegisterType DEF TypeOK, PingSends, RequestIds
  <1>3. ASSUME NEW i \in RequestIds, PingCancelledInRpc(i) PROVE TypeOK'
        BY <1>3, EndRpcType DEF PingCancelledInRpc
  <1>4. ASSUME NEW i \in RequestIds, StartRpc(i) PROVE TypeOK'
        BY <1>4, RegisterType DEF TypeOK, StartRpc
  <1>5. ASSUME NEW i \in RequestIds, WriteDone(i) PROVE TypeOK'
        BY <1>5 DEF TypeOK, WriteDone
  <1>6. ASSUME NEW i \in RequestIds, WriteFails(i) PROVE TypeOK'
        BY <1>6, EndRpcType DEF WriteFails
  <1>7. ASSUME NEW i \in RequestIds, RpcReturns(i) PROVE TypeOK'
        BY <1>7, EndRpcType DEF RpcReturns
  <1>8. ASSUME NEW i \in RequestIds, RpcTimesOut(i) \/ RpcCancelled(i) PROVE TypeOK'
        BY <1>8, EndRpcType DEF RpcTimesOut, RpcCancelled
  <1>. QED BY <1>1, <1>2, <1>3, <1>4, <1>5, <1>6, <1>7, <1>8 DEF PingSteps, RpcSteps

LEMMA TypeStep == TypeOK /\ [Next]_vars => TypeOK'
  <1>. SUFFICES ASSUME TypeOK, [Next]_vars PROVE TypeOK'
       OBVIOUS
  <1>1. CASE UNCHANGED vars
        BY <1>1 DEF TypeOK
  <1>. QED BY <1>1, ConnectCloseTypeOK, RunResumesTypeOK, RunCancelledTypeOK, ReadsTypeOK,
              RequestsTypeOK DEF Next

\* Every state of the client is one the type invariant describes: the fields of
\* AsyncClient, the places its tasks wait at, the table of futures.
THEOREM TypeCorrect == Spec => []TypeOK
  BY InitTypeOK, TypeStep, PTL DEF Spec

-----------------------------------------------------------------------------
(* The inductive invariant.  Its parts are the safety properties of         *)
(* AsyncClient, which hold each other up, and what is known of close().    *)

\* Any close() that has begun has closed the client; none returns before the
\* run task is over.
ClosersInv ==
    /\ \A k \in Closers : closer[k] # "idle" => closed
    /\ \A k \in Closers : closer[k] = "returned" => RunOver

ControlInv == SessionMatchesConnection /\ NoSocketLeak /\ CloseReachesTheRunTask

RequestInv == NoOrphanedFuture /\ PendingTableIsTight

\* What _connect_and_serve says of its end: a refusal is on record, and neither
\* ClosedError nor CancelledError comes from anything but close().
Truthful(e) ==
    /\ e = "unauthorized" => stopReconnect
    /\ e \in {"closed", "cancelled", "raised"} => closed

EndInv == RunEndsForAReason /\ Truthful(err)

IInv ==
    /\ TypeOK
    /\ ControlInv
    /\ RequestInv
    /\ NoWaiterIsStranded
    /\ PingOnlyWhileServed
    /\ EndInv
    /\ ClosersInv

LEMMA InitIInv == Init => IInv
  <1>. SUFFICES ASSUME Init PROVE IInv
       OBVIOUS
  <1>1. TypeOK
        BY InitTypeOK
  <1>2. ControlInv
        BY DEF Init, ControlInv, SessionMatchesConnection, NoSocketLeak,
               CloseReachesTheRunTask
  <1>3. RequestInv
        BY DEF Init, RequestInv, NoOrphanedFuture, PendingTableIsTight
  <1>4. NoWaiterIsStranded /\ PingOnlyWhileServed /\ EndInv /\ ClosersInv
        BY DEF Init, NoWaiterIsStranded, PingOnlyWhileServed, EndInv, Truthful,
               RunEndsForAReason, ClosersInv
  <1>. QED BY <1>1, <1>2, <1>3, <1>4 DEF IInv

-----------------------------------------------------------------------------
(* The connection, the socket and the cancellation of the run task.        *)

LEMMA ControlFrame ==
    ASSUME ControlInv, UNCHANGED <<clientVars, run, runCancel, err, sock>>
    PROVE  ControlInv'
  BY DEF ControlInv, SessionMatchesConnection, NoSocketLeak, CloseReachesTheRunTask

\* close() leaves no connection and a cancelled run task.
LEMMA ControlClosed ==
    ASSUME ControlInv,
           closed' = TRUE, ws' = FALSE, connected' = FALSE, loginInfo' = FALSE,
           UNCHANGED <<run, err, sock>>, ~RunOver => runCancel'
    PROVE  ControlInv'
  BY DEF ControlInv, SessionMatchesConnection, NoSocketLeak, CloseReachesTheRunTask, RunOver

LEMMA LeaveServeControl ==
    ASSUME TypeOK, ControlInv, NEW e \in Errors, LeaveServe(e),
           run \in {"loading", "dialing", "closingWs", "excClosing"},
           sock' \in {sock, "none"}, runCancel' => runCancel, 
           e = "raised" => closed
    PROVE  ControlInv'
  <1>. USE DEF TypeOK, ControlInv, SessionMatchesConnection, NoSocketLeak,
          CloseReachesTheRunTask, LoggedIn
  <1>1. CASE ping = "none"
        BY <1>1 DEF LeaveServe, BackInRun, ShouldRetry
  <1>2. CASE ping # "none"
        BY <1>2 DEF LeaveServe
  <1>. QED BY <1>1, <1>2

LEMMA RunCancelledControl == ASSUME TypeOK, ControlInv, RunCancelled PROVE ControlInv'
  <1>. USE DEF TypeOK, ControlInv, SessionMatchesConnection, NoSocketLeak,
          CloseReachesTheRunTask, LoggedIn
  <1>1. CASE CancelledAtStart
        BY <1>1 DEF CancelledAtStart, CancelledAt
  <1>2. CASE CancelledBeforeSocket
        BY <1>2, LeaveServeControl DEF CancelledBeforeSocket, CancelledAt, Errors
  <1>3. CASE CancelledWithSocket
        BY <1>3 DEF CancelledWithSocket, CancelledAt, CloseAfterException
  <1>4. CASE CancelledReading
        BY <1>4 DEF CancelledReading, CancelledAt, Disconnect
  <1>5. CASE CancelledHandling
        BY <1>5 DEF CancelledHandling, CancelledAt
  <1>6. CASE CancelledExcClosing
        BY <1>6, LeaveServeControl DEF CancelledExcClosing, CancelledAt, Errors
  <1>7. CASE CancelledStopPing
        BY <1>7 DEF CancelledStopPing, CancelledAt
  <1>8. CASE CancelledBetween
        BY <1>8 DEF CancelledBetween, CancelledAt
  <1>. QED BY <1>1, <1>2, <1>3, <1>4, <1>5, <1>6, <1>7, <1>8 DEF RunCancelled

LEMMA RunResumesControl == ASSUME TypeOK, ControlInv, RunResumes PROVE ControlInv'
  <1>. USE DEF TypeOK, ControlInv, SessionMatchesConnection, NoSocketLeak,
          CloseReachesTheRunTask, LoggedIn
  <1>1. CASE RunStarts \/ SleepDone
        BY <1>1 DEF RunStarts, SleepDone, BeginServe, BackInRun, RunAt
  <1>2. CASE Loaded \/ LoginWritten \/ ReadErrorDone \/ OnErrorDone
        BY <1>2 DEF Loaded, LoginWritten, ReadErrorDone, OnErrorDone, Goto, RunAt
  <1>3. CASE LoadOrDialFails
        BY <1>3, LeaveServeControl DEF LoadOrDialFails, RunAt, Errors
  <1>4. CASE Dialled
        BY <1>4 DEF Dialled, RunAt
  <1>5. ASSUME NEW e \in {"failed", "unauthorized"}, LoginFails(e) PROVE ControlInv'
        BY <1>5 DEF LoginFails, CloseAfterException, RunAt
  <1>6. CASE LoginOk
        BY <1>6 DEF LoginOk, RunAt
  <1>7. CASE OnLoginDone
        BY <1>7 DEF OnLoginDone, RunAt
  <1>8. CASE HandlingDone \/ HandlingFails
        BY <1>8 DEF HandlingDone, HandlingFails, RunAt
  <1>9. CASE OnDisconnectDone
        BY <1>9 DEF OnDisconnectDone, RunAt
  <1>10. CASE ClosingDone
        BY <1>10, LeaveServeControl DEF ClosingDone, RunAt
  <1>11. CASE PingStopped
        BY <1>11 DEF PingStopped, BackInRun, RunAt, ShouldRetry
  <1>. QED BY <1>1, <1>2, <1>3, <1>4, <1>5, <1>6, <1>7, <1>8, <1>9, <1>10,
              <1>11 DEF RunResumes

LEMMA CallersControl ==
    ASSUME TypeOK, ControlInv, ClosersInv,
           \/ \E c \in Connectors : Connect(c) \/ ConnectCancelled(c)
           \/ \E k \in Closers :
                \/ CloseFirst(k) \/ CloseWsDone(k) \/ CloseAgain(k) \/ CloseDone(k)
    PROVE  ControlInv'
  <1>1. ASSUME NEW c \in Connectors, Connect(c) PROVE ControlInv'
        BY <1>1 DEF Connect, ConnectYields, RunOver, TypeOK, ControlInv,
                    SessionMatchesConnection, NoSocketLeak, CloseReachesTheRunTask, LoggedIn
  <1>2. ASSUME NEW c \in Connectors, ConnectCancelled(c) PROVE ControlInv'
        BY <1>2, ControlFrame DEF ConnectCancelled
  <1>3. ASSUME NEW k \in Closers, CloseFirst(k), ws PROVE ControlInv'
        BY <1>3 DEF CloseFirst, TypeOK, ControlInv, SessionMatchesConnection,
                    NoSocketLeak, CloseReachesTheRunTask, LoggedIn
  <1>4. ASSUME NEW k \in Closers, CloseFirst(k), ~ws PROVE ControlInv'
        BY <1>4, ControlClosed DEF CloseFirst
  <1>5. ASSUME NEW k \in Closers, CloseWsDone(k) PROVE ControlInv'
        <2>1. closed = TRUE /\ ws = FALSE /\ connected = FALSE /\ loginInfo = FALSE
              BY <1>5 DEF CloseWsDone, ClosersInv, ControlInv, SessionMatchesConnection, TypeOK
        <2>. QED BY <1>5, <2>1, ControlClosed DEF CloseWsDone
  <1>6. ASSUME NEW k \in Closers, CloseAgain(k) \/ CloseDone(k) PROVE ControlInv'
        BY <1>6, ControlFrame DEF CloseAgain, CloseDone
  <1>. QED BY <1>1, <1>2, <1>3, <1>4, <1>5, <1>6

LEMMA TrafficControl ==
    ASSUME TypeOK, ControlInv,
           \/ Reads \/ PingSteps
           \/ \E i \in RequestIds : StartRpc(i) \/ RpcSteps(i) \/ RpcCancelled(i)
    PROVE  ControlInv'
  <1>1. CASE Reads
        <2>. USE DEF TypeOK, ControlInv, SessionMatchesConnection, NoSocketLeak,
                     CloseReachesTheRunTask, LoggedIn, RunAt
        <2>1. CASE ReadPush \/ ReadUnusable
              BY <2>1 DEF ReadPush, ReadUnusable, Goto
        <2>2. CASE ReadFails
              BY <2>2 DEF ReadFails, Disconnect
        <2>3. ASSUME NEW i \in RequestIds, ReadMessageAnswer(i) PROVE ControlInv'
              BY <2>3 DEF ReadMessageAnswer
        <2>4. ASSUME NEW i \in RequestIds, NEW result, ReadAnswer(i, result) PROVE ControlInv'
              BY <2>4, ControlFrame DEF ReadAnswer
        <2>. QED BY <1>1, <2>1, <2>2, <2>3, <2>4 DEF Reads
  <1>2. CASE PingSteps
        <2>1. CASE PingEnds \/ PingErrorHandled \/ PingCancelled
              BY <2>1, ControlFrame DEF PingEnds, PingErrorHandled, PingCancelled, PingMoves
        <2>2. ASSUME NEW i \in RequestIds, PingSends(i) PROVE ControlInv'
              BY <2>2, ControlFrame DEF PingSends
        <2>3. ASSUME NEW i \in RequestIds, PingCancelledInRpc(i) PROVE ControlInv'
              BY <2>3, ControlFrame DEF PingCancelledInRpc, EndRpc
        <2>. QED BY <1>2, <2>1, <2>2, <2>3 DEF PingSteps
  <1>3. ASSUME NEW i \in RequestIds, StartRpc(i) \/ RpcSteps(i) \/ RpcCancelled(i)
        PROVE  ControlInv'
        <2>1. ASSUME NEW next, EndRpc(i, next) PROVE ControlInv'
              BY <2>1, ControlFrame DEF EndRpc
        <2>2. CASE StartRpc(i) \/ WriteDone(i)
              BY <2>2, ControlFrame DEF StartRpc, WriteDone
        <2>. QED BY <1>3, <2>1, <2>2 DEF RpcSteps, WriteFails, RpcReturns, RpcTimesOut,
                                         RpcCancelled
  <1>. QED BY <1>1, <1>2, <1>3

LEMMA ControlStep == IInv /\ [Next]_vars => ControlInv'
  <1>. SUFFICES ASSUME IInv, [Next]_vars PROVE ControlInv'
       OBVIOUS
  <1>1. CASE UNCHANGED vars
        BY <1>1 DEF IInv, ControlInv, SessionMatchesConnection, NoSocketLeak,
                    CloseReachesTheRunTask
  <1>. QED BY <1>1, RunResumesControl, RunCancelledControl, CallersControl,
              TrafficControl DEF Next, IInv

-----------------------------------------------------------------------------
(* The table of requests.                                                  *)

\* Steps that start or end no request: the futures may settle, and while one is
\* open the client keeps its connection.
LEMMA RequestFrame ==
    ASSUME RequestInv, UNCHANGED <<tableVars, pingId>>,
           ping' = "rpc" <=> ping = "rpc",
           \A i \in RequestIds : /\ fut'[i] = "pending" => fut[i] = "pending"
                                 /\ fut'[i] = "none" => fut[i] = "none",
           (\E i \in RequestIds : fut'[i] = "pending") => ws' /\ ~closed'
    PROVE  RequestInv'
  <1>1. NoOrphanedFuture'
        BY DEF RequestInv, NoOrphanedFuture
  <1>2. PendingTableIsTight'
        BY DEF RequestInv, PendingTableIsTight
  <1>. QED BY <1>1, <1>2 DEF RequestInv

\* _fail_all_pending leaves no open future behind.
LEMMA FailAllSettles ==
    ASSUME TypeOK, RequestInv, NEW e \in {"disconnected"} \cup Errors, FailAll(e)
    PROVE  \A i \in RequestIds : fut'[i] # "pending" /\ (fut'[i] = "none" => fut[i] = "none")
  BY DEF TypeOK, RequestInv, NoOrphanedFuture, FailAll, Errors

LEMMA ResolveSettles ==
    ASSUME TypeOK, NEW r \in RequestIds, NEW result \in {"value", "error"},
           Resolve(r, result)
    PROVE  \A i \in RequestIds : /\ fut'[i] = "pending" => fut[i] = "pending"
                                 /\ fut'[i] = "none" => fut[i] = "none"
  BY DEF TypeOK, Resolve

\* Without a connection no future is open, so _run and the finally clause find
\* nothing to fail.
LEMMA NothingOpenOffline ==
    ASSUME RequestInv, ~ws
    PROVE  \A i \in RequestIds : fut[i] # "pending"
  BY DEF RequestInv, NoOrphanedFuture

LEMMA BackInRunSettles ==
    ASSUME TypeOK, RequestInv, ~ws, NEW e \in Errors, BackInRun(e)
    PROVE  \A i \in RequestIds : fut'[i] # "pending" /\ (fut'[i] = "none" => fut[i] = "none")
  <1>1. CASE FailAll("closed") \/ FailAll(e)
        BY <1>1, FailAllSettles DEF Errors
  <1>2. CASE UNCHANGED fut
        BY <1>2, NothingOpenOffline
  <1>. QED BY <1>1, <1>2 DEF BackInRun

LEMMA LeaveServeRequests ==
    ASSUME TypeOK, ControlInv, RequestInv, NEW e \in Errors, LeaveServe(e),
           run \notin LoggedIn, UNCHANGED tableVars
    PROVE  RequestInv'
  <1>1. ~ws
        BY DEF ControlInv, SessionMatchesConnection
  <1>2. \A i \in RequestIds : fut'[i] # "pending" /\ (fut'[i] = "none" => fut[i] = "none")
        BY <1>1, BackInRunSettles, NothingOpenOffline DEF LeaveServe
  <1>3. UNCHANGED <<ping, pingId>>
        BY DEF LeaveServe
  <1>. QED BY <1>2, <1>3, RequestFrame

LEMMA RegisterRequest ==
    ASSUME TypeOK, RequestInv, NEW i \in RequestIds, Register(i),
           ~closed /\ ws, UNCHANGED clientVars,
           \/ UNCHANGED <<ping, pingId>>
           \/ ping # "rpc" /\ ping' = "rpc" /\ pingId' = i
    PROVE  RequestInv'
  <1>1. i \notin pending /\ i = requestId + 1 /\ requestId' = i
        BY DEF TypeOK, RequestInv, PendingTableIsTight, Register, NextId, RequestIds
  <1>2. /\ pending' = pending \cup {i}
        /\ fut' = [fut EXCEPT ![i] = "pending"]
        /\ rpc' = [rpc EXCEPT ![i] = "writing"]
        /\ via' = [via EXCEPT ![i] = "this"]
        BY DEF Register
  <1>3. NoOrphanedFuture'
        BY <1>2 DEF TypeOK, RequestInv, NoOrphanedFuture
  <1>4. \A j \in RequestIds : j \in pending' <=> rpc'[j] # "none"
        BY <1>1, <1>2 DEF TypeOK, RequestInv, PendingTableIsTight
  <1>5. \A j \in RequestIds : j \in pending' => j <= requestId' /\ fut'[j] # "none"
        BY <1>1, <1>2 DEF TypeOK, RequestInv, PendingTableIsTight, RequestIds
  <1>6. /\ ping' = "rpc" <=> pingId' # 0
        /\ pingId' # 0 => pingId' \in pending'
        BY <1>2 DEF RequestInv, PendingTableIsTight, RequestIds
  <1>. QED BY <1>3, <1>4, <1>5, <1>6 DEF RequestInv, PendingTableIsTight

LEMMA EndRpcRequests ==
    ASSUME TypeOK, RequestInv, NEW i \in RequestIds,
           NEW next \in {"none", "sleep", "onError"}, EndRpc(i, next)
    PROVE  RequestInv'
  <1>1. /\ pending' = pending \ {i}
        /\ fut' = [fut EXCEPT ![i] = "none"]
        /\ rpc' = [rpc EXCEPT ![i] = "none"]
        /\ UNCHANGED <<requestId, via, clientVars>>
        BY DEF EndRpc, Unregister
  <1>2. NoOrphanedFuture'
        BY <1>1 DEF TypeOK, RequestInv, NoOrphanedFuture
  <1>3. \A j \in RequestIds : j \in pending' <=> rpc'[j] # "none"
        BY <1>1 DEF TypeOK, RequestInv, PendingTableIsTight
  <1>4. \A j \in RequestIds : j \in pending' => j <= requestId' /\ fut'[j] # "none"
        BY <1>1 DEF TypeOK, RequestInv, PendingTableIsTight
  <1>5. /\ ping' = "rpc" <=> pingId' # 0
        /\ pingId' # 0 => pingId' \in pending'
        BY <1>1 DEF RequestInv, PendingTableIsTight, EndRpc
  <1>. QED BY <1>2, <1>3, <1>4, <1>5 DEF RequestInv, PendingTableIsTight

LEMMA RunResumesRequests ==
    ASSUME TypeOK, ControlInv, RequestInv, PingOnlyWhileServed, RunResumes
    PROVE  RequestInv'
  <1>. USE DEF LoggedIn
  <1>1. CASE RunStarts \/ SleepDone
        <2>1. ~ws /\ UNCHANGED <<tableVars, pingVars, clientVars>>
              BY <1>1 DEF RunStarts, SleepDone, RunAt, ControlInv, SessionMatchesConnection
        <2>2. \A i \in RequestIds : fut'[i] # "pending" /\ (fut'[i] = "none" => fut[i] = "none")
              <3>1. CASE closed
                    BY <1>1, <2>1, <3>1, BackInRunSettles
                       DEF RunStarts, SleepDone, BeginServe, Errors
              <3>2. CASE ~closed
                    BY <1>1, <2>1, <3>2, NothingOpenOffline DEF RunStarts, SleepDone, BeginServe
              <3>. QED BY <3>1, <3>2
        <2>. QED BY <2>1, <2>2, RequestFrame
  <1>2. CASE \/ Loaded \/ LoginWritten \/ ReadErrorDone \/ OnErrorDone \/ OnDisconnectDone
             \/ HandlingFails \/ \E e \in {"failed", "unauthorized"} : LoginFails(e)
        <2>1. UNCHANGED <<tableVars, fut, pingVars, closed, ws>>
              BY <1>2 DEF Loaded, LoginWritten, ReadErrorDone, OnErrorDone, OnDisconnectDone,
                          HandlingFails, LoginFails, Goto
        <2>. QED BY <2>1, RequestFrame DEF RequestInv, NoOrphanedFuture
  <1>3. CASE LoadOrDialFails
        BY <1>3, LeaveServeRequests DEF LoadOrDialFails, RunAt, Errors
  <1>4. CASE Dialled
        <2>1. \A i \in RequestIds : fut[i] # "pending"
              BY <1>4, NothingOpenOffline
                 DEF Dialled, RunAt, ControlInv, SessionMatchesConnection
        <2>2. UNCHANGED <<requestId, pending, fut, rpc, ping, pingId>>
              BY <1>4 DEF Dialled
        <2>. QED BY <2>1, <2>2 DEF RequestInv, NoOrphanedFuture, PendingTableIsTight
  <1>5. CASE LoginOk
        <2>1. \A i \in RequestIds : fut[i] # "pending"
              BY <1>5, NothingOpenOffline
                 DEF LoginOk, RunAt, ControlInv, SessionMatchesConnection
        <2>. QED BY <1>5, <2>1, RequestFrame DEF LoginOk
  <1>6. CASE OnLoginDone
        <2>1. ping # "rpc"
              BY <1>6 DEF OnLoginDone, RunAt, PingOnlyWhileServed
        <2>. QED BY <1>6, <2>1, RequestFrame DEF OnLoginDone, RequestInv, NoOrphanedFuture
  <1>7. CASE HandlingDone
        <2>1. UNCHANGED <<tableVars, pingVars, closed, ws>>
              BY <1>7 DEF HandlingDone
        <2>2. \A i \in RequestIds : /\ fut'[i] = "pending" => fut[i] = "pending"
                                    /\ fut'[i] = "none" => fut[i] = "none"
              <3>1. CASE answering = 0
                    BY <1>7, <3>1 DEF HandlingDone
              <3>2. CASE answering \in RequestIds
                    BY <1>7, <3>2, ResolveSettles DEF HandlingDone, RequestIds
              <3>. QED BY <3>1, <3>2 DEF TypeOK, RequestIds
        <2>. QED BY <2>1, <2>2, RequestFrame DEF RequestInv, NoOrphanedFuture
  <1>8. CASE ClosingDone
        <2>1. err \in Errors
              BY <1>8 DEF TypeOK, ClosingDone, RunAt
        <2>. QED BY <1>8, <2>1, LeaveServeRequests DEF ClosingDone, RunAt
  <1>9. CASE PingStopped
        <2>1. err \in Errors
              BY <1>9 DEF TypeOK, PingStopped, RunAt
        <2>2. ~ws
              BY <1>9 DEF PingStopped, RunAt, ControlInv, SessionMatchesConnection
        <2>. QED BY <1>9, <2>1, <2>2, BackInRunSettles, RequestFrame DEF PingStopped
  <1>. QED BY <1>1, <1>2, <1>3, <1>4, <1>5, <1>6, <1>7, <1>8, <1>9 DEF RunResumes

LEMMA RunCancelledRequests ==
    ASSUME TypeOK, ControlInv, RequestInv, RunCancelled PROVE RequestInv'
  <1>1. CASE \/ CancelledAtStart \/ CancelledWithSocket \/ CancelledHandling
             \/ CancelledStopPing
        <2>1. UNCHANGED <<tableVars, fut, ping, pingId, closed, ws>>
              BY <1>1 DEF CancelledAtStart, CancelledWithSocket, CancelledHandling,
                          CancelledStopPing
        <2>. QED BY <2>1, RequestFrame DEF RequestInv, NoOrphanedFuture
  <1>2. CASE CancelledBeforeSocket
        BY <1>2, LeaveServeRequests DEF CancelledBeforeSocket, CancelledAt, LoggedIn, Errors
  <1>3. CASE CancelledExcClosing
        BY <1>3, LeaveServeRequests DEF CancelledExcClosing, CancelledAt, LoggedIn, Errors
  <1>4. CASE CancelledReading
        BY <1>4, FailAllSettles, RequestFrame DEF CancelledReading, Disconnect
  <1>5. CASE CancelledBetween
        BY <1>5, FailAllSettles, RequestFrame DEF CancelledBetween, Errors
  <1>. QED BY <1>1, <1>2, <1>3, <1>4, <1>5 DEF RunCancelled

LEMMA CallersRequests ==
    ASSUME TypeOK, ControlInv, RequestInv,
           \/ \E c \in Connectors : Connect(c) \/ ConnectCancelled(c)
           \/ \E k \in Closers :
                \/ CloseFirst(k) \/ CloseWsDone(k) \/ CloseAgain(k) \/ CloseDone(k)
    PROVE  RequestInv'
  <1>1. CASE UNCHANGED <<tableVars, fut, ping, pingId, closed, ws>>
        BY <1>1, RequestFrame DEF RequestInv, NoOrphanedFuture
  <1>2. ASSUME NEW c \in Connectors, Connect(c) PROVE RequestInv'
        BY <1>1, <1>2 DEF Connect, ConnectYields
  <1>3. ASSUME NEW c \in Connectors, ConnectCancelled(c) PROVE RequestInv'
        BY <1>1, <1>3 DEF ConnectCancelled
  <1>4. ASSUME NEW k \in Closers, CloseFirst(k) PROVE RequestInv'
        BY <1>4, FailAllSettles, RequestFrame DEF CloseFirst, Errors
  <1>5. ASSUME NEW k \in Closers, CloseWsDone(k) \/ CloseAgain(k) \/ CloseDone(k)
        PROVE  RequestInv'
        BY <1>1, <1>5 DEF CloseWsDone, CloseAgain, CloseDone
  <1>. QED BY <1>2, <1>3, <1>4, <1>5

LEMMA TrafficRequests ==
    ASSUME TypeOK, RequestInv,
           \/ Reads \/ PingSteps
           \/ \E i \in RequestIds : StartRpc(i) \/ RpcSteps(i) \/ RpcCancelled(i)
    PROVE  RequestInv'
  <1>1. CASE UNCHANGED <<tableVars, fut, pingId, closed, ws>> /\ (ping' = "rpc" <=> ping = "rpc")
        BY <1>1, RequestFrame DEF RequestInv, NoOrphanedFuture
  <1>2. CASE Reads
        <2>1. CASE ReadPush \/ ReadUnusable
              BY <1>1, <2>1 DEF ReadPush, ReadUnusable, Goto
        <2>2. CASE ReadFails
              BY <2>2, FailAllSettles, RequestFrame DEF ReadFails, Disconnect
        <2>3. ASSUME NEW i \in RequestIds, ReadMessageAnswer(i) PROVE RequestInv'
              BY <1>1, <2>3 DEF ReadMessageAnswer
        <2>4. ASSUME NEW i \in RequestIds, NEW result \in {"value", "error"},
                     ReadAnswer(i, result)
              PROVE  RequestInv'
              BY <2>4, ResolveSettles, RequestFrame
                 DEF ReadAnswer, RequestInv, NoOrphanedFuture
        <2>. QED BY <1>2, <2>1, <2>2, <2>3, <2>4 DEF Reads
  <1>3. CASE PingSteps
        <2>1. CASE PingEnds \/ PingErrorHandled \/ PingCancelled
              BY <1>1, <2>1 DEF PingEnds, PingErrorHandled, PingCancelled, PingMoves
        <2>2. ASSUME NEW i \in RequestIds, PingSends(i) PROVE RequestInv'
              BY <2>2, RegisterRequest DEF PingSends
        <2>3. ASSUME NEW i \in RequestIds, PingCancelledInRpc(i) PROVE RequestInv'
              BY <2>3, EndRpcRequests DEF PingCancelledInRpc
        <2>. QED BY <1>3, <2>1, <2>2, <2>3 DEF PingSteps
  <1>4. ASSUME NEW i \in RequestIds, StartRpc(i) PROVE RequestInv'
        BY <1>4, RegisterRequest DEF StartRpc
  <1>5. ASSUME NEW i \in RequestIds, WriteDone(i) PROVE RequestInv'
        <2>1. /\ rpc[i] = "writing" /\ rpc' = [rpc EXCEPT ![i] = "waiting"]
              /\ UNCHANGED <<requestId, pending, fut, via, ping, pingId, closed, ws>>
              BY <1>5 DEF WriteDone, RpcAt
        <2>2. \A j \in RequestIds : rpc'[j] # "none" <=> rpc[j] # "none"
              BY <2>1 DEF TypeOK
        <2>. QED BY <2>1, <2>2 DEF RequestInv, NoOrphanedFuture, PendingTableIsTight
  <1>6. ASSUME NEW i \in RequestIds,
               WriteFails(i) \/ RpcReturns(i) \/ RpcTimesOut(i) \/ RpcCancelled(i)
        PROVE  RequestInv'
        BY <1>6, EndRpcRequests DEF WriteFails, RpcReturns, RpcTimesOut, RpcCancelled
  <1>. QED BY <1>2, <1>3, <1>4, <1>5, <1>6 DEF RpcSteps

LEMMA RequestStep == IInv /\ [Next]_vars => RequestInv'
  <1>. SUFFICES ASSUME IInv, [Next]_vars PROVE RequestInv'
       OBVIOUS
  <1>1. CASE UNCHANGED vars
        BY <1>1 DEF IInv, RequestInv, NoOrphanedFuture, PendingTableIsTight
  <1>. QED BY <1>1, RunResumesRequests, RunCancelledRequests, CallersRequests,
              TrafficRequests DEF Next, IInv

-----------------------------------------------------------------------------
(* Waiters of connect(), the ping task, retries and close().               *)

\* The run task goes on or settles the future: no one is left waiting.
LEMMA WaiterFrame ==
    ASSUME NoWaiterIsStranded, UNCHANGED <<connectVars, closed>>, RunOver' => RunOver
    PROVE  NoWaiterIsStranded'
  BY DEF NoWaiterIsStranded, RunOver

LEMMA SignalSettles ==
    ASSUME TypeOK, NoWaiterIsStranded, NEW result \in {"ok"} \cup Errors, Signal(result)
    PROVE  \A c \in Connectors : connector'[c] # "waiting"
  BY DEF TypeOK, NoWaiterIsStranded, Signal, Errors

LEMMA BackInRunWaiters ==
    ASSUME TypeOK, ControlInv, NoWaiterIsStranded, NEW e \in Errors, BackInRun(e),
           UNCHANGED closed, e = "raised" => closed
    PROVE  NoWaiterIsStranded'
  <1>1. CASE e = "raised" /\ UNCHANGED connectVars
        BY <1>1 DEF NoWaiterIsStranded
  <1>2. CASE run' = "onError" /\ UNCHANGED connectVars
        BY <1>2, WaiterFrame DEF RunOver
  <1>3. CASE Signal(e)
        BY <1>3, SignalSettles DEF NoWaiterIsStranded
  <1>. QED BY <1>1, <1>2, <1>3 DEF BackInRun

LEMMA LeaveServeWaiters ==
    ASSUME TypeOK, ControlInv, NoWaiterIsStranded, NEW e \in Errors, LeaveServe(e),
           e = "raised" => closed
    PROVE  NoWaiterIsStranded'
  <1>1. CASE BackInRun(e) /\ UNCHANGED closed
        BY <1>1, BackInRunWaiters
  <1>2. CASE run' = "stopPing" /\ UNCHANGED <<connectVars, closed>>
        BY <1>2, WaiterFrame DEF RunOver
  <1>. QED BY <1>1, <1>2 DEF LeaveServe

LEMMA RunResumesWaiters ==
    ASSUME TypeOK, ControlInv, NoWaiterIsStranded, RunResumes PROVE NoWaiterIsStranded'
  <1>1. CASE RunStarts \/ SleepDone
        <2>1. UNCHANGED closed
              BY <1>1 DEF RunStarts, SleepDone
        <2>2. CASE BackInRun("closed")
              BY <2>1, <2>2, BackInRunWaiters DEF Errors
        <2>3. CASE run' = "loading" /\ UNCHANGED connectVars
              BY <2>1, <2>3, WaiterFrame DEF RunOver
        <2>. QED BY <1>1, <2>2, <2>3 DEF RunStarts, SleepDone, BeginServe
  <1>2. CASE Loaded \/ LoginWritten \/ ReadErrorDone \/ OnErrorDone
        BY <1>2, WaiterFrame
           DEF Loaded, LoginWritten, ReadErrorDone, OnErrorDone, Goto, RunOver
  <1>3. CASE LoadOrDialFails
        BY <1>3, LeaveServeWaiters DEF LoadOrDialFails, Errors
  <1>4. CASE \/ Dialled \/ LoginOk \/ OnDisconnectDone \/ HandlingDone \/ HandlingFails
             \/ \E e \in {"failed", "unauthorized"} : LoginFails(e)
        <2>1. UNCHANGED <<connectVars, closed>>
              BY <1>4 DEF Dialled, LoginOk, OnDisconnectDone, HandlingDone, HandlingFails,
                          LoginFails
        <2>2. run' \notin {"none", "done"}
              BY <1>4 DEF Dialled, LoginOk, OnDisconnectDone, HandlingDone, HandlingFails,
                          LoginFails, CloseAfterException
        <2>. QED BY <2>1, <2>2, WaiterFrame DEF RunOver
  <1>5. CASE OnLoginDone
        BY <1>5, SignalSettles DEF OnLoginDone, NoWaiterIsStranded
  <1>6. CASE ClosingDone
        <2>1. err \in Errors /\ (err = "raised" => closed)
              BY <1>6 DEF TypeOK, ControlInv, CloseReachesTheRunTask, ClosingDone, RunAt
        <2>. QED BY <1>6, <2>1, LeaveServeWaiters DEF ClosingDone
  <1>7. CASE PingStopped
        <2>1. err \in Errors /\ (err = "raised" => closed)
              BY <1>7 DEF TypeOK, ControlInv, CloseReachesTheRunTask, PingStopped, RunAt
        <2>. QED BY <1>7, <2>1, BackInRunWaiters DEF PingStopped
  <1>. QED BY <1>1, <1>2, <1>3, <1>4, <1>5, <1>6, <1>7 DEF RunResumes

LEMMA RunCancelledWaiters ==
    ASSUME TypeOK, ControlInv, NoWaiterIsStranded, RunCancelled PROVE NoWaiterIsStranded'
  <1>1. closed
        BY DEF RunCancelled, CancelledAtStart, CancelledBeforeSocket, CancelledWithSocket,
               CancelledReading, CancelledHandling, CancelledExcClosing, CancelledStopPing,
               CancelledBetween, CancelledAt, ControlInv, CloseReachesTheRunTask
  <1>2. CASE UNCHANGED connectVars
        BY <1>1, <1>2 DEF NoWaiterIsStranded
  <1>3. CASE CancelledBeforeSocket \/ CancelledExcClosing
        BY <1>1, <1>3, LeaveServeWaiters DEF CancelledBeforeSocket, CancelledExcClosing, Errors
  <1>. QED BY <1>2, <1>3
           DEF RunCancelled, CancelledAtStart, CancelledWithSocket, CancelledReading, Disconnect,
               CancelledHandling, CancelledStopPing, CancelledBetween

LEMMA CallersWaiters ==
    ASSUME TypeOK, NoWaiterIsStranded,
           \/ \E c \in Connectors : Connect(c) \/ ConnectCancelled(c)
           \/ \E k \in Closers :
                \/ CloseFirst(k) \/ CloseWsDone(k) \/ CloseAgain(k) \/ CloseDone(k)
    PROVE  NoWaiterIsStranded'
  <1>1. ASSUME NEW c \in Connectors, Connect(c) PROVE NoWaiterIsStranded'
        <2>1. ASSUME NEW outcome, ConnectYields(c, outcome),
                     outcome = "waiting" => firstConnect = "pending" /\ ~RunOver /\ ~closed
              PROVE  NoWaiterIsStranded'
              BY <2>1 DEF ConnectYields, TypeOK, NoWaiterIsStranded, RunOver
        <2>2. CASE /\ ~closed /\ UNCHANGED closed
                   /\ firstConnect' = "pending" /\ run' = "start"
              BY <2>2 DEF NoWaiterIsStranded, RunOver
        <2>3. CASE ConnectYields(c, "closed") \/ ConnectYields(c, "ok")
              BY <2>1, <2>3
        <2>4. CASE /\ ~closed /\ ~RunOver
                   /\ ConnectYields(c, IF firstConnect = "pending" THEN "waiting"
                                                                   ELSE firstConnect)
              <3>1. CASE firstConnect = "pending"
                    BY <2>1, <2>4, <3>1
              <3>2. CASE firstConnect # "pending"
                    <4>1. ConnectYields(c, firstConnect)
                          BY <2>4, <3>2
                    <4>2. firstConnect # "waiting"
                          BY DEF TypeOK, Errors
                    <4>. QED BY <2>1, <4>1, <4>2
              <3>. QED BY <3>1, <3>2
        <2>. QED BY <1>1, <2>2, <2>3, <2>4 DEF Connect
  <1>2. ASSUME NEW c \in Connectors, ConnectCancelled(c) PROVE NoWaiterIsStranded'
        BY <1>2 DEF ConnectCancelled, TypeOK, NoWaiterIsStranded
  <1>3. ASSUME NEW k \in Closers, CloseFirst(k) PROVE NoWaiterIsStranded'
        BY <1>3, SignalSettles DEF CloseFirst, NoWaiterIsStranded, Errors
  <1>4. ASSUME NEW k \in Closers, CloseWsDone(k) \/ CloseAgain(k) \/ CloseDone(k)
        PROVE  NoWaiterIsStranded'
        BY <1>4, WaiterFrame DEF CloseWsDone, CloseAgain, CloseDone, RunOver
  <1>. QED BY <1>1, <1>2, <1>3, <1>4

\* Reading, the ping task and the requests never touch the future of connect()
\* and never start or end the run task.
TrafficFrame ==
    /\ UNCHANGED <<firstConnect, connector, closed, closer, stopReconnect, sock>>
    /\ \/ UNCHANGED run
       \/ run = "reading" /\ run' \in {"handling", "readError", "onDisconnect"}

LEMMA TrafficStep ==
    ASSUME \/ Reads \/ PingSteps
           \/ \E i \in RequestIds : StartRpc(i) \/ RpcSteps(i) \/ RpcCancelled(i)
    PROVE  TrafficFrame
  <1>1. CASE Reads
        <2>1. CASE ReadPush \/ ReadUnusable
              BY <2>1 DEF ReadPush, ReadUnusable, Goto, RunAt, TrafficFrame
        <2>2. CASE ReadFails
              BY <2>2 DEF ReadFails, Disconnect, RunAt, TrafficFrame
        <2>3. ASSUME NEW i \in RequestIds, ReadMessageAnswer(i) PROVE TrafficFrame
              BY <2>3 DEF ReadMessageAnswer, RunAt, TrafficFrame
        <2>4. ASSUME NEW i \in RequestIds, NEW result, ReadAnswer(i, result) PROVE TrafficFrame
              BY <2>4 DEF ReadAnswer, TrafficFrame
        <2>. QED BY <1>1, <2>1, <2>2, <2>3, <2>4 DEF Reads
  <1>2. ASSUME NEW i \in RequestIds, NEW next, EndRpc(i, next) PROVE TrafficFrame
        BY <1>2 DEF EndRpc, TrafficFrame
  <1>3. CASE PingSteps
        <2>1. CASE PingEnds \/ PingErrorHandled \/ PingCancelled
              BY <2>1 DEF PingEnds, PingErrorHandled, PingCancelled, PingMoves, TrafficFrame
        <2>2. ASSUME NEW i \in RequestIds, PingSends(i) PROVE TrafficFrame
              BY <2>2 DEF PingSends, TrafficFrame
        <2>. QED BY <1>2, <1>3, <2>1, <2>2 DEF PingSteps, PingCancelledInRpc
  <1>4. ASSUME NEW i \in RequestIds, StartRpc(i) \/ RpcSteps(i) \/ RpcCancelled(i)
        PROVE  TrafficFrame
        <2>1. CASE StartRpc(i) \/ WriteDone(i)
              BY <2>1 DEF StartRpc, WriteDone, TrafficFrame
        <2>. QED BY <1>2, <1>4, <2>1 DEF RpcSteps, WriteFails, RpcReturns, RpcTimesOut,
                                         RpcCancelled
  <1>. QED BY <1>1, <1>3, <1>4

LEMMA WaiterStep == IInv /\ [Next]_vars => NoWaiterIsStranded'
  <1>. SUFFICES ASSUME IInv, [Next]_vars PROVE NoWaiterIsStranded'
       OBVIOUS
  <1>1. CASE UNCHANGED vars
        BY <1>1, WaiterFrame DEF IInv, RunOver
  <1>2. CASE \/ Reads \/ PingSteps
             \/ \E i \in RequestIds : StartRpc(i) \/ RpcSteps(i) \/ RpcCancelled(i)
        <2>1. TrafficFrame
              BY <1>2, TrafficStep
        <2>. QED BY <2>1, WaiterFrame DEF TrafficFrame, IInv, RunOver
  <1>. QED BY <1>1, <1>2, RunResumesWaiters, RunCancelledWaiters, CallersWaiters
           DEF Next, IInv

\* The ping task lives inside the iteration of _connect_and_serve that made it.
LEMMA PingStep == IInv /\ [Next]_vars => PingOnlyWhileServed'
  <1>. SUFFICES ASSUME IInv, [Next]_vars PROVE PingOnlyWhileServed'
       OBVIOUS
  <1>. USE DEF LoggedIn
  <1>1. /\ PingOnlyWhileServed
        /\ pingId # 0 => ping = "rpc"
        BY DEF IInv, RequestInv, PendingTableIsTight
  <1>2. CASE UNCHANGED <<ping, run>>
        BY <1>1, <1>2 DEF PingOnlyWhileServed
  <1>3. CASE RunResumes
        <2>1. CASE RunStarts \/ SleepDone \/ Loaded \/ LoginWritten \/ OnErrorDone
              BY <1>1, <2>1
                 DEF RunStarts, SleepDone, Loaded, LoginWritten, OnErrorDone, Goto, RunAt,
                     PingOnlyWhileServed
        <2>2. CASE \/ Dialled \/ LoginOk
                   \/ \E e \in {"failed", "unauthorized"} : LoginFails(e)
              BY <1>1, <2>2 DEF Dialled, LoginOk, LoginFails, CloseAfterException, RunAt,
                                PingOnlyWhileServed
        <2>3. CASE LoadOrDialFails \/ ClosingDone
              BY <1>1, <2>3 DEF LoadOrDialFails, ClosingDone, LeaveServe, RunAt,
                                PingOnlyWhileServed
        <2>4. CASE \/ OnLoginDone \/ HandlingDone \/ HandlingFails \/ ReadErrorDone
                   \/ OnDisconnectDone
              BY <2>4 DEF OnLoginDone, HandlingDone, HandlingFails, ReadErrorDone, Goto,
                          OnDisconnectDone, PingOnlyWhileServed
        <2>5. CASE PingStopped
              BY <2>5 DEF PingStopped, PingOnlyWhileServed
        <2>. QED BY <1>3, <2>1, <2>2, <2>3, <2>4, <2>5 DEF RunResumes
  <1>4. CASE RunCancelled
        <2>1. CASE CancelledAtStart \/ CancelledBetween
              BY <1>1, <2>1 DEF CancelledAtStart, CancelledBetween, CancelledAt,
                                PingOnlyWhileServed
        <2>2. CASE CancelledBeforeSocket \/ CancelledExcClosing
              BY <1>1, <2>2 DEF CancelledBeforeSocket, CancelledExcClosing, CancelledAt,
                                LeaveServe, PingOnlyWhileServed
        <2>3. CASE CancelledWithSocket \/ CancelledReading \/ CancelledHandling
              BY <1>1, <2>3
                 DEF CancelledWithSocket, CancelledReading, CancelledHandling, CancelledAt,
                     CloseAfterException, Disconnect, PingOnlyWhileServed
        <2>4. CASE CancelledStopPing
              BY <1>2, <2>4 DEF CancelledStopPing
        <2>. QED BY <1>4, <2>1, <2>2, <2>3, <2>4 DEF RunCancelled
  <1>5. ASSUME NEW c \in Connectors, Connect(c) \/ ConnectCancelled(c)
        PROVE  PingOnlyWhileServed'
        BY <1>1, <1>5 DEF Connect, ConnectYields, ConnectCancelled, RunOver,
                          PingOnlyWhileServed
  <1>6. ASSUME NEW k \in Closers,
               CloseFirst(k) \/ CloseWsDone(k) \/ CloseAgain(k) \/ CloseDone(k)
        PROVE  PingOnlyWhileServed'
        BY <1>2, <1>6 DEF CloseFirst, CloseWsDone, CloseAgain, CloseDone
  <1>7. CASE Reads
        BY <1>1, <1>7
           DEF Reads, ReadPush, ReadUnusable, ReadFails, ReadMessageAnswer, ReadAnswer, Goto,
               Disconnect, RunAt, PingOnlyWhileServed
  <1>8. CASE UNCHANGED run /\ ping # "none"
        BY <1>1, <1>8 DEF PingOnlyWhileServed
  <1>9. ASSUME NEW i \in RequestIds, NEW next, EndRpc(i, next) PROVE PingOnlyWhileServed'
        <2>1. CASE i = pingId
              BY <1>1, <1>8, <1>9, <2>1 DEF EndRpc, RequestIds
        <2>2. CASE i # pingId
              BY <1>2, <1>9, <2>2 DEF EndRpc
        <2>. QED BY <2>1, <2>2
  <1>10. CASE PingSteps
        <2>1. CASE PingEnds \/ PingErrorHandled \/ PingCancelled
              BY <1>8, <2>1 DEF PingEnds, PingErrorHandled, PingCancelled, PingMoves
        <2>2. ASSUME NEW i \in RequestIds, PingSends(i) PROVE PingOnlyWhileServed'
              BY <1>8, <2>2 DEF PingSends
        <2>. QED BY <1>9, <1>10, <2>1, <2>2 DEF PingSteps, PingCancelledInRpc
  <1>11. ASSUME NEW i \in RequestIds, StartRpc(i) \/ RpcSteps(i) \/ RpcCancelled(i)
         PROVE  PingOnlyWhileServed'
        <2>1. CASE StartRpc(i) \/ WriteDone(i)
              BY <1>2, <2>1 DEF StartRpc, WriteDone
        <2>. QED BY <1>9, <1>11, <2>1
                 DEF RpcSteps, WriteFails, RpcReturns, RpcTimesOut, RpcCancelled
  <1>. QED BY <1>2, <1>3, <1>4, <1>5, <1>6, <1>7, <1>10, <1>11 DEF Next

\* Back in _run with an exception that tells the truth.
LEMMA BackInRunEnds ==
    ASSUME EndInv, NEW e, Truthful(e), BackInRun(e), UNCHANGED <<closed, stopReconnect>>
    PROVE  EndInv'
  <1>1. err' = "none"
        BY DEF BackInRun
  <1>2. run' = "done" => closed \/ ~Reconnect \/ stopReconnect
        BY DEF BackInRun, ShouldRetry, Truthful
  <1>. QED BY <1>1, <1>2 DEF EndInv, Truthful, RunEndsForAReason

LEMMA LeaveServeEnds ==
    ASSUME EndInv, NEW e, Truthful(e), LeaveServe(e)
    PROVE  EndInv'
  <1>1. CASE BackInRun(e)
        BY <1>1, BackInRunEnds DEF LeaveServe
  <1>2. CASE run' = "stopPing" /\ err' = e
        BY <1>2 DEF LeaveServe, EndInv, Truthful, RunEndsForAReason
  <1>. QED BY <1>1, <1>2 DEF LeaveServe

LEMMA BeginServeEnds ==
    ASSUME EndInv, BeginServe, UNCHANGED <<closed, stopReconnect>>
    PROVE  EndInv'
  <1>1. CASE closed
        <2>1. Truthful("closed") /\ BackInRun("closed")
              BY <1>1 DEF Truthful, BeginServe
        <2>. QED BY <2>1, BackInRunEnds
  <1>2. CASE ~closed
        BY <1>2 DEF BeginServe, EndInv, Truthful, RunEndsForAReason
  <1>. QED BY <1>1, <1>2

\* Only an exception that forbids it keeps the run task from another attempt.
LEMMA EndStep == IInv /\ [Next]_vars => EndInv'
  <1>. SUFFICES ASSUME IInv, [Next]_vars PROVE EndInv'
       OBVIOUS
  <1>1. EndInv /\ (runCancel => closed)
        BY DEF IInv, ControlInv, CloseReachesTheRunTask
  <1>2. CASE UNCHANGED <<run, err, stopReconnect>> /\ (closed => closed')
        BY <1>1, <1>2 DEF EndInv, Truthful, RunEndsForAReason
  <1>3. CASE UNCHANGED <<err, stopReconnect, closed>> /\ run' # "done"
        BY <1>1, <1>3 DEF EndInv, Truthful, RunEndsForAReason
  <1>4. CASE RunResumes
        <2>1. CASE RunStarts \/ SleepDone
              BY <1>1, <2>1, BeginServeEnds DEF RunStarts, SleepDone, clientVars
        <2>2. CASE LoadOrDialFails
              <3>1. Truthful("failed")
                    BY DEF Truthful
              <3>. QED BY <1>1, <2>2, <3>1, LeaveServeEnds DEF LoadOrDialFails
        <2>3. CASE ClosingDone
              BY <1>1, <2>3, LeaveServeEnds DEF ClosingDone, EndInv
        <2>4. CASE PingStopped
              BY <1>1, <2>4, BackInRunEnds DEF PingStopped, EndInv, clientVars
        <2>5. CASE \/ Loaded \/ LoginWritten \/ ReadErrorDone \/ OnErrorDone \/ Dialled
                   \/ LoginOk \/ OnLoginDone \/ HandlingDone \/ HandlingFails
                   \/ OnDisconnectDone
              BY <1>3, <2>5
                 DEF Loaded, LoginWritten, ReadErrorDone, OnErrorDone, Goto, Dialled, LoginOk,
                     OnLoginDone, HandlingDone, HandlingFails, OnDisconnectDone, clientVars
        <2>6. ASSUME NEW e \in {"failed", "unauthorized"}, LoginFails(e)
              PROVE  EndInv'
              BY <2>6 DEF LoginFails, CloseAfterException, RunAt, EndInv, Truthful,
                          RunEndsForAReason
        <2>. QED BY <1>4, <2>1, <2>2, <2>3, <2>4, <2>5, <2>6 DEF RunResumes
  <1>5. CASE RunCancelled
        <2>1. closed /\ UNCHANGED closed
              BY <1>1, <1>5
                 DEF RunCancelled, CancelledAtStart, CancelledBeforeSocket, CancelledWithSocket,
                     CancelledReading, CancelledHandling, CancelledExcClosing,
                     CancelledStopPing, CancelledBetween, CancelledAt, Disconnect, LeaveServe,
                     clientVars
        <2>2. /\ err' = "unauthorized" => err = "unauthorized"
              /\ UNCHANGED stopReconnect
              BY <1>5
                 DEF RunCancelled, CancelledAtStart, CancelledBeforeSocket, CancelledWithSocket,
                     CancelledReading, CancelledHandling, CancelledExcClosing,
                     CancelledStopPing, CancelledBetween, CloseAfterException, Disconnect,
                     LeaveServe, BackInRun, clientVars
        <2>. QED BY <1>1, <2>1, <2>2 DEF EndInv, Truthful, RunEndsForAReason
  <1>6. ASSUME NEW c \in Connectors, Connect(c) \/ ConnectCancelled(c)
        PROVE  EndInv'
        BY <1>2, <1>3, <1>6
           DEF Connect, ConnectYields, ConnectCancelled, clientVars, runVars
  <1>7. ASSUME NEW k \in Closers,
               CloseFirst(k) \/ CloseWsDone(k) \/ CloseAgain(k) \/ CloseDone(k)
        PROVE  EndInv'
        BY <1>2, <1>7
           DEF CloseFirst, CloseWsDone, CloseAgain, CloseDone, clientVars, runVars
  <1>8. CASE ReadFails
        BY <1>1, <1>8 DEF ReadFails, Disconnect, EndInv, Truthful, RunEndsForAReason
  <1>9. CASE (Reads /\ ~ReadFails) \/ PingSteps
             \/ \E i \in RequestIds : StartRpc(i) \/ RpcSteps(i) \/ RpcCancelled(i)
        <2>1. TrafficFrame
              BY <1>9, TrafficStep
        <2>2. UNCHANGED err
              <3>1. CASE Reads /\ ~ReadFails
                    BY <3>1 DEF Reads, ReadPush, ReadUnusable, Goto, ReadMessageAnswer,
                                ReadAnswer, runVars
              <3>2. CASE PingSteps
                    BY <3>2 DEF PingSteps, PingSends, PingEnds, PingErrorHandled,
                                PingCancelled, PingMoves, PingCancelledInRpc, EndRpc, runVars
              <3>3. ASSUME NEW i \in RequestIds, StartRpc(i) \/ RpcSteps(i) \/ RpcCancelled(i)
                    PROVE  UNCHANGED err
                    BY <3>3 DEF StartRpc, RpcSteps, WriteDone, WriteFails, RpcReturns,
                                RpcTimesOut, RpcCancelled, EndRpc, runVars
              <3>. QED BY <1>9, <3>1, <3>2, <3>3
        <2>. QED BY <1>2, <1>3, <2>1, <2>2 DEF TrafficFrame
  <1>10. CASE UNCHANGED vars
        BY <1>2, <1>10 DEF vars, runVars, clientVars
  <1>. QED BY <1>4, <1>5, <1>6, <1>7, <1>8, <1>9, <1>10 DEF Next

\* A closed client stays closed, and a run task that is over then stays over.
LEMMA ClosersStep == IInv /\ [Next]_vars => ClosersInv'
  <1>. SUFFICES ASSUME IInv, [Next]_vars PROVE ClosersInv'
       OBVIOUS
  <1>. USE DEF ClosersInv
  <1>1. ClosersInv /\ closer \in [Closers -> {"idle", "closeWs", "awaitRun", "returned"}]
        BY DEF IInv, TypeOK
  <1>2. CASE UNCHANGED closer /\ UNCHANGED closed /\ (RunOver => RunOver')
        BY <1>1, <1>2
  <1>3. CASE RunResumes
        <2>1. ~RunOver /\ UNCHANGED <<closer, closed>>
              BY <1>3
                 DEF RunResumes, RunStarts, Loaded, LoadOrDialFails, Dialled, LoginWritten,
                     LoginFails, LoginOk, OnLoginDone, HandlingDone, HandlingFails,
                     ReadErrorDone, OnDisconnectDone, ClosingDone, PingStopped, OnErrorDone,
                     SleepDone, LeaveServe, Goto, RunAt, RunOver
        <2>. QED BY <1>2, <2>1
  <1>4. CASE RunCancelled
        <2>1. ~RunOver /\ UNCHANGED <<closer, closed>>
              BY <1>4
                 DEF RunCancelled, CancelledAtStart, CancelledBeforeSocket, CancelledWithSocket,
                     CancelledReading, CancelledHandling, CancelledExcClosing,
                     CancelledStopPing, CancelledBetween, CancelledAt, Disconnect, LeaveServe,
                     RunOver
        <2>. QED BY <1>2, <2>1
  <1>5. ASSUME NEW c \in Connectors, Connect(c) PROVE ClosersInv'
        <2>1. UNCHANGED <<closer, closed>> /\ (closed => UNCHANGED run)
              BY <1>5 DEF Connect, ConnectYields
        <2>. QED BY <1>1, <2>1 DEF RunOver
  <1>6. ASSUME NEW c \in Connectors, ConnectCancelled(c) PROVE ClosersInv'
        BY <1>2, <1>6 DEF ConnectCancelled, RunOver
  <1>7. ASSUME NEW k \in Closers, CloseFirst(k) PROVE ClosersInv'
        <2>1. closed' /\ ~closed /\ UNCHANGED run
              BY <1>7 DEF CloseFirst
        <2>2. \A l \in Closers : closer'[l] # "returned"
              BY <1>1, <1>7, <2>1 DEF CloseFirst
        <2>. QED BY <2>1, <2>2
  <1>8. ASSUME NEW k \in Closers, CloseWsDone(k) \/ CloseAgain(k) \/ CloseDone(k)
        PROVE  ClosersInv'
        <2>1. UNCHANGED run /\ closed' /\ closed
              BY <1>1, <1>8 DEF CloseWsDone, CloseAgain, CloseDone
        <2>2. ASSUME NEW l \in Closers, closer'[l] = "returned" PROVE RunOver
              BY <1>1, <1>8, <2>2 DEF CloseWsDone, CloseAgain, CloseDone
        <2>. QED BY <2>1, <2>2 DEF RunOver
  <1>9. CASE \/ Reads \/ PingSteps
             \/ \E i \in RequestIds : StartRpc(i) \/ RpcSteps(i) \/ RpcCancelled(i)
        <2>1. TrafficFrame
              BY <1>9, TrafficStep
        <2>. QED BY <1>2, <2>1 DEF TrafficFrame, RunOver
  <1>10. CASE UNCHANGED vars
        BY <1>2, <1>10 DEF RunOver
  <1>. QED BY <1>3, <1>4, <1>5, <1>6, <1>7, <1>8, <1>9, <1>10 DEF Next

-----------------------------------------------------------------------------
(* The theorems.                                                           *)

LEMMA Invariance == Spec => []IInv
  <1>1. IInv /\ [Next]_vars => IInv'
        BY TypeStep, ControlStep, RequestStep, WaiterStep, PingStep, EndStep, ClosersStep
           DEF IInv
  <1>. QED BY InitIInv, <1>1, PTL DEF Spec

\* However connections are lost, reads fail and close() comes in between, a
\* request without a result has a connection its answer can still arrive on:
\* _fail_all_pending never forgets one.
THEOREM NoRequestIsOrphaned == Spec => []NoOrphanedFuture
  BY Invariance, PTL DEF IInv, RequestInv

\* _pending holds exactly the calls of _rpc in progress.
THEOREM PendingIsTight == Spec => []PendingTableIsTight
  BY Invariance, PTL DEF IInv, RequestInv

\* No task waits in connect() for a run task that is over or a closed client.
THEOREM NobodyIsStranded == Spec => []NoWaiterIsStranded
  BY Invariance, PTL DEF IInv

\* login_info, _connected and _ws agree, only in a client that is not closed.
THEOREM SessionIsConsistent == Spec => []SessionMatchesConnection
  BY Invariance, PTL DEF IInv, ControlInv

\* Every socket of the run task is closed before the next attempt or the end.
THEOREM SocketsAreClosed == Spec => []NoSocketLeak
  BY Invariance, PTL DEF IInv, ControlInv

\* close() cancels the run task wherever it could still log in.
THEOREM CloseIsSeen == Spec => []CloseReachesTheRunTask
  BY Invariance, PTL DEF IInv, ControlInv

\* No ping task outlives its connection.
THEOREM PingIsConfined == Spec => []PingOnlyWhileServed
  BY Invariance, PTL DEF IInv

\* A run task that has ended was closed, is not to reconnect, or was refused: no
\* other failure, and no mistaken ClosedError, keeps _run from another attempt.
THEOREM NeverGivesUp == Spec => []RunEndsForAReason
  BY Invariance, PTL DEF IInv, EndInv

\* What close() leaves behind when it returns: nothing that runs or waits.
THEOREM CloseLeavesNothing == Spec => []ClosedClientIsQuiet
  <1>1. IInv => ClosedClientIsQuiet
        <2>. SUFFICES ASSUME IInv, NEW k \in Closers, closer[k] = "returned"
                      PROVE  /\ closed /\ RunOver /\ ping = "none" /\ sock # "open"
                             /\ \A c \in Connectors : connector[c] # "waiting"
                             /\ \A i \in RequestIds : fut[i] # "pending"
             BY DEF ClosedClientIsQuiet
        <2>1. closed /\ RunOver
              BY DEF IInv, ClosersInv
        <2>2. ping = "none" /\ sock # "open"
              BY <2>1 DEF IInv, ControlInv, PingOnlyWhileServed, NoSocketLeak, RunOver, LoggedIn
        <2>3. \A c \in Connectors : connector[c] # "waiting"
              BY <2>1 DEF IInv, NoWaiterIsStranded
        <2>4. \A i \in RequestIds : fut[i] # "pending"
              BY <2>1 DEF IInv, RequestInv, NoOrphanedFuture
        <2>. QED BY <2>1, <2>2, <2>3, <2>4
  <1>. QED BY Invariance, <1>1, PTL

\* A closed client is closed for good: no step gives it a connection again, and
\* its run task dials no further socket.
THEOREM ClosedForGood == Spec => ClosedIsFinal
  <1>1. IInv /\ IInv' /\ [Next]_vars =>
          [closed => /\ closed'
                     /\ ~connected' /\ ~ws' /\ ~loginInfo'
                     /\ sock' = "open" => sock = "open"]_vars
        <2>. SUFFICES ASSUME IInv, IInv', Next, closed
                      PROVE  /\ closed'
                             /\ ~connected' /\ ~ws' /\ ~loginInfo'
                             /\ sock' = "open" => sock = "open"
             OBVIOUS
        <2>1. closed'
              <3>1. CASE RunResumes
                    BY <3>1
                       DEF RunResumes, RunStarts, Loaded, LoadOrDialFails, Dialled,
                           LoginWritten, LoginFails, LoginOk, OnLoginDone, HandlingDone,
                           HandlingFails, ReadErrorDone, OnDisconnectDone, ClosingDone,
                           PingStopped, OnErrorDone, SleepDone, LeaveServe, Goto
              <3>2. CASE RunCancelled
                    BY <3>2
                       DEF RunCancelled, CancelledAtStart, CancelledBeforeSocket,
                           CancelledWithSocket, CancelledReading, CancelledHandling,
                           CancelledExcClosing, CancelledStopPing, CancelledBetween,
                           Disconnect, LeaveServe
              <3>3. ASSUME NEW c \in Connectors, Connect(c) \/ ConnectCancelled(c)
                    PROVE  closed'
                    BY <3>3 DEF Connect, ConnectYields, ConnectCancelled
              <3>4. ASSUME NEW k \in Closers,
                           CloseFirst(k) \/ CloseWsDone(k) \/ CloseAgain(k) \/ CloseDone(k)
                    PROVE  closed'
                    BY <3>4 DEF CloseFirst, CloseWsDone, CloseAgain, CloseDone
              <3>5. CASE \/ Reads \/ PingSteps
                         \/ \E i \in RequestIds : StartRpc(i) \/ RpcSteps(i) \/ RpcCancelled(i)
                    BY <3>5, TrafficStep DEF TrafficFrame
              <3>. QED BY <3>1, <3>2, <3>3, <3>4, <3>5 DEF Next
        <2>2. ~ws' /\ ~connected' /\ ~loginInfo'
              <3>1. SessionMatchesConnection'
                    BY DEF IInv, ControlInv
              <3>. QED BY <2>1, <3>1 DEF SessionMatchesConnection
        <2>3. sock' = "open" => sock = "open"
              <3>1. ~Dialled
                    BY DEF Dialled, RunAt, IInv, ControlInv, CloseReachesTheRunTask
              <3>2. CASE RunResumes
                    BY <3>1, <3>2
                       DEF RunResumes, RunStarts, Loaded, LoadOrDialFails, LoginWritten,
                           LoginFails, LoginOk, OnLoginDone, HandlingDone, HandlingFails,
                           ReadErrorDone, OnDisconnectDone, ClosingDone, PingStopped,
                           OnErrorDone, SleepDone, CloseAfterException, Goto
              <3>3. CASE RunCancelled
                    BY <3>3
                       DEF RunCancelled, CancelledAtStart, CancelledBeforeSocket,
                           CancelledWithSocket, CancelledReading, CancelledHandling,
                           CancelledExcClosing, CancelledStopPing, CancelledBetween,
                           Disconnect, CloseAfterException
              <3>4. ASSUME NEW c \in Connectors, Connect(c) \/ ConnectCancelled(c)
                    PROVE  sock' = sock
                    BY <3>4 DEF Connect, ConnectYields, ConnectCancelled
              <3>5. ASSUME NEW k \in Closers,
                           CloseFirst(k) \/ CloseWsDone(k) \/ CloseAgain(k) \/ CloseDone(k)
                    PROVE  sock' = sock
                    BY <3>5 DEF CloseFirst, CloseWsDone, CloseAgain, CloseDone
              <3>6. CASE \/ Reads \/ PingSteps
                         \/ \E i \in RequestIds : StartRpc(i) \/ RpcSteps(i) \/ RpcCancelled(i)
                    BY <3>6, TrafficStep DEF TrafficFrame
              <3>. QED BY <3>2, <3>3, <3>4, <3>5, <3>6 DEF Next
        <2>. QED BY <2>1, <2>2, <2>3
  <1>. QED BY Invariance, <1>1, PTL DEF Spec, ClosedIsFinal

-----------------------------------------------------------------------------
(* Futures are settled once.                                               *)

\* No step settles the future of connect() but while it is open; connect() makes a
\* new one when there is no run task.
FirstKept == firstConnect' # firstConnect => firstConnect = "pending"

LEMMA SignalKeepsFirst == ASSUME NEW result, Signal(result) PROVE FirstKept
  BY DEF Signal, connectVars, FirstKept

LEMMA BackInRunKeepsFirst == ASSUME NEW e, BackInRun(e) PROVE FirstKept
  BY SignalKeepsFirst DEF BackInRun, connectVars, FirstKept

LEMMA LeaveServeKeepsFirst == ASSUME NEW e, LeaveServe(e) PROVE FirstKept
  BY BackInRunKeepsFirst DEF LeaveServe, connectVars, FirstKept

LEMMA BeginServeKeepsFirst == ASSUME BeginServe PROVE FirstKept
  BY BackInRunKeepsFirst DEF BeginServe, connectVars, FirstKept

\* The future of connect() has one outcome for each run task: no connect(), close(),
\* login or failure that comes later changes it (_signal_first_connect).
THEOREM OneOutcome == Spec => FirstOutcomeIsFinal
  <1>1. IInv /\ [Next]_vars =>
          [firstConnect' # firstConnect =>
             \/ firstConnect = "pending"
             \/ firstConnect' = "pending" /\ RunOver /\ run' = "start"]_vars
        <2>. SUFFICES ASSUME IInv, Next
                      PROVE  \/ FirstKept
                             \/ firstConnect' = "pending" /\ RunOver /\ run' = "start"
             BY DEF FirstKept
        <2>1. CASE RunResumes
              <3>1. CASE \/ RunStarts \/ LoadOrDialFails \/ OnLoginDone \/ ClosingDone
                         \/ PingStopped \/ SleepDone
                    BY <3>1, SignalKeepsFirst, BackInRunKeepsFirst, LeaveServeKeepsFirst,
                       BeginServeKeepsFirst
                       DEF RunStarts, LoadOrDialFails, OnLoginDone, ClosingDone,
                           PingStopped, SleepDone
              <3>2. CASE ~(\/ RunStarts \/ LoadOrDialFails \/ OnLoginDone \/ ClosingDone
                           \/ PingStopped \/ SleepDone)
                    BY <2>1, <3>2
                       DEF RunResumes, Loaded, Dialled, LoginWritten, LoginFails, LoginOk,
                           HandlingDone, HandlingFails, ReadErrorDone, OnDisconnectDone,
                           OnErrorDone, Goto, connectVars, FirstKept
              <3>. QED BY <3>1, <3>2
        <2>2. CASE RunCancelled
              BY <2>2, LeaveServeKeepsFirst
                 DEF RunCancelled, CancelledAtStart, CancelledBeforeSocket,
                     CancelledWithSocket, CancelledReading, CancelledHandling,
                     CancelledExcClosing, CancelledStopPing, CancelledBetween,
                     Disconnect, connectVars, FirstKept
        <2>3. ASSUME NEW c \in Connectors, Connect(c)
              PROVE  \/ FirstKept
                     \/ firstConnect' = "pending" /\ RunOver /\ run' = "start"
              BY <2>3 DEF Connect, ConnectYields, FirstKept
        <2>4. ASSUME NEW c \in Connectors, ConnectCancelled(c) PROVE FirstKept
              BY <2>4 DEF ConnectCancelled, FirstKept, IInv, NoWaiterIsStranded
        <2>5. ASSUME NEW k \in Closers,
                     CloseFirst(k) \/ CloseWsDone(k) \/ CloseAgain(k) \/ CloseDone(k)
              PROVE  FirstKept
              BY <2>5, SignalKeepsFirst
                 DEF CloseFirst, CloseWsDone, CloseAgain, CloseDone, connectVars, FirstKept
        <2>6. CASE \/ Reads \/ PingSteps
                   \/ \E i \in RequestIds : StartRpc(i) \/ RpcSteps(i) \/ RpcCancelled(i)
              BY <2>6, TrafficStep DEF TrafficFrame, FirstKept
        <2>. QED BY <2>1, <2>2, <2>3, <2>4, <2>5, <2>6 DEF Next
  <1>. QED BY Invariance, <1>1, PTL DEF Spec, FirstOutcomeIsFinal

\* Requests that have no id yet have no future.
FutureIdsAreFresh == \A i \in RequestIds : i > requestId => fut[i] = "none"

\* What every step but the start of a request does to the futures.
FuturesKept ==
    /\ requestId' = requestId
    /\ \A i \in RequestIds : /\ fut[i] \in FutureResults => fut'[i] \in {fut[i], "none"}
                             /\ fut[i] = "none" => fut'[i] = "none"

LEMMA SameFuturesKeepResults ==
    ASSUME UNCHANGED <<requestId, fut>> PROVE FuturesKept
  BY DEF FuturesKept

LEMMA FailAllKeepsResults ==
    ASSUME NEW e, FailAll(e), UNCHANGED tableVars PROVE FuturesKept
  BY DEF FailAll, FuturesKept, FutureResults, Errors

LEMMA ResolveKeepsResults ==
    ASSUME TypeOK, NEW r, NEW result, Resolve(r, result), UNCHANGED tableVars
    PROVE  FuturesKept
  BY DEF TypeOK, Resolve, FuturesKept, FutureResults, Errors

LEMMA EndRpcKeepsResults ==
    ASSUME TypeOK, NEW r \in RequestIds, NEW next, EndRpc(r, next) PROVE FuturesKept
  BY DEF TypeOK, EndRpc, Unregister, FuturesKept

LEMMA BackInRunKeepsResults ==
    ASSUME NEW e, BackInRun(e), UNCHANGED tableVars PROVE FuturesKept
  BY FailAllKeepsResults, SameFuturesKeepResults DEF BackInRun

LEMMA LeaveServeKeepsResults ==
    ASSUME NEW e, LeaveServe(e), UNCHANGED tableVars PROVE FuturesKept
  BY BackInRunKeepsResults, SameFuturesKeepResults DEF LeaveServe

LEMMA BeginServeKeepsResults ==
    ASSUME BeginServe, UNCHANGED tableVars PROVE FuturesKept
  BY BackInRunKeepsResults, SameFuturesKeepResults DEF BeginServe

LEMMA FuturesStep ==
    ASSUME TypeOK, Next
    PROVE  FuturesKept \/ \E i \in RequestIds : Register(i)
  <1>1. CASE RunResumes
        <2>1. CASE HandlingDone
              BY <2>1, ResolveKeepsResults, SameFuturesKeepResults DEF HandlingDone
        <2>2. CASE RunStarts \/ SleepDone
              BY <2>2, BeginServeKeepsResults DEF RunStarts, SleepDone
        <2>3. CASE LoadOrDialFails \/ ClosingDone
              BY <2>3, LeaveServeKeepsResults DEF LoadOrDialFails, ClosingDone
        <2>4. CASE PingStopped
              BY <2>4, BackInRunKeepsResults DEF PingStopped
        <2>5. CASE ~(\/ HandlingDone \/ RunStarts \/ SleepDone \/ LoadOrDialFails
                     \/ ClosingDone \/ PingStopped)
              BY <1>1, <2>5, SameFuturesKeepResults
                 DEF RunResumes, Loaded, Dialled, LoginWritten, LoginFails, LoginOk,
                     OnLoginDone, HandlingFails, ReadErrorDone, OnDisconnectDone,
                     OnErrorDone, Goto
        <2>. QED BY <2>1, <2>2, <2>3, <2>4, <2>5
  <1>2. CASE RunCancelled
        <2>1. CASE CancelledBeforeSocket \/ CancelledExcClosing
              BY <2>1, LeaveServeKeepsResults DEF CancelledBeforeSocket, CancelledExcClosing
        <2>2. CASE CancelledReading \/ CancelledBetween
              BY <2>2, FailAllKeepsResults DEF CancelledReading, CancelledBetween, Disconnect
        <2>3. CASE \/ CancelledAtStart \/ CancelledWithSocket \/ CancelledHandling
                   \/ CancelledStopPing
              BY <2>3, SameFuturesKeepResults
                 DEF CancelledAtStart, CancelledWithSocket, CancelledHandling,
                     CancelledStopPing
        <2>. QED BY <1>2, <2>1, <2>2, <2>3 DEF RunCancelled
  <1>3. ASSUME NEW c \in Connectors, Connect(c) \/ ConnectCancelled(c) PROVE FuturesKept
        BY <1>3, SameFuturesKeepResults DEF Connect, ConnectYields, ConnectCancelled
  <1>4. ASSUME NEW k \in Closers,
               CloseFirst(k) \/ CloseWsDone(k) \/ CloseAgain(k) \/ CloseDone(k)
        PROVE  FuturesKept
        <2>1. CASE CloseFirst(k)
              BY <2>1, FailAllKeepsResults DEF CloseFirst
        <2>2. CASE CloseWsDone(k) \/ CloseAgain(k) \/ CloseDone(k)
              BY <2>2, SameFuturesKeepResults DEF CloseWsDone, CloseAgain, CloseDone
        <2>. QED BY <1>4, <2>1, <2>2
  <1>5. CASE Reads
        <2>1. CASE ReadPush \/ ReadUnusable
              BY <2>1, SameFuturesKeepResults DEF ReadPush, ReadUnusable, Goto
        <2>2. CASE ReadFails
              BY <2>2, FailAllKeepsResults DEF ReadFails, Disconnect
        <2>3. ASSUME NEW i \in RequestIds, ReadMessageAnswer(i) PROVE FuturesKept
              BY <2>3, SameFuturesKeepResults DEF ReadMessageAnswer
        <2>4. ASSUME NEW i \in RequestIds, NEW result, ReadAnswer(i, result)
              PROVE  FuturesKept
              BY <2>4, ResolveKeepsResults DEF ReadAnswer
        <2>. QED BY <1>5, <2>1, <2>2, <2>3, <2>4 DEF Reads
  <1>6. CASE PingSteps
        <2>1. CASE PingEnds \/ PingErrorHandled \/ PingCancelled
              BY <2>1, SameFuturesKeepResults
                 DEF PingEnds, PingErrorHandled, PingCancelled, PingMoves
        <2>2. ASSUME NEW i \in RequestIds, PingSends(i) PROVE Register(i)
              BY <2>2 DEF PingSends
        <2>3. ASSUME NEW i \in RequestIds, PingCancelledInRpc(i) PROVE FuturesKept
              BY <2>3, EndRpcKeepsResults DEF PingCancelledInRpc
        <2>. QED BY <1>6, <2>1, <2>2, <2>3 DEF PingSteps
  <1>7. ASSUME NEW i \in RequestIds, StartRpc(i) \/ RpcSteps(i) \/ RpcCancelled(i)
        PROVE  FuturesKept \/ Register(i)
        <2>1. CASE StartRpc(i)
              BY <2>1 DEF StartRpc
        <2>2. CASE WriteDone(i)
              BY <2>2, SameFuturesKeepResults DEF WriteDone
        <2>3. CASE WriteFails(i) \/ RpcReturns(i) \/ RpcTimesOut(i) \/ RpcCancelled(i)
              BY <2>3, EndRpcKeepsResults
                 DEF WriteFails, RpcReturns, RpcTimesOut, RpcCancelled
        <2>. QED BY <1>7, <2>1, <2>2, <2>3 DEF RpcSteps
  <1>. QED BY <1>1, <1>2, <1>3, <1>4, <1>5, <1>6, <1>7 DEF Next

\* The first result of a request is the one its caller gets, however many answers,
\* disconnections and close() calls come after it (_resolve_pending,
\* _fail_all_pending).
THEOREM ResultsStay == Spec => FirstResultWins
  <1>1. Init => FutureIdsAreFresh
        BY DEF Init, FutureIdsAreFresh
  <1>2. IInv /\ FutureIdsAreFresh /\ [Next]_vars => FutureIdsAreFresh'
        <2>. SUFFICES ASSUME TypeOK, FutureIdsAreFresh, [Next]_vars
                      PROVE  FutureIdsAreFresh'
             BY DEF IInv
        <2>1. CASE UNCHANGED vars
              BY <2>1 DEF FutureIdsAreFresh
        <2>2. CASE FuturesKept
              BY <2>2 DEF FuturesKept, FutureIdsAreFresh
        <2>3. ASSUME NEW i \in RequestIds, Register(i) PROVE FutureIdsAreFresh'
              BY <2>3 DEF Register, NextId, TypeOK, RequestIds, FutureIdsAreFresh
        <2>. QED BY <2>1, <2>2, <2>3, FuturesStep
  <1>3. IInv /\ FutureIdsAreFresh /\ [Next]_vars =>
          [\A i \in RequestIds :
             fut[i] \in FutureResults => fut'[i] \in {fut[i], "none"}]_vars
        <2>. SUFFICES ASSUME TypeOK, FutureIdsAreFresh, Next, NEW j \in RequestIds,
                             fut[j] \in FutureResults
                      PROVE  fut'[j] \in {fut[j], "none"}
             BY DEF IInv
        <2>1. CASE FuturesKept
              BY <2>1 DEF FuturesKept
        <2>2. ASSUME NEW i \in RequestIds, Register(i) PROVE fut'[j] = fut[j]
              <3>1. fut[i] = "none"
                    BY <2>2 DEF Register, NextId, TypeOK, RequestIds, FutureIdsAreFresh
              <3>2. i # j
                    BY <3>1 DEF FutureResults, Errors
              <3>. QED BY <2>2, <3>2 DEF Register, TypeOK
        <2>. QED BY <2>1, <2>2, FuturesStep
  <1>. QED BY Invariance, <1>1, <1>2, <1>3, PTL DEF Spec, FirstResultWins

=============================================================================
