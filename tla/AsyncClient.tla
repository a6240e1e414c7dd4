---------------------------- MODULE AsyncClient ----------------------------
(***************************************************************************)
(* The WebSocket client of turntf/client.py: one AsyncClient object and    *)
(* the asyncio tasks that share it.                                        *)
(*                                                                         *)
(*   - tasks that call connect() (Connectors) and close() (Closers);       *)
(*   - the run task (_run and _connect_and_serve), which dials, logs in,   *)
(*     reads, and reconnects;                                              *)
(*   - the ping task it starts for each connection (_ping_loop);           *)
(*   - the RPCs of the application and of the ping task (_rpc), each with  *)
(*     its entry in the table of pending futures.                          *)
(*                                                                         *)
(* asyncio switches tasks only at an await, so an action is one stretch of *)
(* code from one suspension to the next.  A program counter names the      *)
(* await at which a task is suspended.  Task.cancel() is a flag: the task  *)
(* meets a CancelledError at the await it is suspended in, and no other    *)
(* outcome of that await.                                                  *)
(***************************************************************************)
EXTENDS Integers

CONSTANTS
    Connectors,     \* tasks that call connect()
    Closers,        \* tasks that call close()
    Reconnect,      \* Config.reconnect
    InitialDelay,   \* Config.initial_reconnect_delay
    MaxDelay,       \* Config.max_reconnect_delay
    MaxRequests     \* bound: requests that are registered in one behaviour

ASSUME ClientAssumption ==
    /\ Reconnect \in BOOLEAN
    /\ InitialDelay \in Nat \ {0}
    /\ MaxDelay \in Nat \ {0}
    /\ MaxRequests \in Nat

VARIABLES
    closed, connected, loginInfo, ws, stopReconnect,  \* fields of the client
    firstConnect,   \* the future that every connect() awaits
    run, runCancel, \* the run task: where it waits, and Task.cancel() was called
    err,            \* the exception _connect_and_serve is about to return
    delay,          \* the reconnect delay of _run
    answering,      \* id of the response being persisted; 0 for a pushed message
    sock,           \* the websocket of the run task
    ping, pingCancel, pingId, \* the ping task and the id of its request
    requestId,      \* _request_id
    pending,        \* keys of _pending
    fut,            \* the future of each request
    rpc,            \* where each _rpc call waits
    via,            \* whether a request went through this socket or an older one
    connector, closer

clientVars  == <<closed, connected, loginInfo, ws, stopReconnect>>
connectVars == <<firstConnect, connector>>
runVars     == <<run, runCancel, err, delay, answering>>
pingVars    == <<ping, pingCancel, pingId>>
tableVars   == <<requestId, pending, rpc, via>>
rpcVars     == <<tableVars, fut>>
vars == <<clientVars, connectVars, runVars, sock, pingVars, rpcVars, closer>>

RequestIds == 1 .. MaxRequests

\* Exceptions by what the client tells apart.  "failed" stands for every
\* retryable one: ConnectionError, ProtocolError, a ServerError with another
\* code than unauthorized, an error of the cursor store.  "raised" is a
\* CancelledError that leaves _connect_and_serve instead of being returned.
Errors == {"failed", "unauthorized", "closed", "cancelled", "raised"}

RunStates == {"none", "start", "loading", "dialing", "loginWrite", "loginRead",
              "onLogin", "reading", "handling", "readError", "onDisconnect",
              "closingWs", "excClosing", "stopPing", "onError", "sleeping", "done"}

\* Where the run task holds a connection that the login made the client's own.
LoggedIn == {"onLogin", "reading", "handling", "readError"}

RunOver == run \in {"none", "done"}

FutureResults == {"value", "error", "disconnected"} \cup Errors

TypeOK ==
    /\ closed \in BOOLEAN /\ connected \in BOOLEAN /\ loginInfo \in BOOLEAN
    /\ ws \in BOOLEAN /\ stopReconnect \in BOOLEAN
    /\ firstConnect \in {"none", "pending", "ok"} \cup Errors
    /\ run # "none" => firstConnect # "none"
    /\ run \in RunStates
    /\ runCancel \in BOOLEAN
    /\ err \in {"none"} \cup Errors
    /\ run \in {"onDisconnect", "closingWs", "excClosing", "stopPing"} => err # "none"
    /\ delay \in Nat \ {0}
    /\ answering \in 0 .. MaxRequests
    /\ sock \in {"none", "open", "closing"}
    /\ ping \in {"none", "sleep", "rpc", "onError"}
    /\ pingCancel \in BOOLEAN
    /\ pingId \in 0 .. MaxRequests
    /\ requestId \in 0 .. MaxRequests
    /\ pending \subseteq RequestIds
    /\ fut \in [RequestIds -> {"none", "pending"} \cup FutureResults]
    /\ rpc \in [RequestIds -> {"none", "writing", "waiting"}]
    /\ via \in [RequestIds -> {"none", "this", "old"}]
    /\ connector \in [Connectors -> {"idle", "waiting", "ok", "gaveUp"} \cup Errors]
    /\ closer \in [Closers -> {"idle", "closeWs", "awaitRun", "returned"}]

Init ==
    /\ closed = FALSE /\ connected = FALSE /\ loginInfo = FALSE /\ ws = FALSE
    /\ stopReconnect = FALSE
    /\ firstConnect = "none"
    /\ run = "none" /\ runCancel = FALSE /\ err = "none" /\ delay = InitialDelay
    /\ answering = 0
    /\ sock = "none"
    /\ ping = "none" /\ pingCancel = FALSE /\ pingId = 0
    /\ requestId = 0 /\ pending = {}
    /\ fut = [i \in RequestIds |-> "none"]
    /\ rpc = [i \in RequestIds |-> "none"]
    /\ via = [i \in RequestIds |-> "none"]
    /\ connector = [c \in Connectors |-> "idle"]
    /\ closer = [k \in Closers |-> "idle"]

-----------------------------------------------------------------------------
(* Helpers: the private methods the handlers are made of.                  *)

\* Mutant of Signal: a settled future is settled again.
SignalAgain(result) ==
    /\ firstConnect' = result
    /\ connector' = [c \in Connectors |->
                        IF connector[c] = "waiting" THEN result ELSE connector[c]]

\* _signal_first_connect: settle the future unless it is done, and with it
\* every connect() that awaits it.
Signal(result) ==
    IF firstConnect = "pending"
    THEN /\ firstConnect' = result
         /\ connector' = [c \in Connectors |->
                            IF connector[c] = "waiting" THEN result ELSE connector[c]]
    ELSE UNCHANGED connectVars

\* Mutant of FailAll: nothing fails.
FailNothing(e) == fut' = fut

\* Mutant of FailAll: results that are there already are overwritten.
FailAllOverwrites(e) ==
    fut' = [i \in RequestIds |-> IF i \in pending THEN e ELSE fut[i]]

\* _fail_all_pending: the entries stay, their unresolved futures fail.
FailAll(e) ==
    fut' = [i \in RequestIds |->
              IF i \in pending /\ fut[i] = "pending" THEN e ELSE fut[i]]

\* _resolve_pending: an answer for a request that is gone or settled is dropped.
Resolve(i, result) ==
    fut' = IF i \in pending /\ fut[i] = "pending" THEN [fut EXCEPT ![i] = result]
                                                  ELSE fut

\* _next_request_id.  An id whose request is refused before the table's entry
\* can be seen is not counted.
NextId == requestId + 1

\* _rpc up to its first await: a fresh id, an entry in the table, and a write
\* that has begun on the socket the client holds now.
Register(i) ==
    /\ requestId < MaxRequests
    /\ i = NextId
    /\ requestId' = i
    /\ pending' = pending \cup {i}
    /\ fut' = [fut EXCEPT ![i] = "pending"]
    /\ rpc' = [rpc EXCEPT ![i] = "writing"]
    /\ via' = [via EXCEPT ![i] = "this"]

\* Mutant of Unregister: the entry stays in the table.
UnregisterKeepsEntry(i) ==
    /\ pending' = pending
    /\ fut' = [fut EXCEPT ![i] = "none"]
    /\ rpc' = [rpc EXCEPT ![i] = "none"]
    /\ UNCHANGED <<requestId, via>>

\* The finally clause of _rpc, however the call ends.
Unregister(i) ==
    /\ pending' = pending \ {i}
    /\ fut' = [fut EXCEPT ![i] = "none"]
    /\ rpc' = [rpc EXCEPT ![i] = "none"]
    /\ UNCHANGED <<requestId, via>>

\* Mutant of ShouldRetry: the configuration is read the wrong way round.
ShouldRetryNot(e) ==
    /\ ~closed
    /\ ~stopReconnect
    /\ ~Reconnect
    /\ e \notin {"unauthorized", "closed"}

ShouldRetry(e) ==
    /\ ~closed
    /\ ~stopReconnect
    /\ Reconnect
    /\ e \notin {"unauthorized", "closed"}

Smaller(a, b) == IF a < b THEN a ELSE b

\* Mutant of BackInRun: connect() is not told.
BackInRunSilently(e) ==
    /\ err' = "none"
    /\ \/ /\ e = "raised"
          /\ run' = "done"
          /\ FailAll("closed")
          /\ UNCHANGED connectVars
       \/ /\ e # "raised"
          /\ ShouldRetry(e)
          /\ run' = "onError"
          /\ UNCHANGED <<fut, connectVars>>
       \/ /\ e # "raised"
          /\ ~ShouldRetry(e)
          /\ run' = "done"
          /\ UNCHANGED connectVars
          /\ FailAll(e)

\* Back in _run with the exception of _connect_and_serve.  A CancelledError
\* that was raised, not returned, ends _run in its except clause.
BackInRun(e) ==
    /\ err' = "none"
    /\ \/ /\ e = "raised"
          /\ run' = "done"
          /\ FailAll("closed")
          /\ UNCHANGED connectVars
       \/ /\ e # "raised"
          /\ ShouldRetry(e)
          /\ run' = "onError"
          /\ UNCHANGED <<fut, connectVars>>
       \/ /\ e # "raised"
          /\ ~ShouldRetry(e)
          /\ run' = "done"
          /\ Signal(e)
          /\ FailAll(e)

\* Mutant of LeaveServe: the ping task is not stopped.
LeaveServeWithPing(e) ==
    /\ connected' = FALSE
    /\ ws' = FALSE
    /\ BackInRun(e)
    /\ UNCHANGED <<closed, loginInfo, stopReconnect, pingVars>>

\* The finally clause of _connect_and_serve: the ping task, if it still runs,
\* is cancelled and awaited first.
LeaveServe(e) ==
    /\ connected' = FALSE
    /\ ws' = FALSE
    /\ UNCHANGED <<closed, loginInfo, stopReconnect, pingId>>
    /\ \/ /\ ping = "none"
          /\ BackInRun(e)
          /\ UNCHANGED <<ping, pingCancel>>
       \/ /\ ping # "none"
          /\ run' = "stopPing"
          /\ err' = e
          /\ pingCancel' = TRUE
          /\ UNCHANGED <<ping, fut, connectVars>>

\* Mutant of CloseAfterException: the socket is left open.
CloseNothing(e) ==
    /\ run' = "excClosing"
    /\ err' = e
    /\ UNCHANGED sock

\* The except clause of _connect_and_serve when a socket has been dialled.
CloseAfterException(e) ==
    /\ run' = "excClosing"
    /\ err' = e
    /\ sock' = "closing"

\* The top of the loop of _run: into _connect_and_serve.
BeginServe ==
    IF closed THEN BackInRun("closed")
    ELSE /\ run' = "loading"
         /\ UNCHANGED <<err, fut, connectVars>>

-----------------------------------------------------------------------------
(* connect()                                                               *)

ConnectYields(c, outcome) ==
    /\ connector' = [connector EXCEPT ![c] = outcome]
    /\ UNCHANGED <<clientVars, firstConnect, runVars, sock, pingVars, rpcVars, closer>>

\* ClosedError; or already connected; or a new run task with a new future; or
\* the future of the run task there is, which may be settled already.
Connect(c) ==
    /\ connector[c] # "waiting"
    /\ \/ /\ closed
          /\ ConnectYields(c, "closed")
       \/ /\ ~closed /\ connected /\ ws
          /\ ConnectYields(c, "ok")
       \/ /\ ~closed /\ ~(connected /\ ws) /\ RunOver
          /\ firstConnect' = "pending"
          /\ run' = "start" /\ runCancel' = FALSE
          /\ connector' = [connector EXCEPT ![c] = "waiting"]
          /\ UNCHANGED <<clientVars, err, delay, answering, sock, pingVars, rpcVars,
                         closer>>
       \/ /\ ~closed /\ ~(connected /\ ws) /\ ~RunOver
          /\ ConnectYields(c, IF firstConnect = "pending" THEN "waiting"
                                                          ELSE firstConnect)

\* The application cancels a task inside connect() (or its wait_for expires).
\* The task awaits the shared future itself, so the future is cancelled, and
\* with it every other task that awaits it.
ConnectCancelled(c) ==
    /\ connector[c] = "waiting"
    /\ firstConnect' = "cancelled"
    /\ connector' = [[d \in Connectors |-> IF connector[d] = "waiting" THEN "cancelled"
                                           ELSE connector[d]] EXCEPT ![c] = "gaveUp"]
    /\ UNCHANGED <<clientVars, runVars, sock, pingVars, rpcVars, closer>>

-----------------------------------------------------------------------------
(* close()                                                                 *)

\* Mutant of CloseFirst: without a connection nothing is cancelled.
CloseFirstNoCancel(k) ==
    /\ closer[k] = "idle"
    /\ ~closed
    /\ closed' = TRUE
    /\ Signal("closed")
    /\ FailAll("closed")
    /\ ws' = FALSE /\ connected' = FALSE /\ loginInfo' = FALSE
    /\ \/ /\ ws
          /\ sock' = "closing"
          /\ closer' = [closer EXCEPT ![k] = "closeWs"]
          /\ UNCHANGED runCancel
       \/ /\ ~ws
          /\ UNCHANGED runCancel
          /\ closer' = [closer EXCEPT ![k] = "awaitRun"]
          /\ UNCHANGED sock
    /\ UNCHANGED <<stopReconnect, run, err, delay, answering, pingVars, tableVars>>

\* The first call.  With a connection it closes the socket and suspends; with
\* none it cancels the run task at once.
CloseFirst(k) ==
    /\ closer[k] = "idle"
    /\ ~closed
    /\ closed' = TRUE
    /\ Signal("closed")
    /\ FailAll("closed")
    /\ ws' = FALSE /\ connected' = FALSE /\ loginInfo' = FALSE
    /\ \/ /\ ws
          /\ sock' = "closing"
          /\ closer' = [closer EXCEPT ![k] = "closeWs"]
          /\ UNCHANGED runCancel
       \/ /\ ~ws
          /\ runCancel' = ~RunOver
          /\ closer' = [closer EXCEPT ![k] = "awaitRun"]
          /\ UNCHANGED sock
    /\ UNCHANGED <<stopReconnect, run, err, delay, answering, pingVars, tableVars>>

\* ws.close() is over: cancel the run task and wait for it.
CloseWsDone(k) ==
    /\ closer[k] = "closeWs"
    /\ runCancel' = ~RunOver
    /\ closer' = [closer EXCEPT ![k] = "awaitRun"]
    /\ UNCHANGED <<clientVars, connectVars, run, err, delay, answering, sock,
                   pingVars, rpcVars>>

\* A later call only waits for the run task.
CloseAgain(k) ==
    /\ closer[k] = "idle"
    /\ closed
    /\ closer' = [closer EXCEPT ![k] = "awaitRun"]
    /\ UNCHANGED <<clientVars, connectVars, runVars, sock, pingVars, rpcVars>>

\* Mutant of CloseDone: the run task is not awaited.
CloseDoneEarly(k) ==
    /\ closer[k] = "awaitRun"
    /\ closer' = [closer EXCEPT ![k] = "returned"]
    /\ UNCHANGED <<clientVars, connectVars, runVars, sock, pingVars, rpcVars>>

\* _await_run_task and the HTTP client's close are over.
CloseDone(k) ==
    /\ closer[k] = "awaitRun"
    /\ RunOver
    /\ closer' = [closer EXCEPT ![k] = "returned"]
    /\ UNCHANGED <<clientVars, connectVars, runVars, sock, pingVars, rpcVars>>

-----------------------------------------------------------------------------
(* The run task, while nothing has cancelled it.                           *)

RunAt(pc) == run = pc /\ ~runCancel

\* An await that is over and leaves nothing but the next await behind.
Goto(from, to) ==
    /\ RunAt(from)
    /\ run' = to
    /\ UNCHANGED <<clientVars, connectVars, runCancel, err, delay, answering, sock,
                   pingVars, rpcVars, closer>>

\* _run starts with the initial delay.
RunStarts ==
    /\ RunAt("start")
    /\ delay' = InitialDelay
    /\ BeginServe
    /\ UNCHANGED <<clientVars, runCancel, answering, sock, pingVars, tableVars, closer>>

Loaded == Goto("loading", "dialing")

\* load_seen_messages or websockets.connect raised: there is no socket yet.
LoadOrDialFails ==
    /\ RunAt("loading") \/ RunAt("dialing")
    /\ LeaveServe("failed")
    /\ UNCHANGED <<runCancel, delay, answering, sock, tableVars, closer>>

\* A new socket: what was sent before went through an older one.
Dialled ==
    /\ RunAt("dialing")
    /\ run' = "loginWrite"
    /\ sock' = "open"
    /\ via' = [i \in RequestIds |-> IF via[i] = "this" THEN "old" ELSE via[i]]
    /\ UNCHANGED <<clientVars, connectVars, runCancel, err, delay, answering,
                   pingVars, requestId, pending, fut, rpc, closer>>

LoginWritten == Goto("loginWrite", "loginRead")

\* The connection is lost, or the first envelope of the server is no answer to
\* the login (e = "failed"); or the server refuses the login: "unauthorized"
\* stops reconnecting, any other code takes an earlier "unauthorized" back.
LoginFails(e) ==
    /\ \/ /\ RunAt("loginWrite") \/ RunAt("loginRead")
          /\ e = "failed"
          /\ UNCHANGED stopReconnect
       \/ /\ RunAt("loginRead")
          /\ stopReconnect' = (e = "unauthorized")
    /\ CloseAfterException(e)
    /\ UNCHANGED <<closed, connected, loginInfo, ws, connectVars, runCancel, delay,
                   answering, pingVars, rpcVars, closer>>

\* login_response: the socket becomes the client's, then on_login is awaited.
LoginOk ==
    /\ RunAt("loginRead")
    /\ loginInfo' = TRUE /\ ws' = TRUE /\ connected' = TRUE
    /\ run' = "onLogin"
    /\ UNCHANGED <<closed, stopReconnect, connectVars, runCancel, err, delay,
                   answering, sock, pingVars, rpcVars, closer>>

\* on_login is over: connect() returns, the ping task starts.
OnLoginDone ==
    /\ RunAt("onLogin")
    /\ Signal("ok")
    /\ ping' = "sleep" /\ pingCancel' = FALSE
    /\ run' = "reading"
    /\ UNCHANGED <<clientVars, runCancel, err, delay, answering, sock, pingId,
                   rpcVars, closer>>

-----------------------------------------------------------------------------
(* _read_loop                                                              *)

\* A response or an error envelope that is mapped at once.  The server may
\* answer any request sent through this socket, also one that is over by now.
ReadAnswer(i, result) ==
    /\ RunAt("reading")
    /\ via[i] = "this"
    /\ Resolve(i, result)
    /\ UNCHANGED <<clientVars, connectVars, runVars, sock, pingVars, tableVars, closer>>

\* A send_message_response with a message: it is persisted before the future
\* is resolved, and the store suspends.
ReadMessageAnswer(i) ==
    /\ RunAt("reading")
    /\ via[i] = "this"
    /\ run' = "handling"
    /\ answering' = i
    /\ UNCHANGED <<clientVars, connectVars, runCancel, err, delay, sock, pingVars,
                   rpcVars, closer>>

\* A pushed message or packet: persist, acknowledge, call the handler.
ReadPush == Goto("reading", "handling")

\* An envelope whose handling raises before any await: an error without a
\* request id, a second login_response, an unmappable body.
ReadUnusable == Goto("reading", "readError")

\* Handling is over; a persisted answer is given to the request if that is
\* still in the table.
HandlingDone ==
    /\ RunAt("handling")
    /\ run' = "reading"
    /\ answering' = 0
    /\ IF answering = 0 THEN UNCHANGED fut ELSE Resolve(answering, "value")
    /\ UNCHANGED <<clientVars, connectVars, runCancel, err, delay, sock, pingVars,
                   tableVars, closer>>

\* The store raised: the envelope is dropped, on_error is awaited.
HandlingFails ==
    /\ RunAt("handling")
    /\ run' = "readError"
    /\ answering' = 0
    /\ UNCHANGED <<clientVars, connectVars, runCancel, err, delay, sock, pingVars,
                   rpcVars, closer>>

ReadErrorDone == Goto("readError", "reading")

\* Mutant of Disconnect: login_info is kept.
DisconnectKeepsLogin(e) ==
    /\ connected' = FALSE /\ ws' = FALSE /\ UNCHANGED loginInfo
    /\ FailAll("disconnected")
    /\ err' = e
    /\ run' = "onDisconnect"
    /\ UNCHANGED <<closed, stopReconnect, connectVars, delay, answering, sock,
                   pingVars, tableVars, closer>>

\* Mutant of Disconnect: the error of the read loop is lost.
DisconnectForgetsError(e) ==
    /\ connected' = FALSE /\ loginInfo' = FALSE /\ ws' = FALSE
    /\ FailAll("disconnected")
    /\ err' = "none"
    /\ run' = "onDisconnect"
    /\ UNCHANGED <<closed, stopReconnect, connectVars, delay, answering, sock,
                   pingVars, tableVars, closer>>

\* _read_loop has returned e: the session is over, every request in the table
\* fails, on_disconnect is awaited.
Disconnect(e) ==
    /\ connected' = FALSE /\ loginInfo' = FALSE /\ ws' = FALSE
    /\ FailAll("disconnected")
    /\ err' = e
    /\ run' = "onDisconnect"
    /\ UNCHANGED <<closed, stopReconnect, connectVars, delay, answering, sock,
                   pingVars, tableVars, closer>>

\* Mutant of ReadFails: every end of the socket is taken for that by close().
ReadFailsAsClosed ==
    /\ RunAt("reading")
    /\ Disconnect("closed")
    /\ UNCHANGED runCancel

\* recv raises: the peer or the network closed the socket, close() did, or a
\* frame is no protobuf.
ReadFails ==
    /\ RunAt("reading")
    /\ Disconnect(IF closed THEN "closed" ELSE "failed")
    /\ UNCHANGED runCancel

OnDisconnectDone ==
    /\ RunAt("onDisconnect")
    /\ run' = "closingWs"
    /\ sock' = "closing"
    /\ UNCHANGED <<clientVars, connectVars, runCancel, err, delay, answering,
                   pingVars, rpcVars, closer>>

\* The socket is closed, by the normal path or by the except clause.
ClosingDone ==
    /\ RunAt("closingWs") \/ RunAt("excClosing")
    /\ sock' = "none"
    /\ LeaveServe(err)
    /\ UNCHANGED <<runCancel, delay, answering, tableVars, closer>>

\* The ping task is over: _connect_and_serve returns.
PingStopped ==
    /\ RunAt("stopPing")
    /\ ping = "none"
    /\ BackInRun(err)
    /\ UNCHANGED <<clientVars, runCancel, delay, answering, sock, pingVars,
                   tableVars, closer>>

OnErrorDone == Goto("onError", "sleeping")

\* The delay is doubled up to the maximum and never set back.
SleepDone ==
    /\ RunAt("sleeping")
    /\ delay' = Smaller(2 * delay, MaxDelay)
    /\ BeginServe
    /\ UNCHANGED <<clientVars, runCancel, answering, sock, pingVars, tableVars, closer>>

-----------------------------------------------------------------------------
(* The run task, cancelled by close().                                     *)

CancelledAt(pcs) ==
    /\ run \in pcs
    /\ runCancel
    /\ runCancel' = FALSE

\* The task had not begun: not a line of _run is executed.
CancelledAtStart ==
    /\ CancelledAt({"start"})
    /\ run' = "done"
    /\ UNCHANGED <<clientVars, connectVars, err, delay, answering, sock, pingVars,
                   rpcVars, closer>>

\* No socket has been dialled.
CancelledBeforeSocket ==
    /\ CancelledAt({"loading", "dialing"})
    /\ LeaveServe("cancelled")
    /\ UNCHANGED <<delay, answering, sock, tableVars, closer>>

\* The except clause closes the socket.
CancelledWithSocket ==
    /\ CancelledAt({"loginWrite", "loginRead", "onLogin", "readError",
                    "onDisconnect", "closingWs"})
    /\ CloseAfterException("cancelled")
    /\ UNCHANGED <<clientVars, connectVars, delay, answering, pingVars, rpcVars, closer>>

\* recv raises CancelledError, which _read_loop returns like any other error.
CancelledReading ==
    /\ CancelledAt({"reading"})
    /\ Disconnect("cancelled")

\* _read_loop, or the except clause around the acknowledgement of a pushed
\* message, catches the CancelledError and goes on.
CancelledHandling ==
    /\ CancelledAt({"handling"})
    /\ \/ run' = "readError" /\ answering' = 0
       \/ answering = 0 /\ UNCHANGED <<run, answering>>
    /\ UNCHANGED <<clientVars, connectVars, err, delay, sock, pingVars, rpcVars, closer>>

\* The CancelledError leaves the except clause and _connect_and_serve.
CancelledExcClosing ==
    /\ CancelledAt({"excClosing"})
    /\ LeaveServe("raised")
    /\ UNCHANGED <<delay, answering, sock, tableVars, closer>>

\* await ping_task passes the cancellation on to the ping task.
CancelledStopPing ==
    /\ CancelledAt({"stopPing"})
    /\ pingCancel' = (ping # "none")
    /\ UNCHANGED <<clientVars, connectVars, run, err, delay, answering, sock, ping,
                   pingId, rpcVars, closer>>

\* In on_error or in the reconnect sleep: _run ends.
CancelledBetween ==
    /\ CancelledAt({"onError", "sleeping"})
    /\ run' = "done"
    /\ FailAll("closed")
    /\ UNCHANGED <<clientVars, connectVars, err, delay, answering, sock, pingVars,
                   tableVars, closer>>

-----------------------------------------------------------------------------
(* RPCs: _rpc, of the application and of the ping task.                    *)

\* An operation of the client that is called with a connection.  Without one it
\* raises ClosedError or NotConnectedError in the same step and leaves nothing.
StartRpc(i) ==
    /\ ~closed /\ ws
    /\ Register(i)
    /\ UNCHANGED <<clientVars, connectVars, runVars, sock, pingVars, closer>>

\* The request of a cancelled ping task meets nothing but the cancellation.
RpcAt(i, pc) == rpc[i] = pc /\ ~(i = pingId /\ pingCancel)

\* _rpc returns or raises; the ping task goes on from ping().
EndRpc(i, pingNext) ==
    /\ Unregister(i)
    /\ IF i = pingId THEN ping' = pingNext /\ pingId' = 0 /\ pingCancel' = FALSE
                     ELSE UNCHANGED pingVars
    /\ UNCHANGED <<clientVars, connectVars, runVars, sock, closer>>

WriteDone(i) ==
    /\ RpcAt(i, "writing")
    /\ rpc' = [rpc EXCEPT ![i] = "waiting"]
    /\ UNCHANGED <<clientVars, connectVars, runVars, sock, pingVars, requestId,
                   pending, fut, via, closer>>

\* ClosedError once the client is closed, ConnectionError otherwise.
WriteFails(i) ==
    /\ RpcAt(i, "writing")
    /\ EndRpc(i, IF closed THEN "none" ELSE "onError")

\* The future is settled.
RpcReturns(i) ==
    /\ RpcAt(i, "waiting")
    /\ fut[i] # "pending"
    /\ EndRpc(i, CASE fut[i] = "value" -> "sleep"
                   [] fut[i] \in {"closed", "disconnected"} -> "none"
                   [] OTHER -> "onError")

\* Mutant of RpcTimesOut: wait_for has no timeout.
RpcNeverTimesOut(i) ==
    /\ RpcAt(i, "waiting") /\ fut[i] # "pending"
    /\ EndRpc(i, "onError")

\* wait_for expires, at worst when the answer is there already.
RpcTimesOut(i) ==
    /\ RpcAt(i, "waiting")
    /\ EndRpc(i, "onError")

\* The application cancels the task that called.
RpcCancelled(i) ==
    /\ i # pingId
    /\ rpc[i] # "none"
    /\ EndRpc(i, "none")

-----------------------------------------------------------------------------
(* The ping task.                                                          *)

PingMoves(from, cancelled, to) ==
    /\ ping = from /\ pingCancel = cancelled
    /\ ping' = to /\ pingCancel' = FALSE
    /\ UNCHANGED <<clientVars, connectVars, runVars, sock, pingId, rpcVars, closer>>

\* ping_interval is over and ping() registers its request.
PingSends(i) ==
    /\ ping = "sleep" /\ ~pingCancel
    /\ ~closed /\ ws
    /\ Register(i)
    /\ ping' = "rpc" /\ pingId' = i
    /\ UNCHANGED <<clientVars, connectVars, runVars, sock, pingCancel, closer>>

\* ping() raises ClosedError or NotConnectedError: the task ends.
PingEnds ==
    /\ closed \/ ~ws
    /\ PingMoves("sleep", FALSE, "none")

PingErrorHandled == PingMoves("onError", FALSE, "sleep")

\* Cancelled while asleep or in on_error: the task ends.
PingCancelled == PingMoves("sleep", TRUE, "none") \/ PingMoves("onError", TRUE, "none")

\* Cancelled inside ping(): the loop's except clause takes the CancelledError
\* for one more failed ping, and the task goes on.  The wait_for of Python 3.11
\* hands out a settled future even then.
PingCancelledInRpc(i) ==
    /\ ping = "rpc" /\ pingCancel
    /\ i = pingId
    /\ \/ EndRpc(i, "onError")
       \/ /\ rpc[i] = "waiting"
          /\ fut[i] \in {"value", "closed", "disconnected"}
          /\ EndRpc(i, IF fut[i] = "value" THEN "sleep" ELSE "none")

-----------------------------------------------------------------------------
RunResumes ==
    \/ RunStarts \/ Loaded \/ LoadOrDialFails \/ Dialled \/ LoginWritten
    \/ \E e \in {"failed", "unauthorized"} : LoginFails(e)
    \/ LoginOk \/ OnLoginDone
    \/ HandlingDone \/ HandlingFails \/ ReadErrorDone
    \/ OnDisconnectDone \/ ClosingDone \/ PingStopped \/ OnErrorDone \/ SleepDone

RunCancelled ==
    \/ CancelledAtStart \/ CancelledBeforeSocket \/ CancelledWithSocket
    \/ CancelledReading \/ CancelledHandling \/ CancelledExcClosing
    \/ CancelledStopPing \/ CancelledBetween

Reads ==
    \/ ReadPush \/ ReadUnusable \/ ReadFails
    \/ \E i \in RequestIds :
         \/ ReadMessageAnswer(i)
         \/ \E result \in {"value", "error"} : ReadAnswer(i, result)

RpcSteps(i) ==
    \/ WriteDone(i) \/ WriteFails(i) \/ RpcReturns(i) \/ RpcTimesOut(i)

PingSteps ==
    \/ PingEnds \/ PingErrorHandled \/ PingCancelled
    \/ \E i \in RequestIds : PingSends(i) \/ PingCancelledInRpc(i)

Next ==
    \/ \E c \in Connectors : Connect(c) \/ ConnectCancelled(c)
    \/ \E k \in Closers :
         \/ CloseFirst(k) \/ CloseWsDone(k) \/ CloseAgain(k) \/ CloseDone(k)
    \/ RunResumes \/ RunCancelled \/ Reads \/ PingSteps
    \/ \E i \in RequestIds : StartRpc(i) \/ RpcSteps(i) \/ RpcCancelled(i)

Spec == Init /\ [][Next]_vars

-----------------------------------------------------------------------------
(* Fairness.  What the program itself guarantees: a task that asyncio can  *)
(* resume is resumed, a timer fires, a callback, a store call and an       *)
(* attempt to dial, write or close end one way or the other.  A websocket  *)
(* that is being closed has a finite receive buffer, so reading it ends    *)
(* although any number of buffered frames is handled before.               *)

Scheduling ==
    /\ WF_vars(RunResumes)
    /\ WF_vars(RunCancelled)
    /\ SF_vars(sock = "closing" /\ ReadFails)
    /\ WF_vars(PingEnds) /\ WF_vars(PingErrorHandled) /\ WF_vars(PingCancelled)
    /\ \A i \in RequestIds :
         /\ WF_vars(PingCancelledInRpc(i))
         /\ WF_vars(WriteDone(i) \/ WriteFails(i))
         /\ WF_vars(RpcReturns(i) \/ RpcTimesOut(i))
    /\ \A k \in Closers : WF_vars(CloseWsDone(k)) /\ WF_vars(CloseDone(k))

\* What the environment adds for a reconnect to succeed at all: the store, the
\* network and the server do not fail every attempt.
ServerRecovers ==
    SF_vars(Loaded) /\ SF_vars(Dialled) /\ SF_vars(LoginWritten) /\ SF_vars(LoginOk)

FairSpec == Spec /\ Scheduling

-----------------------------------------------------------------------------
(* Safety                                                                  *)

\* A request still without a result can still get one: its answer can arrive
\* on the socket the client holds, and a lost connection or close() will find
\* it in the table.  No request is left to its timeout by a disconnection.
NoOrphanedFuture ==
    \A i \in RequestIds :
        fut[i] = "pending" => /\ i \in pending
                              /\ ws /\ ~closed
                              /\ via[i] = "this"

\* The table of _pending holds the calls of _rpc in progress and nothing else:
\* no entry outlives its call, no call loses its entry, the ping included.
PendingTableIsTight ==
    /\ \A i \in RequestIds : i \in pending <=> rpc[i] # "none"
    /\ \A i \in RequestIds : i \in pending => i <= requestId /\ fut[i] # "none"
    /\ ping = "rpc" <=> pingId # 0
    /\ pingId # 0 => pingId \in pending

\* Whoever waits in connect() is still going to be answered: the future is
\* open, the run task lives, and close() has not passed by.
NoWaiterIsStranded ==
    \A c \in Connectors :
        connector[c] = "waiting" => firstConnect = "pending" /\ ~RunOver /\ ~closed

\* login_info, the connected flag and the socket of the client go together,
\* exist only between a login and the loss of its connection, and never in a
\* closed client.
SessionMatchesConnection ==
    /\ connected = ws /\ loginInfo = ws
    /\ ws => ~closed /\ run \in LoggedIn /\ sock = "open"

\* A socket that was dialled is closed before the run task sleeps, dials again
\* or ends, whatever was cancelled or raised on the way, and not while the login
\* still needs it.
NoSocketLeak ==
    /\ sock = "open" =>
         run \in LoggedIn \cup {"loginWrite", "loginRead", "onDisconnect"}
    /\ run \in {"loginWrite", "loginRead"} => sock = "open"

\* close() never misses the run task: at every await that could lead to another
\* login the task of a closed client has been cancelled, so _connect_and_serve
\* needs no further check of _closed after its first line.  Only close() cancels
\* it, also when the CancelledError is what ends _run.
CloseReachesTheRunTask ==
    /\ runCancel => closed
    /\ closed /\ run \in {"start", "loading", "dialing", "loginWrite", "loginRead",
                          "onError", "sleeping"} => runCancel
    /\ err = "raised" => closed

\* At most one ping task, never one that outlives the connection it was started
\* for.
PingOnlyWhileServed ==
    ping # "none" =>
        run \in (LoggedIn \ {"onLogin"})
                   \cup {"onDisconnect", "closingWs", "excClosing", "stopPing"}

\* When close() has returned nothing is left behind: no task, no socket, no
\* caller of connect() and no request without its error.
ClosedClientIsQuiet ==
    (\E k \in Closers : closer[k] = "returned") =>
        /\ closed
        /\ RunOver /\ ping = "none" /\ sock # "open"
        /\ \A c \in Connectors : connector[c] # "waiting"
        /\ \A i \in RequestIds : fut[i] # "pending"

\* A run task never gives up by itself: when it has ended, the client is closed,
\* reconnecting is off, or the server has refused a login as unauthorized, which
\* stops the later run tasks of the client too (docs/sdk-guide.md: for ever).
RunEndsForAReason == run = "done" => closed \/ ~Reconnect \/ stopReconnect

(***************************************************************************)
(* Action properties                                                       *)
(***************************************************************************)

\* The future of connect() is settled once for each run task.
FirstOutcomeIsFinal ==
    [][firstConnect' # firstConnect =>
         \/ firstConnect = "pending"
         \/ firstConnect' = "pending" /\ RunOver /\ run' = "start"]_vars

\* A closed client never gets a connection again, and never dials.
ClosedIsFinal ==
    [][closed => /\ closed'
                 /\ ~connected' /\ ~ws' /\ ~loginInfo'
                 /\ sock' = "open" => sock = "open"]_vars

\* The first result of a request is the one its caller gets: a disconnection, a
\* close() or a second answer never replaces an answer that is already there.
FirstResultWins ==
    [][\A i \in RequestIds :
         fut[i] \in FutureResults => fut'[i] \in {fut[i], "none"}]_vars

\* The backoff starts from the initial delay after a connection that had logged
\* in (docs/async-client.md says the backoff begins at initial_reconnect_delay).
BackoffRestarts ==
    [][(run \in {"closingWs", "stopPing"} /\ run' = "onError")
         => delay' = InitialDelay]_vars

\* connect() fails for the caller's own cancellation, a closed client or an
\* unrecoverable error, never because another task gave up waiting.
OnlyTheCancelledGiveUp ==
    \A c \in Connectors : connector[c] # "cancelled"

(***************************************************************************)
(* Liveness                                                                *)
(***************************************************************************)

\* close() returns, whatever state it met.
CloseTerminates ==
    \A k \in Closers : closer[k] # "idle" ~> closer[k] = "returned"

\* Every call of _rpc ends, answered or not.
RpcsTerminate ==
    \A i \in RequestIds : rpc[i] # "none" ~> rpc[i] = "none"

\* If the server lets the client in some time, every connect() ends: by the
\* login, by an error that forbids another attempt, by close() or by being
\* cancelled.
ConnectTerminates ==
    ServerRecovers =>
        \A c \in Connectors : connector[c] = "waiting" ~> connector[c] # "waiting"

\* If the server lets the client in some time, a lost connection is replaced,
\* unless the client was closed or refused.
Reconnects ==
    ServerRecovers => (run = "onDisconnect" ~> connected \/ closed \/ stopReconnect)

=============================================================================
