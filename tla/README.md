# Verification of turntf-py

TLA+ models of the asynchronous Python client `turntf` (`src/turntf/`), TLC
configurations that check them on small instances, and TLAPS proofs of what
matters most for every value of the constants. Line numbers are those of `src/`.

## 1. Inventory

| Component | Source | State | Operations |
|---|---|---|---|
| Client lifecycle | `client.py` 229–425, 1225–1338, 1588–1625 | `_closed`, `_connected`, `login_info`, `_ws`, `_stop_reconnect`, `_first_connect`, `_run_task` | `connect`, `close`, `_run`, `_connect_and_serve`, `_read_loop` |
| RPC table | `client.py` 1506–1586 | `_request_id`, `_pending` | `_rpc`, `_resolve_pending`, `_fail_all_pending`, `_next_request_id` |
| Keepalive | `client.py` 1539–1547 | the ping task | `_ping_loop`, `ping` |
| Message delivery | `client.py` 1340–1370, `_persist_message` | order of the awaits only | store, store the cursor, acknowledge, `on_message` |
| Cursor store | `store.py` | messages, cursor list | `load_seen_messages`, `save_message`, `save_cursor` |
| RPC operations | `client.py` 425–1223 | none | about thirty requests, each with the answer it accepts |
| HTTP client | `http.py` | none | the same operations, as HTTP requests |
| Validation | `validation.py` | none | checks of the arguments of both |
| Relay connection | `relay.py` 300–790 | `_state`, window, `_unacked`, reorder buffer, two queues, two tasks | `send`, `receive`, `close`, `abort`, `_send_loop`, `_retransmit_loop`, `_handle_*` |
| Relay manager | `relay.py` 60–297 | `_conns`, one lock | `connect`, `handle_packet`, `accept_incoming`, `remove_connection` |
| Relay frame codec | `mapping.py` 1365–1586 | none | hand-written protobuf varints and fields |
| Protobuf mapping | `mapping.py` | none | field-by-field conversions |
| Passwords, errors, types | `password.py`, `errors.py`, `types.py` | none between calls | stateless |
| Generated code | `_generated/` | — | not ours |

How they interact. One asyncio loop runs everything, so state changes only
between awaits. The **run task** owns the socket and is the only reader. It
hands answers to the futures in `_pending`, pushed messages to the store and to
the handler callbacks, and `packet` frames to the relay's `handle_packet`, all
by awaiting them inside its read loop. The **ping task** exists for one
connection. **Callers** of `connect()` share one future; callers of an RPC each
own one in the table; callers of `close()` cancel the run task and wait for it.
A relay connection sends every frame through the RPC `send_packet`, from its own
**send loop** and **retransmission task**, and replies to frames from inside the
client's read loop. The HTTP client shares nothing with any of this but the checks
of arguments and the types; `AsyncClient.http` makes one for the same server, and a
program may use both at once.

What is hard here, and what makes each component correct:

* *Lifecycle.* `close()` arrives at any of a dozen awaits and cancels; each must
  close the socket, reset the session, answer the callers of `connect()` and
  never log in again. `connect()` meets run tasks that are starting, ending or
  over. Reconnecting must not go on after close or a refusal, and must go on
  otherwise.
* *RPC table.* Answers, errors, timeouts, cancellations, lost connections and
  `close()` race for one future. Exactly one wins, the entry goes away with
  the call, and no request waits for a socket that is gone.
* *Keepalive.* The ping task is cancelled while it sleeps, in an RPC or in
  `on_error`, and its loop catches `CancelledError`. There is never more than
  one, and it does not outlive its connection.
* *Relay connection.* Frames are lost, repeated and reordered; the window, the
  retransmission and the reorder buffer stay bounded; a connection closes once,
  whoever closes it; a payload is delivered in order and once.
* *Operations.* Answers to several calls come in any order, late, for calls that
  are over, or of the wrong kind, and are told apart by a number. A call must never
  return what belongs to another; an exception must not say that nothing happened
  when something did; and the two clients, written twice, must ask for the same.
* *Relay codec.* Word size, sign, field lengths and the fields of newer peers are
  handled by hand and have to agree between the two directions.
* *Message delivery.* A message is stored before it is acknowledged and
  acknowledged before it is handed on; a crash between two of these decides
  whether it is lost or repeated.

`PROJECT.json` lists every hazard of this kind at its line with the properties
that cover it, and says of the others why nothing covers them yet.

## 2. Modules

| Module | What it is |
|---|---|
| `AsyncClient` | The client object and its tasks: connectors, closers, run task, ping task, RPCs. |
| `MCAsyncClient` | Its instances for TLC: one or two connectors and closers, symmetric. |
| `AsyncClientProofs` | Its inductive invariant and thirteen theorems. |
| `MessageLog` | The promise about persistent messages, as an abstract specification. |
| `Delivery` | The store, the handling of pushes and of answers to `send_message()`, over connections, `close()` and crashes; implements `MessageLog`. |
| `MCDelivery` | Its instance for TLC. |
| `DeliveryProofs` | Its inductive invariant, six properties and the refinement. |
| `RelayConnection` | One relay connection of either side, its two tasks, the application on it and the frames that arrive. |
| `RelayCodec` | The frames of relay connections as bytes. |
| `RelayFrames` | The two together: what a connection relies on. |
| `MCRelayConnection` | Their instances for TLC; all the constants are plain values. |
| `RelayConnectionProofs` | The invariants of `RelayConnection` and seven theorems. |
| `NaturalRecursion` | Induction and recursive definitions, in the form the provers can use. |
| `RelayWireProofs` | What the codec reads of varints, fields and messages it wrote. |
| `RelayCodecProofs` | An envelope comes back from its encoding. |
| `Requests` | What each operation of the WebSocket client checks, sends, accepts and returns. |
| `HttpRequests` | The same of the HTTP client, and what a server makes of its requests. |
| `CallService` | The promise of an operation to its caller, as an abstract specification. |
| `Operations` | Calls under way together over both transports, with a server that answers as it likes; implements `CallService`. |
| `MCOperations` | Its instance for TLC: every operation with its arguments. |
| `OperationsProofs` | Its inductive invariant, two properties and the refinement. |
| `TransportProofs` | The two clients agree, operation by operation. |

### AsyncClient

An action is the code from one suspension to the next. `run`, `rpc[i]`, `ping`,
`connector[c]`, `closer[k]` name the await at which each task is suspended:

| `run` | suspended at |
|---|---|
| `start` | created, not yet run |
| `loading` | `load_seen_messages` (1256) |
| `dialing` | `_dial` (1257) |
| `loginWrite`, `loginRead` | writing the login, reading its answer (1271–1272) |
| `onLogin` | the `on_login` callback (1277) |
| `reading` | `_read_proto` in `_read_loop` |
| `handling`, `readError` | the store or a callback for what was read; `on_error` after it failed |
| `onDisconnect`, `closingWs`, `stopPing` | the way out of a served connection |
| `excClosing` | closing the socket after an exception or a cancellation (1290–1293) |
| `onError`, `sleeping` | `on_error` and the delay of `_run` |

`Task.cancel()` is the flag `runCancel` (`pingCancel`); a cancelled task meets
the `CancelledError` at the await it is in, and what that await's `try` does with
it is an action `Cancelled…`. `firstConnect` is the future every `connect()`
awaits. `pending` holds the keys of `_pending`, `fut[i]` the future, `via[i]`
whether the request was written to the socket the client still has or an older
one. The server and network are the nondeterministic outcomes of reads, writes,
dialling and login: any answer may come at any time or never, writes fail,
sockets break. Errors are reduced to what `_should_retry` and the waiters tell
apart (`Errors`); the contents of messages and answers, the callbacks' effects
and the wording of errors are left out.

Each action holds all that its stretch of code changes: `Disconnect` is what
follows the end of `_read_loop` (session reset, the table failed, `on_disconnect`
begun); `CloseFirst` is the first call of `close()` up to its first suspension;
`BackInRun` is what `_run` does with the returned exception, including the
signal to the callers of `connect()` and the decision to retry.

### Delivery

`run` is again where the run task waits, coarser before the login (`loading`,
`login`) and finer afterwards: `saveMessage`, `saveCursor` (`_persist_message`),
`acking` (1346), `ackError` (`on_error` for a failed acknowledgement, 1353),
`onMessage`, `onError`. `handling` is the frame being handled (none or one).
`saved`, `blank`, `order` are the keys of `_messages`, those of them that are
placeholders, and `_order` of `MemoryCursorStore`. A store call that fails, or is
cancelled by `close()`, may or may not have had its effect. `durable` says whether
the store outlives the process; a `Crash` with a store that does not empties it
and the history with it, so that properties speak of the life of one store.
`told`, `pushed` and `wire` belong to the connection. The server is external: it
pushes, once on each connection, whatever the login did not name.

`MessageLog` has three variables, `kept`, `acked`, `handed`, mapped to `order`,
`acked`, `handed`, and one step for each message: keep it, acknowledge it or hand
it on, the last two only when it is kept and the last only once.

### RelayConnection

`state`, `sendBase`, `nextSeq`, `unacked`, `retransCnt`, `expectedSeq`,
`recvBuf`, `recvQueue` are the fields of the same names. `sender` and
`retransmitter` say where the tasks are, `connect` and `close` where those calls
are, `reader` whether the client's read loop is inside a reply: during that time
no RPC is answered, which is the guard `Answerable` of every action that needs an
answer. `registered` and `removing` are the entry of `_conns` and the task that
deletes it. `lost` and `acked` are history. Payloads of the application are
counted, those of the peer are known by their sequence number. DATA frames with
any number may arrive at any time and repeatedly (`PeerSeqs`), acknowledgements
of any frame that exists; a CLOSE, OPEN_ACK or PING at any time.

`setup` says which connection a behaviour is about: side, reliability, whether
`send_timeout_ms` is set, whether `wait_for` may forget a cancellation, and three bounds. On the accepting side the connection exists from `ReadOpen` on, open and
with both its tasks, and nothing it sends goes out (`Addressable`): its peer is
(0, 0), which `send_packet` refuses before it suspends. So OPEN_ACK, the call of the
handler, acknowledgements and replies do not happen, while DATA frames are put into
its queue all the same. Two branches of `accept_incoming` are not modelled:
the one for a known `relay_id`, since `handle_packet`, its only caller, looks the
`relay_id` up first and calls it for unknown ones; and the call of the handler, which is never
reached (it would `await` what a plain function returns, which is what the type of
`on_connection` asks for).

Cancellation of a task that waits in `asyncio.wait_for` follows Python 3.11, the
lowest version `pyproject.toml` allows: a result that is there is handed out and
the cancellation forgotten (second and third case of `SenderCancelled`, where
`setup.forgetful`); later versions forget none.

### RelayCodec

`Encode` and `Decode` are `encode_relay_envelope` and `decode_relay_envelope` on
sequences of numbers, with `EncodeVarint`, `DecodeVarint` and `ReadField`
(`_skip_field`) below them. A byte carries `GroupBits` bits and a word has
`WordBits`; the code has 7 and 64. Nothing in the code depends on these values
but through a mask and a length limit, and both are reached with short words.
One byte value stands for what is not UTF-8. What is written of a record is a
sequence of pieces, one for each field (`EnvelopeFields`), so that a field of a newer
peer can stand anywhere between them (`With`). `InRange` says which envelopes are
meant: numbers fit their words, texts are texts; `Frames` are some of them.
Decoding goes field by field (`FieldsFrom`), whose step is `SessionField` or
`EnvelopeField`. Decoding keeps no state, so `FramesSurviveTheWire` (in
`RelayFrames`) looks at the frames once, when a connection is about to be made by one.

### Requests, HttpRequests

An operation is a definition from its arguments to a record: whether the checks
pass, the request, the type of answer it accepts and the type it returns. In
`Requests` the request is the command itself (a protobuf message has all its
fields); in `HttpRequests` it is verb, path template and the fields that the code
puts there, and `Route` (external) is the command a server makes of it, with the
values that absent fields stand for. Arguments are told apart as far as a check
looks at them: a JSON document is an object, a string, a string that
`_looks_like_json_text` takes for JSON, none or junk; text is empty, blank or not;
keys are short sequences of letters, one of which is forbidden. The bodies of
metadata values have only the kinds that `resolve_user_metadata_upsert_value` looks at.

### Operations

`pc[c]` is where the task of call `c` is: before the call, waiting for the future
or the response, with an answer that is there (`answered`) or a connection that is
gone (`lost`) but not yet resumed, or over. `id[c]` is its key in `_pending`, which
holds the WebSocket calls that are `waiting`, `answered` or `lost`. `requests` and
`answers` are under way. The actions are the ways through `_rpc` and
`_request`: `Refused`, `NotConnected`, `Asks`, `WriteBreaks`, then `Receive` by the
reader and `Returns` by the caller, or `TimesOut`, `ReturnsLost`, `HttpFails`.
`Disconnect` and `LogsIn` are what `AsyncClient` has in detail. `Serve` and `Reject`
are the server, which may perform a command long after its caller has gone and
answer with the right body, one of another operation, none, or one whose decoding
fails (`Bodies`); a body that cannot be decoded leaves a WebSocket call to its
timeout (`Receive`) and raises from an HTTP call (`HttpEnd`). `asked`, `performed`,
`misled` are history.

`CallService` has one state per call: asked or not, performed or not, and its end,
`refused` before anything was asked, `value`, `rejected`, or `unknown`. The mapping
(`AbstractEnd`) takes an end for `value` unless the server answered wrongly.

## 3. What TLC checks

`CHECK_DEADLOCK FALSE` stands in every cfg but that of `Delivery`, since a closed client, and a closed
connection all of whose payloads are taken, really stop.

| Run | Question | Result |
|---|---|---|
| `client_safety` | Whatever await is cancelled and in whatever order connects, requests, answers and a close come: is anybody stranded, anything leaked, any request orphaned or answered twice, any closed client revived, any retrying given up without a reason? | holds, 1.4 million states |
| `client_liveness` | Do both of two `close()` return, do RPCs end, does `connect()` end and does the client come back? | holds, 54 thousand states |
| `client_backoff` | Does the backoff start again after a connection that worked? | violated, finding 1 |
| `client_shared_connect` | Is the caller that was cancelled the only one to give up? | violated, finding 2 |
| `delivery` | Is anything acknowledged, handed on or returned before it is stored, anything handed on twice, anything hidden that was not interrupted? Does the client implement `MessageLog`? Does a message arrive at last? | holds, 26 thousand states |
| `relay` | Window and buffers, order and the three reasons of loss at the receiver, the ends of `connect()`, of a full window, of a waiting `send()` and of the tasks of a closed connection, in all modes and on both sides? Is a frame read as it was sent, whatever a newer peer adds to it, and what is left of one that was cut? | holds, 499 thousand states |
| `operations` | Can a call return the result of another, or an exception mislead its caller? Do the two clients accept the same arguments and ask for the same? Do they implement `CallService`? | holds, 303 thousand states |
| `relay_retransmit` | Is every unacknowledged frame sent again? | violated, finding 3 |
| `relay_ack` | Are acknowledgements cumulative? | violated, finding 4 |
| `relay_at_least_once` | Is an acknowledged AT_LEAST_ONCE payload delivered? | violated, finding 5 |
| `relay_first_frame` | Is an acknowledged RELIABLE_ORDERED payload delivered, unless the queue is full? | violated, finding 7 |
| `relay_incoming` | Is an incoming connection given to the handler? | violated, finding 6 |

**Bounds.** *Client:* two callers of `connect()` are enough for one that waits
while another is cancelled or calls again; two of `close()` for one that finds
the client closed. `MaxRequests` bounds the requests of one behaviour, pings
included: two give an answered and a lost one, the ping's and the application's,
one per connection across a reconnect. The number of connections is not bounded.
`MaxDelay` only matters for the delay itself, which has its own run; elsewhere it
is 1. *Delivery:* a message of another user and an own one, which can be pushed and
answered together; connections, crashes and new clients are not bounded. *Relay:* frame 0, the special one,
leaves the window as frame 1 enters it, so the fifth payload finds a window of three
full; `MaxRetransmits = 1` reaches both the counted round and the one that gives up; a receive queue of two against five
sequence numbers and a window of three overflows and reorders; one cancelled
`receive()` is one leaked task. Of the setups that send, some have a `wait_for` that may
forget a cancellation and some have not, and one has a send timeout. Sending and receiving share only `handle_packet`
and the state of the connection, so a setup does mostly one of them. Peer frames repeat without a bound. Queue sizes
are far smaller than the code's (`send_buffer_size` over 1024, and 256) so that they fill.
*Codec:* words of 7 bits in bytes of 2, so that a varint has up to four bytes and
the last one reaches beyond the word, as the tenth does in the code; all values of
a word, all frame kinds, both signs, unknown fields of every wire type before,
between and after the known ones, and every prefix of every such frame.
*Operations:* every operation over both transports with every combination of good and bad
arguments that its checks can tell apart (`Everything`), beside a call that takes an
id and is refused while its request is built (`RefusedLate`); and one operation of
every kind of answer beside a call whose answer could be taken for its own
(`Rivals`). `Int32Max` and `Int64Max` are 2 and 4; limits and
event cursors lie on both sides of the highest and the lowest number, ids of the highest. An answer can only be mistaken for that of one other call at a time, so
two are enough; the proof is for any number. Disconnections and logins are not bounded.

**Fairness.** `FairSpec` of `AsyncClient` (`Scheduling`) has only what asyncio
and the library give: a task whose await is over is resumed, a cancelled task is
resumed with its error, a timer fires, and the library's `ws.close()`, which has
a timeout of its own, ends (also for the reader of that socket: the strong
fairness of `ReadFails` while the socket is closing, since handling messages
already buffered may interrupt it again and again). A write ends by success
or failure. A login read is assumed to end: the code has no timeout there, which
is listed as a hazard. New requests, new callers, lost connections and pings are
never assumed. `ServerRecovers` is a hypothesis inside `ConnectTerminates` and
`Reconnects`, not part of the specification: if store, network and server do not
fail every attempt, and login not every time, then the client is connected
again. Likewise `AllRecovers` in `EveryMessageArrives`: attempts, logins, pushes and stores
that are tried again and again succeed some time (for some push, not for each), a
closed client is followed by another, and crashes stop at last unless the store
outlives them. There it also has to say that no connection lasts for ever, because a
message that could not be stored is only reported to `on_error` and not pushed again
before the next login. `FairSpec`
of `Delivery` and of `RelayConnection` assume that asyncio resumes tasks, timers
fire, callbacks return and an RPC ends one way or the other; of the server, the
network and the peer nothing. The timer of `send()` is one of these only where
`send_timeout_ms` is set (`PutTimesOut`): by default it is 0 and there is none, so
`WaitingSendEnds` says of a closed connection only that a `send()` with a timeout
ends. One without waits for ever there, because the send loop, the only consumer of
the queue, is cancelled (`relay.py` 424).

Each property of a passing run has a mutant in `PROJECT.json`, a plausible error
in the code (a missing cancellation, an entry that stays, an off-by-one), with
which that run finds it violated. The mutants stand before their originals in the
modules and are used nowhere.

## 4. Findings

1. *The backoff is never reset.* `_connect_and_serve` always returns an
   exception, so the branch that resets the delay (`client.py` 1230–1234) is dead;
   after one long outage every later reconnect starts from the delay it ended on.
   `README.md` and `docs/async-client.md` say it starts from
   `initial_reconnect_delay`.
2. *Cancelling one `connect()` cancels all.* They await one future without a
   shield (396).
3. *Frame 0 is lost for retransmission.* `_send_base` is 0 for "nothing sent" and
   for "frame 0 in flight"; the second frame steps over frame 0 (709). The window
   then holds one frame more than `window_size`, `_retransmit` no longer sends
   frame 0 again, its acknowledgement is ignored, and an idle connection is given
   up after `max_retransmits` rounds although the peer has acknowledged every frame.
4. *Acknowledgements are not cumulative.* `_handle_data` acknowledges each frame by
   its own number, `_handle_ack` and `types.py` read the number as cumulative, so
   a frame missing in front of it is no longer sent again.
5. *AT_LEAST_ONCE delivers nothing.* The acknowledgement is an RPC awaited in the
   read loop that would have to read its answer; it ends in an error before
   `put_nowait`. For RELIABLE_ORDERED the payload is queued first, so the same
   wait only stalls the reader for the request timeout per frame.
6. *Incoming connections are lost.* `accept_incoming` knows no peer and takes (0, 0)
   (185); sending OPEN_ACK raises `ValueError` (227), so the handler is not called. The
   connection stays in `_conns` with both its tasks, the read loop reports the error
   to `on_error`, and the peer's `connect()` times out.
7. *The first ordered payload is lost.* The sender numbers DATA frames from 0 (338,
   706), the receiver begins at 1 (340): in RELIABLE_ORDERED frame 0 looks like a
   repetition, is acknowledged and dropped. `types.py` 904 promises ordered delivery
   without loss or repetition.

Where `TransportsAgree` makes exceptions, the two clients differ
(`HttpIsStricter`, `WsIsStricter`, `TooLarge`, `SentOtherwise`):

* the HTTP client refuses profiles and configurations that are not JSON and the
  WebSocket client sends them;
* `upsert_user_metadata` checks `typed_value`, the value and the expiry of
  `system.visible_to_others` over HTTP only, and over the WebSocket takes `value`
  alone. This contradicts `types.py` 873–874, by which the WebSocket client encodes a
  `typed_value` locally ("WebSocket/protobuf 客户端会在本地先把它编码成 raw bytes"):
  `client.py` 764–765 raises `ValueError` when `value` is `None`;
* an empty `profile_json` is left out of a new user over HTTP and refused in
  `update_user` (`http.py` 337), no configuration is sent as `{}` over HTTP (777) and as
  nothing over the WebSocket. This contradicts `docs/http-client.md` 274, by which empty
  `profile_json` and `config_json` do not appear in the body ("不会出现在请求体中");
* `list_messages` does not check its user over HTTP, and filters by peer there only;
* a negative limit is left out over HTTP and sent over the WebSocket;
* a number that its protobuf field does not hold, a limit of 2^31 or an id or event
  sequence of 2^63, raises `ValueError` while the WebSocket request is built
  (`client.proto` 168–199, 421–424) and is sent over HTTP;
* the target session of a packet exists only over the WebSocket, and the node of the
  target is asked for twice over HTTP.

The two contradictions are reported here and not by a run of their own: they are
single lines, which the exceptions of `TransportsAgree` name. `ErrorsTellTheTruth`
has one: `ValueError`, by `docs/http-client.md` 335–336 the error of arguments that
fail a check, is also raised after an HTTP command was performed, when an
attachment's configuration is a string that the client takes for JSON
(`_json_value_to_bytes` leaves it as it is, `_attachment_payload` cannot parse it).

`_stop_reconnect`, which a login refused as `unauthorized` sets for good by
`docs/sdk-guide.md` 324 ("永久停止自动重连"), is assigned at every refusal
(`client.py` 1325): a later login, after another `connect()`, that is refused with
another code takes it back. `RunEndsForAReason` is about the other direction, a flag
that stops retries which are due.

The models also show, without a document that says otherwise: `close()` of a
relay connection whose CLOSE cannot be sent leaves it CLOSING (`CloseFails`), a
connection closed while OPEN is being sent starts tasks nobody cancels
(`OpenSent` in state `closed`, the exception of `ClosingEndsTasks`), in Python 3.11 a
`wait_for` that forgets a cancellation lets a closed connection go on sending what is
queued, a `send()` without a timeout waits for ever on a closed connection, and a failed or cancelled `connect()` leaves an
entry in `_conns`; an HTTP answer with an object of another operation is taken with
defaults for the fields it lacks, except that an attachment without a type raises
`ValueError` (`mapping.py` 1060) and a scan without items `ProtocolError` (991); a session reference that was cut in a frame is accepted;
a packet of another application that happens to parse as a frame is swallowed.

## 5. What is proved

All theorems hold for every value of the constants under `ClientAssumption`,
`DeliveryAssumption`, `RelayAssumption`, `RequestAssumption`, `ScenariosAssumption`,
`WidthAssumption` and `FramesAssumption` (types of the constants, positive delays,
window and queue sizes, transports there are, arguments of the annotated types, words
longer than bytes, frames in range), which TLC evaluates in the runs.

**AsyncClientProofs.** None of the invariants is inductive alone: that a session
matches its socket needs to know where the run task is, that no caller of
`connect()` is stranded needs to know when the task can end without signalling,
that a request is not orphaned needs the session. Together they are: the safety
properties hold each other up. `IInv` is the conjunction of

* `TypeOK`;
* `ControlInv == SessionMatchesConnection /\ NoSocketLeak /\ CloseReachesTheRunTask`;
* `RequestInv == NoOrphanedFuture /\ PendingTableIsTight`;
* `NoWaiterIsStranded`, `PingOnlyWhileServed`;
* `EndInv`: `RunEndsForAReason`, and that the error with which a connection ended is
  true (`Truthful`): a refusal has set `_stop_reconnect`, and only `close()` leads to
  `ClosedError` or a cancellation;
* `ClosersInv`: a `close()` that has begun has closed the client, and none has
  returned before the run task was over (with `ControlInv` and `RequestInv` it
  implies `ClosedClientIsQuiet`).

`IInv` holds initially and each action preserves it; the proof has one lemma or
step for each action. From `Spec => []IInv` follow `TypeCorrect`, `NoRequestIsOrphaned`,
`PendingIsTight`, `NobodyIsStranded`, `SessionIsConsistent`, `SocketsAreClosed`,
`CloseIsSeen`, `PingIsConfined`, `NeverGivesUp` (`RunEndsForAReason`), `CloseLeavesNothing`, and the
action properties `ClosedForGood` (`ClosedIsFinal`), `OneOutcome`
(`FirstOutcomeIsFinal`) and `ResultsStay` (`FirstResultWins`). The last needs one
more invariant, that an id not given out yet has no future (`FutureIdsAreFresh`),
and that every step either starts a request or leaves results alone (`FuturesStep`).

**DeliveryProofs.** The invariant adds to the properties themselves `FrameInv` (one
frame at a time, none without a connection), `StoreInv` (what the handling of a
frame already relies on, and that the login uses the cursors as they are) and
`PushInv`, which `AtMostOnce` needs: a push under way was never handed on, because
what was handed on had been named by the login or been pushed before on the same
connection. From it follow `TypeCorrect`, `KnownIsStored`, `HandedOnOnce`,
`NothingIsMissed`, `CursorsAreBacked`, and `Implements`: every step of
`Delivery` is one of `MessageLog` or leaves its variables alone.

**RelayConnectionProofs.** `WindowIsKept` proves `SendWindow` for every window
size. `SendWindow` alone is not inductive, because the step over frame 0 would
break it from a state with `sendBase = 0` and several frames out; `BaseLeavesZero`
(`sendBase = 0 => nextSeq <= 1`) excludes that state. `BufferIsBounded` proves
`ReorderBuffer`. `LifeInv` adds to `ClosedIsForgotten` that nothing has begun before
the OPEN that begins it, so that every caller of `_handle_close` has a registered
connection; from it follow `Forgotten` and `Advances`. `RecvInv` is
`DeliveredInOrder /\ NothingElseIsLost` with the types of what is received;
`DeliverRun` says what a run of `put_nowait` leaves in a queue with any room, `HeadKeeps`
what taking the front does, and `InOrder` and `LostOnlySo` follow for every window and
queue size; `LostOnlySo` speaks of all frames from 0 on and names the first as one of
its three reasons. `CountInv` bounds the rounds of retransmission: the task is over when
the limit is passed. The four invariants together give `TypeCorrect`.

**OperationsProofs.** The invariant says what "the answer is its own" rests on.
`NetInv`: a call has one request or one answer under way and not both, and an
answer is true of the call it was sent for (`Truthful`). `IdInv`: whatever is under
way with the id that a WebSocket call waits for came from that call; this needs that
no id under way is above `nextId`, for the step that takes a new one, and says nothing
of calls that are over, whose late answers find nobody. `EndInv`: what a call
holds is true of it and it has nothing else under way, which is why a
`ServerError` cannot be followed by a performance. `CallInv`: only calls that pass
their checks are ever asked. From `Invariant` follow `TypeCorrect`, `Truth`
(`ErrorsTellTheTruth`) and `Implements`: every step is one of `CallService` or leaves
its variables alone. They hold for any set of calls with any arguments.

**TransportProofs.** `AgreementHolds` proves `TransportsAgree` for any calls with any
arguments. The property speaks of two functions of the arguments, so the invariant
only has to say that arguments have the types of the annotations (`CallInv`); the work
is one lemma per operation (`CreateUserAgrees` … `MetricsAgrees`), each of which compares
the request of one client, through `Route`, with that of the other. The exceptions it
allows are the differences listed in section 4. Integers have any size, as they have in
Python: what a field of a protobuf message holds is `FitsMessage`, with `Int32Max` and
`Int64Max` as parameters. (A number of more than 4300 digits, which Python refuses to
print, would not get into a URL either.) That strings are what `str` says is taken from the annotations.

**NaturalRecursion, RelayWireProofs, RelayCodecProofs.** `EnvelopeSurvives`: every
envelope in range comes back from its encoding, with any of the unknown fields at any
place too, and of every prefix of the encoding the decoder makes nothing the envelope
has not. It holds for every width of bytes and words that `WidthAssumption` allows, so
also for 7 and 64 bits, which TLC cannot enumerate. `FramesComeBack` is
`FramesSurviveTheWire` for any set of frames.

The argument needs induction over numbers, offsets and pieces, and that the recursive
functions exist at all: a function defined by recursion is a `CHOOSE`, about which
nothing is known until some function has its equation. The library's theorems about both
take operators, which the provers cannot be given. `NaturalRecursion` therefore states
them for sets and functions, from the least element of a set of naturals: `Induction`,
`SizeInduction`, `IndexInduction`, and `Recursion` (a definition whose size descends has a
function). With it `TwoTo`, `Varint`, `VarintFrom`, `FieldsFrom` and `FlattenSeq` have
their equations (`TwoToDef`, `VarintDef`, `VarintFromDef`, `RuleHasFunction`,
`FlattenDef`). That the decoders' loops end is part of it: the size that descends is what
is left of the data, since every field that is read ends after its start
(`ReadFieldType`).

A piece of an encoding is then looked at inside any data, wherever it stands: data that
`Holds` it, and data that ends in it (`Cut`). `VarintRead` and `VarintCut` say what is
read of a varint in either case, `VarintFieldRead`, `BytesFieldRead`, `FixedFieldRead` and
their `…Cut` of a field. A piece `Takes` a message to another if decoding goes on
after it with that one, and `EndsIn` a set if decoding a part of it ends there;
both go from pieces to sequences of pieces (`TakesBoth`, `EndsInOne`, `FlattenTakes`).
What remains is one lemma per field of an envelope, with the values of the fields before
it (`FirstFields`), and one for the unknown fields. A session inside an envelope needs
the whole argument once more (`SessionRead`, `SessionCut`): it may be cut although the
envelope is not refused.

**Only model-checked.** Liveness under fairness (`CloseTerminates`,
`RpcsTerminate`, `ConnectTerminates`, `Reconnects`, `EveryMessageArrives`, `ConnectEnds`,
`FullWindowEnds`, `WaitingSendEnds`, `ClosingEndsTasks`) is out of the prover's reach and stays with TLC. Every
safety and action property of a passing run is stated by a theorem.

## 6. Not modelled

* The field-by-field conversions of `mapping.py` and the classes of `types.py`.
  They keep no state and decide nothing; a model of them would be the code once
  more. What of them can fail or alter data is in `Operations` (`WsCanFail`,
  `HttpEnd`, `Configs`), that a conversion or a store fails also in `AsyncClient`
  (`HandlingFails`, `ReadUnusable`).
* Password hashing (bcrypt), the URL of the WebSocket, logging, generated code.
* Callbacks that call back into the client. An RPC or a `connect()` awaited in a
  callback waits for the read loop that awaits the callback; the relay module
  shows the effect for its replies.
* `on_close` callbacks of a relay connection, and several connections at once:
  they share `_conns`, whose entries are apart, and the reader, of which
  `RelayConnection` has what one connection sees.
* Metadata values as bytes and numbers, and JSON beyond the kinds named above.
* Cancellation of the caller of `close()`, of the client or of a relay connection, while
  it waits: closers always wait to the end.
* Acknowledgements of frames that were never sent: `_handle_ack` has no upper check
  (`relay.py` 652), so a peer that invents them moves `_send_base` past `_next_seq`; the model
  assumes it does not (`ReadAck`), and `SendWindow` rests on that.
* Cancellation of an HTTP call. It ends like `HttpFails`, with the caller's own error.
* Real time: a timer may fire at any moment after it is set.

## 7. Order of work

`AsyncClient`, `RelayConnection` and `Delivery` came first, as the parts with the
most interleavings; then the codec and the accepting side of the relay; then the
operations, whose modules build on the RPC of `AsyncClient` and abstract its
connection. The proofs follow the modules: `AsyncClientProofs`, `DeliveryProofs`,
`RelayConnectionProofs`, `OperationsProofs`, then `TransportProofs` and the codec. What
would come next: a composition of two relay connections over one link; and the
safety part of the liveness properties as theorems, that is, that whoever waits has
something to wait for, as `NobodyIsStranded` says of `connect()`.
