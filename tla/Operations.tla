----------------------------- MODULE Operations -----------------------------
(***************************************************************************)
(* Operations of one client under way together, over its WebSocket (_rpc   *)
(* of turntf/client.py) and over HTTP (_request of turntf/http.py), and a  *)
(* server that answers in any order, late, never or wrongly. A WebSocket   *)
(* answer names only the id of its request; how the link itself comes and  *)
(* goes, and closing the client, are AsyncClient's.                        *)
(*                                                                         *)
(* The answer to a command has a body, named by the type the client makes  *)
(* of it, or "error", or "unreadable" when making that type fails.         *)
(***************************************************************************)
EXTENDS HttpRequests, FiniteSets

CONSTANTS
    Calls,      \* the calls the application makes, each once
    Scenarios   \* what they may be: functions from Calls to [via, op, args]

VARIABLES
    up,         \* the client is logged in (_ws)
    nextId,     \* _request_id
    call,       \* what is called, when it is
    pc,         \* where its task is: "waiting" on a future or a response
    id,         \* its key in _pending
    got,        \* the answer its future or response has
    end,        \* how it ended
    requests,   \* with the server or on the way to it
    answers,    \* on the way back
    asked,      \* history: calls the server may have heard of
    performed,  \* history: how often the command of each was performed
    misled      \* history: calls whose answer was not what the server did

netVars == <<requests, answers>>
history == <<asked, performed, misled>>
vars == <<up, nextId, call, pc, id, got, end, netVars, history>>

-----------------------------------------------------------------------------
(* Operations, by name                                                     *)

WsRequest(op, a) ==
    CASE op = "ping" -> Ping(a)
      [] op \in {"send_message", "post_message"} -> SendMessage(a)
      [] op \in {"send_packet", "post_packet"} -> SendPacket(a)
      [] op = "create_user" -> CreateUser(a)
      [] op = "create_channel" -> CreateChannel(a)
      [] op = "list_users" -> ListUsers(a)
      [] op = "get_user" -> GetUser(a)
      [] op = "update_user" -> UpdateUser(a)
      [] op = "delete_user" -> DeleteUser(a)
      [] op = "get_user_metadata" -> GetUserMetadata(a)
      [] op = "upsert_user_metadata" -> UpsertUserMetadata(a)
      [] op = "delete_user_metadata" -> DeleteUserMetadata(a)
      [] op = "scan_user_metadata" -> ScanUserMetadata(a)
      [] op = "upsert_attachment" -> UpsertAttachment(a)
      [] op = "delete_attachment" -> DeleteAttachment(a)
      [] op = "list_attachments" -> ListAttachments(a)
      [] op \in {"subscribe_channel", "create_subscription"} -> SubscribeChannel(a)
      [] op = "unsubscribe_channel" -> UnsubscribeChannel(a)
      [] op = "list_subscriptions" -> ListSubscriptions(a)
      [] op = "block_user" -> BlockUser(a)
      [] op = "unblock_user" -> UnblockUser(a)
      [] op = "list_blocked_users" -> ListBlockedUsers(a)
      [] op = "list_messages" -> ListMessages(a)
      [] op = "list_events" -> ListEvents(a)
      [] op = "list_cluster_nodes" -> ListClusterNodes(a)
      [] op = "list_node_logged_in_users" -> ListNodeLoggedInUsers(a)
      [] op = "resolve_user_sessions" -> ResolveUserSessions(a)
      [] op = "operations_status" -> OperationsStatus(a)
      [] op = "metrics" -> Metrics(a)

HttpRequest(op, a) ==
    CASE op = "login" -> HttpLogin(a)
      [] op = "post_message" -> HttpPostMessage(a)
      [] op = "post_packet" -> HttpPostPacket(a)
      [] op = "create_user" -> HttpCreateUser(a)
      [] op = "create_channel" -> HttpCreateChannel(a)
      [] op = "list_users" -> HttpListUsers(a)
      [] op = "get_user" -> HttpGetUser(a)
      [] op = "update_user" -> HttpUpdateUser(a)
      [] op = "delete_user" -> HttpDeleteUser(a)
      [] op = "get_user_metadata" -> HttpGetUserMetadata(a)
      [] op = "upsert_user_metadata" -> HttpUpsertUserMetadata(a)
      [] op = "delete_user_metadata" -> HttpDeleteUserMetadata(a)
      [] op = "scan_user_metadata" -> HttpScanUserMetadata(a)
      [] op = "upsert_attachment" -> HttpUpsertAttachment(a)
      [] op = "delete_attachment" -> HttpDeleteAttachment(a)
      [] op = "list_attachments" -> HttpListAttachments(a)
      [] op \in {"subscribe_channel", "create_subscription"} -> HttpSubscribeChannel(a)
      [] op = "unsubscribe_channel" -> HttpUnsubscribeChannel(a)
      [] op = "list_subscriptions" -> HttpListSubscriptions(a)
      [] op = "block_user" -> HttpBlockUser(a)
      [] op = "unblock_user" -> HttpUnblockUser(a)
      [] op = "list_blocked_users" -> HttpListBlockedUsers(a)
      [] op = "list_messages" -> HttpListMessages(a)
      [] op = "list_events" -> HttpListEvents(a)
      [] op = "list_cluster_nodes" -> HttpListClusterNodes(a)
      [] op = "list_node_logged_in_users" -> HttpListNodeLoggedInUsers(a)
      [] op = "operations_status" -> HttpOperationsStatus(a)
      [] op = "metrics" -> HttpMetrics(a)

Request(k) == IF k.via = "ws" THEN WsRequest(k.op, k.args) ELSE HttpRequest(k.op, k.args)

\* The checks that come before anything is sent, and what is sent if they pass.
Passes(k) == Request(k).ok /\ (k.via = "ws" => Request(k).builds)
Command(k) == IF k.via = "ws" THEN Request(k).cmd ELSE Route(Request(k))

\* What the client takes for an answer of the right kind.
AnswerTypes ==
    {"None", "Message", "RelayAccepted", "User", "list", "DeleteUserResult", "UserMetadata",
     "UserMetadataScanResult", "Attachment", "ResolvedUserSessions", "OperationsStatus", "str",
     "token"}

\* The operations of each client and of both.
OnlyWs == {"ping", "send_message", "send_packet", "resolve_user_sessions"}
OnlyHttp == {"login"}
OnBoth ==
    {"post_message", "post_packet", "create_user", "create_channel", "list_users", "get_user",
     "update_user", "delete_user", "get_user_metadata", "upsert_user_metadata",
     "delete_user_metadata", "scan_user_metadata", "upsert_attachment", "delete_attachment",
     "list_attachments", "subscribe_channel", "create_subscription", "unsubscribe_channel",
     "list_subscriptions", "block_user", "unblock_user", "list_blocked_users", "list_messages",
     "list_events", "list_cluster_nodes", "list_node_logged_in_users", "operations_status",
     "metrics"}

\* The annotated types of arguments, where something depends on them.
WellTyped(op, a) ==
    /\ op \in {"create_user", "create_channel"} =>
          a \in [username : STRING, role : STRING, login_name : STRING,
                 profile_json : STRING, password : STRING]
    /\ op \in {"scan_user_metadata", "list_messages", "list_events"} => a.limit \in Int

ASSUME ScenariosAssumption ==
    \A s \in Scenarios, c \in Calls :
        /\ s[c].via \in {"ws", "http"} /\ s[c].op \in OnlyWs \cup OnlyHttp \cup OnBoth
        /\ WellTyped(s[c].op, s[c].args)
        /\ Request(s[c]).expects \in AnswerTypes

-----------------------------------------------------------------------------
(* Answers                                                                 *)

NoCommand == [do |-> "nothing"]
NoAnswer == [body |-> "none", of |-> NoCommand, plain |-> TRUE]

\* Subscriptions and blacklist entries are made of an attachment.
Converted(k) ==
    Request(k).gives \in {"Subscription", "Subscriptions", "BlacklistEntry", "BlacklistEntries"}

\* What the server may answer with when it performed the command: as it should,
\* with an answer of another operation, or with a field the client cannot read.
Bodies(k) == {Request(k).expects, "User", "None", "unreadable"}

\* An attachment can hold any JSON. A string is not "plain" when its first letter
\* makes _looks_like_json_text take it for JSON.
Configs(k) ==
    IF Command(k).do \in {"delete_user_attachment", "list_user_attachments"}
    THEN BOOLEAN ELSE {TRUE}

\* Decoders that can fail on a message that protobuf has parsed; for "Message"
\* it is the store that fails.
WsCanFail(k) ==
    \/ Request(k).expects \in {"Message", "RelayAccepted", "Attachment", "ResolvedUserSessions"}
    \/ Command(k).do = "list_user_attachments"

\* isinstance, which ping() leaves out.
WsEnd(k, answer) ==
    IF answer.body = "error" THEN {"ServerError"}
    ELSE IF Request(k).expects \in {"None", answer.body} THEN {"value"}
    ELSE {"ProtocolError"}

\* _items_from_payload, _expect_dict and the check of the token.
Shape(body) == IF body \in {"list", "None", "str", "token"} THEN body ELSE "dict"

\* What *_from_http makes of an object of another type: fields it has not are
\* taken to be empty, which no type of an attachment is, and a scan must have items.
OtherObject(type) ==
    CASE type = "Attachment" -> "ValueError"
      [] type = "UserMetadataScanResult" -> "ProtocolError"
      [] OTHER -> "value"

\* _expect_dict and its kin, then *_from_http. Metrics are any text; int() of what
\* is no number raises what it likes.
HttpEnd(k, answer) ==
    LET expected == Request(k).expects
        wanted == Shape(expected) IN
    IF answer.body = "error" THEN {"ProtocolError"}
    ELSE IF wanted = "str" THEN {"value"}
    ELSE IF answer.body = "unreadable" THEN
        {"ProtocolError"} \cup (IF wanted = "token" THEN {} ELSE {"ValueError", "TypeError"})
    ELSE IF Shape(answer.body) # wanted THEN {"ProtocolError"}
    ELSE IF answer.body # expected THEN {OtherObject(expected)}
    ELSE IF Converted(k) /\ ~answer.plain THEN {"ValueError"}
    ELSE {"value"}

Ends(k, answer) == IF k.via = "ws" THEN WsEnd(k, answer) ELSE HttpEnd(k, answer)

-----------------------------------------------------------------------------
(* Steps                                                                   *)

Init ==
    /\ up = TRUE /\ nextId = 0
    /\ call \in Scenarios
    /\ pc = [c \in Calls |-> "idle"]
    /\ id = [c \in Calls |-> 0]
    /\ got = [c \in Calls |-> NoAnswer]
    /\ end = [c \in Calls |-> "none"]
    /\ requests = {} /\ answers = {}
    /\ asked = {} /\ misled = {}
    /\ performed = [c \in Calls |-> 0]

\* Mutant of NextRequestId: the id of a request that is over is used again.
ReusedRequestId == Cardinality({c \in Calls : call[c].via = "ws" /\ pc[c] = "waiting"}) + 1

NextRequestId == nextId + 1

\* A call is made. Over the WebSocket it has an id from the moment its first
\* checks pass.
Calling(c) ==
    /\ pc[c] = "idle"
    /\ nextId' = IF call[c].via = "ws" /\ Request(call[c]).ok THEN NextRequestId ELSE nextId

Id(c) == IF call[c].via = "ws" THEN nextId' ELSE 0

EndsWith(c, outcome) ==
    /\ end' = [end EXCEPT ![c] = outcome]
    /\ pc' = [pc EXCEPT ![c] = "done"]

Fails(c, outcome) ==
    /\ Calling(c)
    /\ EndsWith(c, outcome)
    /\ UNCHANGED <<up, call, id, got, netVars, history>>

Refused(c) == ~Passes(call[c]) /\ Fails(c, "ValueError")

NotConnected(c) ==
    /\ Passes(call[c]) /\ call[c].via = "ws" /\ ~up
    /\ Fails(c, "NotConnectedError")

Asks(c) ==
    /\ Passes(call[c]) /\ (call[c].via = "ws" => up)
    /\ Calling(c)
    /\ pc' = [pc EXCEPT ![c] = "waiting"]
    /\ id' = [id EXCEPT ![c] = Id(c)]
    /\ requests' = requests \cup {[from |-> c, id |-> Id(c), live |-> TRUE]}
    /\ asked' = asked \cup {c}
    /\ UNCHANGED <<up, call, got, end, answers, performed, misled>>

\* ws.send raises: the server has the request or has not.
WriteBreaks(c) ==
    /\ Passes(call[c]) /\ call[c].via = "ws" /\ up
    /\ Calling(c)
    /\ EndsWith(c, "ConnectionError")
    /\ requests' \in {requests, requests \cup {[from |-> c, id |-> Id(c), live |-> FALSE]}}
    /\ asked' = asked \cup {c}
    /\ UNCHANGED <<up, call, id, got, answers, performed, misled>>

\* The server performs a command, and answers if anyone is there to read it.
Serve(r) ==
    LET k == call[r.from] IN
    \E body \in Bodies(k), plain \in Configs(k) :
        /\ body = "unreadable" => k.via = "http" \/ WsCanFail(k)
        /\ requests' = requests \ {r}
        /\ performed' = [performed EXCEPT ![r.from] = @ + 1]
        /\ IF r.live
           THEN /\ answers' = answers \cup
                     {[from |-> r.from, id |-> r.id,
                       answer |-> [body |-> body, of |-> Command(k), plain |-> plain]]}
                /\ misled' = IF body = Request(k).expects THEN misled ELSE misled \cup {r.from}
           ELSE UNCHANGED <<answers, misled>>
        /\ UNCHANGED <<up, nextId, call, pc, id, got, end, asked>>

\* The server refuses: an error envelope, or a status that is not expected.
Reject(r) ==
    /\ requests' = requests \ {r}
    /\ answers' = IF r.live
                  THEN answers \cup {[from |-> r.from, id |-> r.id,
                                      answer |-> [NoAnswer EXCEPT !.body = "error"]]}
                  ELSE answers
    /\ UNCHANGED <<up, nextId, call, pc, id, got, end, history>>

\* _resolve_pending finds the future by the id alone.
Resolves(a, c) == call[c].via = "ws" /\ pc[c] = "waiting" /\ id[c] = a.id

Arrives(a, c) ==
    /\ got' = [got EXCEPT ![c] = a.answer]
    /\ pc' = [pc EXCEPT ![c] = "answered"]

\* _handle_server_envelope: an answer that cannot be read, or that nobody waits
\* for, resolves no future.
Receive(a) ==
    /\ call[a.from].via = "ws"
    /\ answers' = answers \ {a}
    /\ \/ a.answer.body # "unreadable" /\ \E c \in Calls : Resolves(a, c) /\ Arrives(a, c)
       \/ /\ a.answer.body = "unreadable" \/ \A c \in Calls : ~Resolves(a, c)
          /\ UNCHANGED <<got, pc>>
    /\ UNCHANGED <<up, nextId, call, id, end, requests, history>>

ReceiveHttp(a) ==
    /\ call[a.from].via = "http"
    /\ answers' = answers \ {a}
    /\ Arrives(a, a.from)
    /\ UNCHANGED <<up, nextId, call, id, end, requests, history>>

Returns(c) ==
    /\ pc[c] = "answered"
    /\ \E outcome \in Ends(call[c], got[c]) : EndsWith(c, outcome)
    /\ UNCHANGED <<up, nextId, call, id, got, netVars, history>>

\* Mutant of ReturnsLost: pending requests fail as if they had not been sent.
ReturnsNotConnected(c) ==
    /\ pc[c] = "lost"
    /\ EndsWith(c, "NotConnectedError")
    /\ UNCHANGED <<up, nextId, call, id, got, netVars, history>>

ReturnsLost(c) ==
    /\ pc[c] = "lost"
    /\ EndsWith(c, "DisconnectedError")
    /\ UNCHANGED <<up, nextId, call, id, got, netVars, history>>

\* Mutant of TimesOut: the entry stays in _pending.
TimesOutKeepsEntry(c) ==
    /\ pc[c] \in {"waiting", "answered", "lost"} /\ call[c].via = "ws"
    /\ end[c] = "none"
    /\ end' = [end EXCEPT ![c] = "TimeoutError"]
    /\ UNCHANGED <<up, nextId, call, pc, id, got, netVars, history>>

\* wait_for expires or the caller is cancelled, at worst when the answer is there.
TimesOut(c) ==
    /\ pc[c] \in {"waiting", "answered", "lost"} /\ call[c].via = "ws"
    /\ EndsWith(c, "TimeoutError")
    /\ UNCHANGED <<up, nextId, call, id, got, netVars, history>>

\* Nobody reads what comes back for these calls.
Abandoned(calls) ==
    /\ requests' = {[r EXCEPT !.live = @ /\ r.from \notin calls] : r \in requests}
    /\ answers' = {a \in answers : a.from \notin calls}

\* httpx raises: connecting, sending, reading, or its own timeout.
HttpFails(c) ==
    /\ pc[c] = "waiting" /\ call[c].via = "http"
    /\ EndsWith(c, "ConnectionError")
    /\ Abandoned({c})
    /\ UNCHANGED <<up, nextId, call, id, got, history>>

OverWs == {c \in Calls : call[c].via = "ws"}

\* The connection ends: _fail_all_pending.
Disconnect ==
    /\ up /\ up' = FALSE
    /\ pc' = [c \in Calls |-> IF c \in OverWs /\ pc[c] = "waiting" THEN "lost" ELSE pc[c]]
    /\ Abandoned(OverWs)
    /\ UNCHANGED <<nextId, call, id, got, end, history>>

\* Ids go on where they were.
LogsIn ==
    /\ ~up /\ up' = TRUE
    /\ UNCHANGED <<nextId, call, pc, id, got, end, netVars, history>>

CallStep(c) ==
    \/ Refused(c) \/ NotConnected(c) \/ Asks(c) \/ WriteBreaks(c)
    \/ Returns(c) \/ ReturnsLost(c) \/ TimesOut(c) \/ HttpFails(c)

Next ==
    \/ \E c \in Calls : CallStep(c)
    \/ \E r \in requests : Serve(r) \/ Reject(r)
    \/ \E a \in answers : Receive(a) \/ ReceiveHttp(a)
    \/ Disconnect \/ LogsIn

Spec == Init /\ [][Next]_vars

-----------------------------------------------------------------------------
(* Properties                                                              *)

Outcomes ==
    {"value", "ValueError", "TypeError", "NotConnectedError", "ConnectionError", "ServerError",
     "ProtocolError", "TimeoutError", "DisconnectedError"}

\* A call is over when its entry is gone from _pending, and then only.
TypeOK ==
    /\ up \in BOOLEAN /\ nextId \in Nat
    /\ pc \in [Calls -> {"idle", "waiting", "answered", "lost", "done"}]
    /\ id \in [Calls -> Nat] /\ performed \in [Calls -> Nat]
    /\ end \in [Calls -> Outcomes \cup {"none"}]
    /\ \A c \in Calls : pc[c] = "done" <=> end[c] # "none"
    /\ DOMAIN got = Calls
    /\ asked \subseteq Calls /\ misled \subseteq Calls
    /\ requests \subseteq [from : asked, id : Nat, live : BOOLEAN]
    /\ \A a \in answers : a.from \in asked /\ a.id \in Nat

TellsTheTruth(c) ==
    LET http == call[c].via = "http" IN
    CASE end[c] = "NotConnectedError" -> c \notin asked
      [] end[c] = "ValueError" -> c \in asked => http /\ (c \in misled \/ Converted(call[c]))
      [] end[c] = "TypeError" -> http /\ c \in misled
      [] end[c] = "ServerError" -> performed[c] = 0 /\ \A r \in requests : r.from # c
      [] end[c] = "ProtocolError" -> c \in misled \/ (http /\ performed[c] = 0)
      [] OTHER -> TRUE

\* What the caller may conclude from an exception: after NotConnectedError nothing
\* was asked, nor after ValueError, but for an HTTP answer that could not be
\* converted; after ServerError it was not and will not be performed; after
\* ProtocolError the server did not answer as it should, which includes, over HTTP,
\* that it refused.
ErrorsTellTheTruth == \A c \in Calls : TellsTheTruth(c)

\* What http.py refuses and client.py sends.
HttpIsStricter(op, a) ==
    \/ op \in {"create_user", "create_channel"} /\ a.profile_json = "junk"
    \/ op = "update_user" /\ a.profile_json \in {"junk", "none"}
    \/ op = "upsert_attachment" /\ a.config_json = "junk"
    \/ op = "upsert_user_metadata" /\ ~ValidUpsert(a)
    \/ op = "post_packet" /\ a.target_node_id # a.target[1]

\* What client.py refuses and http.py sends, or has no argument for.
WsIsStricter(op, a) ==
    \/ op = "list_messages" /\ ~ValidRef(a.target)
    \/ op = "upsert_user_metadata" /\ a.value = "unset"
    \/ op = "post_packet" /\ a.target_session # {}

\* A number that JSON, a path or a query has room for, and protobuf has not.
TooLarge(op, a) == ~FitsMessage(WsRequest(op, a).cmd)

\* What both send, each its way.
SentOtherwise(op, a) ==
    \/ op \in {"list_messages", "list_events"} /\ a.limit < 0
    \/ op = "list_messages" /\ a.peer_node_id # {} /\ a.peer_user_id # {}
    \/ op = "upsert_attachment" /\ a.config_json = "none"
    \/ op = "post_packet" /\ a.target_session # {}

Agree(op, a) ==
    LET ws == [via |-> "ws", op |-> op, args |-> a]
        http == [via |-> "http", op |-> op, args |-> a]
    IN  /\ Passes(ws) => Passes(http) \/ HttpIsStricter(op, a)
        /\ Passes(http) => Passes(ws) \/ WsIsStricter(op, a) \/ TooLarge(op, a)
        /\ Passes(ws) /\ Passes(http) =>
              /\ Command(ws) = Command(http) \/ SentOtherwise(op, a)
              /\ Request(ws).gives = Request(http).gives

\* With those exceptions the two clients accept the same arguments, ask the server
\* for the same command with them, and return the same type.
TransportsAgree ==
    \A c \in {x \in Calls : pc[x] = "idle" /\ call[x].op \in OnBoth} :
        Agree(call[c].op, call[c].args)

\* The end a caller sees, in the terms of CallService.
AbstractEnd(c) ==
    IF end[c] = "none" THEN "none"
    ELSE IF c \notin asked THEN "refused"
    ELSE IF end[c] = "ServerError" THEN "rejected"
    ELSE IF end[c] = "value" /\ c \notin misled THEN "value"
    ELSE "unknown"

Service == INSTANCE CallService WITH
    command <- [c \in Calls |-> IF Passes(call[c]) THEN Command(call[c]) ELSE NoCommand],
    end <- [c \in Calls |-> AbstractEnd(c)],
    result <- [c \in Calls |-> IF AbstractEnd(c) = "value" THEN got[c].of ELSE NoCommand]

\* However answers are delayed, dropped by a lost connection or sent by a confused
\* server, the result a call returns is that of its own command, performed once.
ImplementsService == Service!Spec

=============================================================================
