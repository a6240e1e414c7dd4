-------------------------- MODULE TransportProofs --------------------------
(***************************************************************************)
(* The two clients agree: TransportsAgree of Operations for any arguments. *)
(* An operation is written twice in the code, once as a request over the   *)
(* WebSocket and once over HTTP; here the two are compared one operation   *)
(* at a time, through the command that a server makes of the HTTP request. *)
(***************************************************************************)
EXTENDS OperationsProofs

\* The two definitions of an operation agree on the arguments a.
Matches(op, a, ws, http) ==
    /\ ws.ok /\ ws.builds => http.ok \/ HttpIsStricter(op, a)
    /\ http.ok => (ws.ok /\ ws.builds) \/ WsIsStricter(op, a) \/ ~FitsMessage(ws.cmd)
    /\ ws.ok /\ ws.builds /\ http.ok => ws.cmd = Route(http) \/ SentOtherwise(op, a)
    /\ ws.gives = http.gives

-----------------------------------------------------------------------------
(* Route finds a request by its path; the templates are told apart by what *)
(* they are.                                                               *)

USE DEF Users, User, UserMetadataKey, UserMetadataScan, UserMessages, UserAttachment,
        UserAttachments, NoFields

-----------------------------------------------------------------------------
(* Users and channels                                                      *)

\* What is left out of the body is what a server takes for it; http.py alone reads the
\* profile as JSON.
LEMMA CreateUserAgrees ==
    ASSUME NEW a
    PROVE  Matches("create_user", a, CreateUser(a), HttpCreateUser(a))
  BY DEF Matches, Rpc, Http, Route, CreateUser, HttpCreateUser, Given, HttpIsStricter,
         IsJson

\* A channel is a user whose role has a default.
LEMMA CreateChannelAgrees ==
    ASSUME NEW a, WellTyped("create_channel", a)
    PROVE  Matches("create_channel", a, CreateChannel(a), HttpCreateChannel(a))
<1> DEFINE b == [a EXCEPT !.role = IF @ = "" THEN "channel" ELSE @]
<1>1. CreateChannel(a) = CreateUser(b) /\ HttpCreateChannel(a) = HttpCreateUser(b)
  BY DEF CreateChannel, HttpCreateChannel
<1>2. b.profile_json = a.profile_json
  BY DEF WellTyped
<1>3. Matches("create_user", b, CreateUser(b), HttpCreateUser(b))
  BY CreateUserAgrees
<1> QED
  BY <1>1, <1>2, <1>3 DEF Matches, HttpIsStricter, WsIsStricter, SentOtherwise

\* Both strip the name, and leave out an empty one and the zero reference.
LEMMA ListUsersAgrees ==
    ASSUME NEW a
    PROVE  Matches("list_users", a, ListUsers(a), HttpListUsers(a))
  BY DEF Matches, Rpc, Http, Route, ListUsers, HttpListUsers, Given

\* The reference is in the path.
LEMMA GetUserAgrees ==
    ASSUME NEW a
    PROVE  Matches("get_user", a, GetUser(a), HttpGetUser(a))
  BY DEF Matches, Rpc, Http, Route, GetUser, HttpGetUser, RouteUser

\* Only what is not None is in the body; http.py alone reads the profile as JSON.
LEMMA UpdateUserAgrees ==
    ASSUME NEW a
    PROVE  Matches("update_user", a, UpdateUser(a), HttpUpdateUser(a))
  BY DEF Matches, Rpc, Http, Route, UpdateUser, HttpUpdateUser, RouteUser, Given,
         HttpIsStricter, IsJson

\* The reference is in the path.
LEMMA DeleteUserAgrees ==
    ASSUME NEW a
    PROVE  Matches("delete_user", a, DeleteUser(a), HttpDeleteUser(a))
  BY DEF Matches, Rpc, Http, Route, DeleteUser, HttpDeleteUser, RouteUser

-----------------------------------------------------------------------------
(* Metadata of users                                                       *)

\* Owner and key are in the path.
LEMMA GetUserMetadataAgrees ==
    ASSUME NEW a
    PROVE  Matches("get_user_metadata", a, GetUserMetadata(a), HttpGetUserMetadata(a))
  BY DEF Matches, Rpc, Http, Route, GetUserMetadata, HttpGetUserMetadata, MetadataRequest,
         RouteMetadata

\* When both clients accept a value it is the raw one: client.py looks at no other.
LEMMA UpsertUserMetadataAgrees ==
    ASSUME NEW a
    PROVE  Matches("upsert_user_metadata", a, UpsertUserMetadata(a), HttpUpsertUserMetadata(a))
<1> DEFINE ws == UpsertUserMetadata(a)
           http == HttpUpsertUserMetadata(a)
<1>1. /\ ws.ok <=> ValidRef(a.owner) /\ ValidKey(a.key) /\ a.value # "unset"
      /\ http.ok <=> ValidRef(a.owner) /\ ValidKey(a.key) /\ ValidUpsert(a)
      /\ ws.builds <=> FitsMessage(ws.cmd)
      /\ ws.gives = http.gives
  BY DEF UpsertUserMetadata, HttpUpsertUserMetadata, MetadataRequest, Rpc, Http
<1>2. ASSUME ValidUpsert(a), a.value # "unset" PROVE a.typed = "unset"
  BY <1>2 DEF ValidUpsert
<1>3. ASSUME a.typed = "unset" PROVE ws.cmd = Route(http)
  BY <1>3 DEF UpsertUserMetadata, HttpUpsertUserMetadata, MetadataRequest, Rpc, Http, Route,
              RouteMetadata, Given
<1>4. ASSUME ValidUpsert(a), a.value = "unset" PROVE WsIsStricter("upsert_user_metadata", a)
  BY <1>4 DEF WsIsStricter
<1>5. ASSUME ~ValidUpsert(a) PROVE HttpIsStricter("upsert_user_metadata", a)
  BY <1>5 DEF HttpIsStricter
<1> QED
  BY <1>1, <1>2, <1>3, <1>4, <1>5 DEF Matches

\* Owner and key are in the path.
LEMMA DeleteUserMetadataAgrees ==
    ASSUME NEW a
    PROVE  Matches("delete_user_metadata", a, DeleteUserMetadata(a), HttpDeleteUserMetadata(a))
  BY DEF Matches, Rpc, Http, Route, DeleteUserMetadata, HttpDeleteUserMetadata,
         MetadataRequest, RouteMetadata

\* A limit of 0 is left out of the query; a negative one neither client accepts.
LEMMA ScanUserMetadataAgrees ==
    ASSUME NEW a, a.limit \in Int
    PROVE  Matches("scan_user_metadata", a, ScanUserMetadata(a), HttpScanUserMetadata(a))
<1>1. Route(HttpScanUserMetadata(a)) =
          [do |-> "scan_user_metadata", owner |-> a.owner, prefix |-> a.prefix,
           after |-> a.after, limit |-> IF a.limit > 0 THEN a.limit ELSE 0]
  BY DEF HttpScanUserMetadata, Http, Route, Given
<1>2. ASSUME ValidScan(a) PROVE a.limit = IF a.limit > 0 THEN a.limit ELSE 0
  BY <1>2 DEF ValidScan
<1>3. /\ ScanUserMetadata(a).ok <=> ValidRef(a.owner) /\ ValidScan(a)
      /\ HttpScanUserMetadata(a).ok <=> ValidRef(a.owner) /\ ValidScan(a)
      /\ ScanUserMetadata(a).builds <=> FitsMessage(ScanUserMetadata(a).cmd)
      /\ ScanUserMetadata(a).gives = HttpScanUserMetadata(a).gives
  BY DEF ScanUserMetadata, HttpScanUserMetadata, Rpc, Http
<1>4. ValidScan(a) => ScanUserMetadata(a).cmd = Route(HttpScanUserMetadata(a))
  BY <1>1, <1>2 DEF ScanUserMetadata, Rpc
<1> QED
  BY <1>3, <1>4 DEF Matches

-----------------------------------------------------------------------------
(* Attachments, and what is made of them                                   *)

\* Of what both accept, only an empty configuration is sent differently.
LEMMA UpsertAttachmentAgrees ==
    ASSUME NEW a
    PROVE  Matches("upsert_attachment", a, UpsertAttachment(a), HttpUpsertAttachment(a))
  BY DEF Matches, Rpc, Http, Route, UpsertAttachment, HttpUpsertAttachment, RouteAttachment,
         SentOtherwise, HttpIsStricter, IsJson

\* Everything is in the path.
LEMMA DeleteAttachmentAgrees ==
    ASSUME NEW a
    PROVE  Matches("delete_attachment", a, DeleteAttachment(a), HttpDeleteAttachment(a))
  BY DEF Matches, Rpc, Http, Route, DeleteAttachment, HttpDeleteAttachment, RouteAttachment

\* A type that is not given is left out of the query.
LEMMA ListAttachmentsAgrees ==
    ASSUME NEW a
    PROVE  Matches("list_attachments", a, ListAttachments(a), HttpListAttachments(a))
  BY DEF Matches, Rpc, Http, Route, ListAttachments, HttpListAttachments, Given

\* A subscription is an attachment whose configuration is an empty object.
LEMMA SubscribeChannelAgrees ==
    ASSUME NEW a
    PROVE  Matches("subscribe_channel", a, SubscribeChannel(a), HttpSubscribeChannel(a))
  BY DEF Matches, Rpc, Http, Route, SubscribeChannel, HttpSubscribeChannel, As,
         UpsertAttachment, HttpUpsertAttachment, AttachmentOf, RouteAttachment, IsJson

\* As delete_attachment.
LEMMA UnsubscribeChannelAgrees ==
    ASSUME NEW a
    PROVE  Matches("unsubscribe_channel", a, UnsubscribeChannel(a), HttpUnsubscribeChannel(a))
  BY DEF Matches, Rpc, Http, Route, UnsubscribeChannel, HttpUnsubscribeChannel, As,
         DeleteAttachment, HttpDeleteAttachment, AttachmentOf, RouteAttachment

\* As list_attachments, with the type given.
LEMMA ListSubscriptionsAgrees ==
    ASSUME NEW a
    PROVE  Matches("list_subscriptions", a, ListSubscriptions(a), HttpListSubscriptions(a))
  BY DEF Matches, Rpc, Http, Route, ListSubscriptions, HttpListSubscriptions, As,
         ListAttachments, HttpListAttachments, Given

\* A blacklist entry is an attachment whose configuration is an empty object.
LEMMA BlockUserAgrees ==
    ASSUME NEW a
    PROVE  Matches("block_user", a, BlockUser(a), HttpBlockUser(a))
  BY DEF Matches, Rpc, Http, Route, BlockUser, HttpBlockUser, As, UpsertAttachment,
         HttpUpsertAttachment, AttachmentOf, RouteAttachment, IsJson

\* As delete_attachment.
LEMMA UnblockUserAgrees ==
    ASSUME NEW a
    PROVE  Matches("unblock_user", a, UnblockUser(a), HttpUnblockUser(a))
  BY DEF Matches, Rpc, Http, Route, UnblockUser, HttpUnblockUser, As, DeleteAttachment,
         HttpDeleteAttachment, AttachmentOf, RouteAttachment

\* As list_attachments, with the type given.
LEMMA ListBlockedUsersAgrees ==
    ASSUME NEW a
    PROVE  Matches("list_blocked_users", a, ListBlockedUsers(a), HttpListBlockedUsers(a))
  BY DEF Matches, Rpc, Http, Route, ListBlockedUsers, HttpListBlockedUsers, As,
         ListAttachments, HttpListAttachments, Given

\* create_subscription is another name of subscribe_channel.
LEMMA CreateSubscriptionAgrees ==
    ASSUME NEW a
    PROVE  Matches("create_subscription", a, SubscribeChannel(a), HttpSubscribeChannel(a))
  BY SubscribeChannelAgrees DEF Matches, HttpIsStricter, WsIsStricter, SentOtherwise

-----------------------------------------------------------------------------
(* Messages, events and the cluster                                        *)

\* The reference is in the path, the body in the body.
LEMMA PostMessageAgrees ==
    ASSUME NEW a
    PROVE  Matches("post_message", a, SendMessage(a), HttpPostMessage(a))
  BY DEF Matches, Rpc, Http, Route, SendMessage, HttpPostMessage, RouteMessages

\* A packet is a message of kind transient; that the target's node is asked for twice, and
\* that a session cannot be named, are http.py's.
LEMMA PostPacketAgrees ==
    ASSUME NEW a
    PROVE  Matches("post_packet", a, SendPacket(a), HttpPostPacket(a))
  BY DEF Matches, Rpc, Http, Route, SendPacket, HttpPostPacket, RouteMessages,
         HttpIsStricter, WsIsStricter, SentOtherwise, ValidRef, PositiveInt

\* A limit that is not positive is left out, and the filter by peer unless it has both ids.
LEMMA ListMessagesAgrees ==
    ASSUME NEW a, a.limit \in Int
    PROVE  Matches("list_messages", a, ListMessages(a), HttpListMessages(a))
<1>1. Route(HttpListMessages(a)) =
          [do |-> "list_messages", user |-> a.target,
           limit |-> IF a.limit > 0 THEN a.limit ELSE 0,
           peer_node_id |-> IF a.peer_node_id # {} /\ a.peer_user_id # {}
                            THEN a.peer_node_id ELSE {},
           peer_user_id |-> IF a.peer_node_id # {} /\ a.peer_user_id # {}
                            THEN a.peer_user_id ELSE {}]
  BY DEF HttpListMessages, Http, Route, Given, RouteMessages
<1> QED
  BY <1>1 DEF Matches, ListMessages, HttpListMessages, Rpc, Http, WsIsStricter,
         SentOtherwise

\* A limit that is not positive and a zero cursor are left out.
LEMMA ListEventsAgrees ==
    ASSUME NEW a, a.limit \in Int
    PROVE  Matches("list_events", a, ListEvents(a), HttpListEvents(a))
<1>1. Route(HttpListEvents(a)) =
          [do |-> "list_events", after |-> a.after,
           limit |-> IF a.limit > 0 THEN a.limit ELSE 0]
  BY DEF HttpListEvents, Http, Route, Given
<1> QED
  BY <1>1 DEF Matches, ListEvents, HttpListEvents, Rpc, Http, SentOtherwise

\* There is nothing to send.
LEMMA ListClusterNodesAgrees ==
    ASSUME NEW a
    PROVE  Matches("list_cluster_nodes", a, ListClusterNodes(a), HttpListClusterNodes(a))
  BY DEF Matches, Rpc, Http, Route, ListClusterNodes, HttpListClusterNodes

\* The node is in the path.
LEMMA ListNodeLoggedInUsersAgrees ==
    ASSUME NEW a
    PROVE  Matches("list_node_logged_in_users", a,
                   ListNodeLoggedInUsers(a), HttpListNodeLoggedInUsers(a))
  BY DEF Matches, Rpc, Http, Route, ListNodeLoggedInUsers, HttpListNodeLoggedInUsers

\* There is nothing to send.
LEMMA OperationsStatusAgrees ==
    ASSUME NEW a
    PROVE  Matches("operations_status", a, OperationsStatus(a), HttpOperationsStatus(a))
  BY DEF Matches, Rpc, Http, Route, OperationsStatus, HttpOperationsStatus

\* There is nothing to send.
LEMMA MetricsAgrees ==
    ASSUME NEW a
    PROVE  Matches("metrics", a, Metrics(a), HttpMetrics(a))
  BY DEF Matches, Rpc, Http, Route, Metrics, HttpMetrics

-----------------------------------------------------------------------------
(* The property                                                            *)

\* What is compared are the two requests that Request chooses by name.
LEMMA AgreeIfMatches ==
    ASSUME NEW op, NEW a, Matches(op, a, WsRequest(op, a), HttpRequest(op, a))
    PROVE  Agree(op, a)
<1> DEFINE ws == [via |-> "ws", op |-> op, args |-> a]
           http == [via |-> "http", op |-> op, args |-> a]
<1>1. Request(ws) = WsRequest(op, a) /\ Request(http) = HttpRequest(op, a)
  BY DEF Request
<1>2. /\ Passes(ws) <=> WsRequest(op, a).ok /\ WsRequest(op, a).builds
      /\ Passes(http) <=> HttpRequest(op, a).ok
      /\ Command(ws) = WsRequest(op, a).cmd
      /\ Command(http) = Route(HttpRequest(op, a))
  BY <1>1 DEF Passes, Command
<1> QED
  BY <1>1, <1>2 DEF Agree, Matches, TooLarge

\* Every operation of both clients, with any arguments of the annotated types.
LEMMA OperationsAgree ==
    ASSUME NEW op \in OnBoth, NEW a, WellTyped(op, a)
    PROVE  Agree(op, a)
<1> SUFFICES Matches(op, a, WsRequest(op, a), HttpRequest(op, a))
  BY AgreeIfMatches
<1>1. CASE op \in {"create_user", "create_channel", "list_users", "get_user",
                 "update_user", "delete_user"}
  <2>1. CASE op = "create_user"
    BY <2>1, CreateUserAgrees DEF WsRequest, HttpRequest
  <2>2. CASE op = "create_channel"
    BY <2>2, CreateChannelAgrees DEF WsRequest, HttpRequest
  <2>3. CASE op = "list_users"
    BY <2>3, ListUsersAgrees DEF WsRequest, HttpRequest
  <2>4. CASE op = "get_user"
    BY <2>4, GetUserAgrees DEF WsRequest, HttpRequest
  <2>5. CASE op = "update_user"
    BY <2>5, UpdateUserAgrees DEF WsRequest, HttpRequest
  <2>6. CASE op = "delete_user"
    BY <2>6, DeleteUserAgrees DEF WsRequest, HttpRequest
  <2> QED
    BY <1>1, <2>1, <2>2, <2>3, <2>4, <2>5, <2>6
<1>2. CASE op \in {"get_user_metadata", "upsert_user_metadata", "delete_user_metadata",
                 "scan_user_metadata"}
  <2>1. CASE op = "get_user_metadata"
    BY <2>1, GetUserMetadataAgrees DEF WsRequest, HttpRequest
  <2>2. CASE op = "upsert_user_metadata"
    BY <2>2, UpsertUserMetadataAgrees DEF WsRequest, HttpRequest
  <2>3. CASE op = "delete_user_metadata"
    BY <2>3, DeleteUserMetadataAgrees DEF WsRequest, HttpRequest
  <2>4. CASE op = "scan_user_metadata"
    BY <2>4, ScanUserMetadataAgrees DEF WsRequest, HttpRequest, WellTyped
  <2> QED
    BY <1>2, <2>1, <2>2, <2>3, <2>4
<1>3. CASE op \in {"upsert_attachment", "delete_attachment", "list_attachments"}
  <2>1. CASE op = "upsert_attachment"
    BY <2>1, UpsertAttachmentAgrees DEF WsRequest, HttpRequest
  <2>2. CASE op = "delete_attachment"
    BY <2>2, DeleteAttachmentAgrees DEF WsRequest, HttpRequest
  <2>3. CASE op = "list_attachments"
    BY <2>3, ListAttachmentsAgrees DEF WsRequest, HttpRequest
  <2> QED
    BY <1>3, <2>1, <2>2, <2>3
<1>4. CASE op \in {"subscribe_channel", "create_subscription", "unsubscribe_channel",
                 "list_subscriptions", "block_user", "unblock_user",
                 "list_blocked_users"}
  <2>1. CASE op = "subscribe_channel"
    BY <2>1, SubscribeChannelAgrees DEF WsRequest, HttpRequest
  <2>2. CASE op = "create_subscription"
    BY <2>2, CreateSubscriptionAgrees DEF WsRequest, HttpRequest
  <2>3. CASE op = "unsubscribe_channel"
    BY <2>3, UnsubscribeChannelAgrees DEF WsRequest, HttpRequest
  <2>4. CASE op = "list_subscriptions"
    BY <2>4, ListSubscriptionsAgrees DEF WsRequest, HttpRequest
  <2>5. CASE op = "block_user"
    BY <2>5, BlockUserAgrees DEF WsRequest, HttpRequest
  <2>6. CASE op = "unblock_user"
    BY <2>6, UnblockUserAgrees DEF WsRequest, HttpRequest
  <2>7. CASE op = "list_blocked_users"
    BY <2>7, ListBlockedUsersAgrees DEF WsRequest, HttpRequest
  <2> QED
    BY <1>4, <2>1, <2>2, <2>3, <2>4, <2>5, <2>6, <2>7
<1>5. CASE op \in {"post_message", "post_packet", "list_messages", "list_events"}
  <2>1. CASE op = "post_message"
    BY <2>1, PostMessageAgrees DEF WsRequest, HttpRequest
  <2>2. CASE op = "post_packet"
    BY <2>2, PostPacketAgrees DEF WsRequest, HttpRequest
  <2>3. CASE op = "list_messages"
    BY <2>3, ListMessagesAgrees DEF WsRequest, HttpRequest, WellTyped
  <2>4. CASE op = "list_events"
    BY <2>4, ListEventsAgrees DEF WsRequest, HttpRequest, WellTyped
  <2> QED
    BY <1>5, <2>1, <2>2, <2>3, <2>4
<1>6. CASE op \in {"list_cluster_nodes", "list_node_logged_in_users",
                 "operations_status", "metrics"}
  <2>1. CASE op = "list_cluster_nodes"
    BY <2>1, ListClusterNodesAgrees DEF WsRequest, HttpRequest
  <2>2. CASE op = "list_node_logged_in_users"
    BY <2>2, ListNodeLoggedInUsersAgrees DEF WsRequest, HttpRequest
  <2>3. CASE op = "operations_status"
    BY <2>3, OperationsStatusAgrees DEF WsRequest, HttpRequest
  <2>4. CASE op = "metrics"
    BY <2>4, MetricsAgrees DEF WsRequest, HttpRequest
  <2> QED
    BY <1>6, <2>1, <2>2, <2>3, <2>4
<1> QED
  BY <1>1, <1>2, <1>3, <1>4, <1>5, <1>6 DEF OnBoth

\* TransportsAgree, for any calls with any arguments: whichever client makes an
\* operation, client.py and http.py accept the same arguments, ask for the same
\* command and return the same type, with the exceptions the property names.
THEOREM AgreementHolds == Spec => []TransportsAgree
<1>1. IInv => TransportsAgree
  <2> SUFFICES ASSUME IInv, NEW c \in Calls, call[c].op \in OnBoth
               PROVE  Agree(call[c].op, call[c].args)
    BY DEF TransportsAgree
  <2>1. WellTyped(call[c].op, call[c].args)
    BY ScenariosAssumption DEF IInv, CallInv
  <2> QED
    BY <2>1, OperationsAgree
<1> QED
  BY <1>1, Invariant, PTL

=============================================================================
