---------------------------- MODULE HttpRequests ----------------------------
(***************************************************************************)
(* The same operations over HTTP (turntf/http.py), from the same arguments *)
(* to                                                                      *)
(*    ok       the checks, all of them before anything is sent             *)
(*    verb, path, at, with                                                 *)
(*             the request: a template, the ids and names that fill it,    *)
(*             and the query or body, which has only the fields the code   *)
(*             puts there                                                  *)
(*    expects, gives                                                       *)
(*             as in Requests                                              *)
(* and Route, the command that a server makes of a request.                *)
(***************************************************************************)
EXTENDS Requests

Users == "/users"
User == "/nodes/N/users/U"
UserMetadataKey == "/nodes/N/users/U/metadata/K"
UserMetadataScan == "/nodes/N/users/U/metadata"
UserMessages == "/nodes/N/users/U/messages"
UserAttachments == "/nodes/N/users/U/attachments"
UserAttachment == "/nodes/N/users/U/attachments/T/N/U"

NoFields == [f \in {} |-> {}]

Http(ok, verb, path, at, with, type) ==
    [ok |-> ok, verb |-> verb, path |-> path, at |-> at, with |-> with,
     expects |-> type, gives |-> type]

\* The fields of a record that the code has a reason to send.
Given(fields, given) == [f \in {g \in DOMAIN fields : given[g]} |-> fields[f]]

\* _json_bytes_to_value: bytes that are not JSON, none among them, are refused.
IsJson(text) == text \notin {"junk", "none"}

-----------------------------------------------------------------------------
(* Requests                                                                *)

HttpLogin(a) ==
    LET name == Strip(a.login_name)
        byName == name # "" IN
    Http(a.password # "unset" /\ ValidLogin(a) /\ ValidPassword(a.password),
         "POST", "/auth/login", NoFields,
         Given([password |-> a.password, login_name |-> name,
                node_id |-> a.node_id, user_id |-> a.user_id],
               [password |-> TRUE, login_name |-> byName,
                node_id |-> ~byName, user_id |-> ~byName]), "token")

HttpCreateUser(a) ==
    LET hasProfile == a.profile_json # "none" IN
    Http(/\ a.username # "" /\ a.role # "" /\ ValidPassword(a.password)
         /\ hasProfile => IsJson(a.profile_json),
         "POST", Users, NoFields,
         Given([username |-> a.username, role |-> a.role, login_name |-> a.login_name,
                password |-> a.password, profile |-> a.profile_json],
               [username |-> TRUE, role |-> TRUE, login_name |-> a.login_name # "",
                password |-> a.password # "unset", profile |-> hasProfile]), "User")

HttpCreateChannel(a) ==
    HttpCreateUser([a EXCEPT !.role = IF @ = "" THEN "channel" ELSE @])

\* Mutant of HttpListUsers: the name is sent as it was given.
HttpListUsersUnstripped(a) ==
    Http(ValidFilter(a), "GET", Users, NoFields,
         Given([name |-> a.name, uid |-> a.uid], [name |-> a.name # "", uid |-> a.uid # NoRef]),
         "list")

HttpListUsers(a) ==
    LET name == Strip(a.name) IN
    Http(ValidFilter(a), "GET", Users, NoFields,
         Given([name |-> name, uid |-> a.uid], [name |-> name # "", uid |-> a.uid # NoRef]),
         "list")

HttpGetUser(a) == Http(ValidRef(a.target), "GET", User, [user |-> a.target], NoFields, "User")

HttpUpdateUser(a) ==
    LET fields == [username |-> a.username, login_name |-> a.login_name,
                   password |-> a.password, profile |-> a.profile_json, role |-> a.role] IN
    Http(/\ ValidRef(a.target) /\ ValidPassword(a.password)
         /\ a.profile_json # "unset" => IsJson(a.profile_json),
         "PATCH", User, [user |-> a.target],
         Given(fields, [f \in DOMAIN fields |-> fields[f] # "unset"]), "User")

HttpDeleteUser(a) ==
    Http(ValidRef(a.target), "DELETE", User, [user |-> a.target], NoFields, "DeleteUserResult")

MetadataRequest(a, ok, verb, with) ==
    Http(ValidRef(a.owner) /\ ValidKey(a.key) /\ ok,
         verb, UserMetadataKey, [user |-> a.owner, key |-> a.key], with, "UserMetadata")

HttpGetUserMetadata(a) == MetadataRequest(a, TRUE, "GET", NoFields)
HttpDeleteUserMetadata(a) == MetadataRequest(a, TRUE, "DELETE", NoFields)

HttpUpsertUserMetadata(a) ==
    MetadataRequest(a, ValidUpsert(a), "PUT",
        Given([value |-> a.value, typed_value |-> a.typed, expires_at |-> a.expires_at],
              [value |-> a.typed = "unset", typed_value |-> a.typed # "unset",
               expires_at |-> a.expires_at # "unset"]))

HttpScanUserMetadata(a) ==
    Http(ValidRef(a.owner) /\ ValidScan(a),
         "GET", UserMetadataScan, [user |-> a.owner],
         Given([prefix |-> a.prefix, after |-> a.after, limit |-> a.limit],
               [prefix |-> a.prefix # <<>>, after |-> a.after # <<>>, limit |-> a.limit > 0]),
         "UserMetadataScanResult")

\* The filter by peer needs both of its ids; nothing is checked.
HttpListMessages(a) ==
    LET byPeer == a.peer_node_id # {} /\ a.peer_user_id # {} IN
    Http(TRUE, "GET", UserMessages, [user |-> a.target],
         Given([limit |-> a.limit, peer_node_id |-> a.peer_node_id,
                peer_user_id |-> a.peer_user_id],
               [limit |-> a.limit > 0, peer_node_id |-> byPeer, peer_user_id |-> byPeer]),
         "list")

HttpPostMessage(a) ==
    Http(ValidRef(a.target) /\ a.body # "none",
         "POST", UserMessages, [user |-> a.target], [body |-> a.body], "Message")

HttpPostPacket(a) ==
    Http(/\ PositiveInt(a.target_node_id) /\ ValidRef(a.target)
         /\ a.target_node_id = a.target[1]
         /\ a.body # "none" /\ ValidMode(a.delivery_mode),
         "POST", UserMessages, [user |-> a.target],
         [body |-> a.body, delivery_kind |-> "transient", delivery_mode |-> a.delivery_mode],
         "RelayAccepted")

HttpListClusterNodes(a) == Http(TRUE, "GET", "/cluster/nodes", NoFields, NoFields, "list")

HttpListNodeLoggedInUsers(a) ==
    Http(PositiveInt(a.node_id), "GET", "/cluster/nodes/N/logged-in-users",
         [node_id |-> a.node_id], NoFields, "list")

\* No bytes are sent as {}.
HttpUpsertAttachment(a) ==
    Http(/\ ValidRef(a.owner) /\ ValidRef(a.subject)
         /\ a.config_json # "none" => IsJson(a.config_json),
         "PUT", UserAttachment,
         [user |-> a.owner, attachment_type |-> a.attachment_type, subject |-> a.subject],
         [config_json |-> IF a.config_json = "none" THEN "object" ELSE a.config_json],
         "Attachment")

HttpDeleteAttachment(a) ==
    Http(ValidRef(a.owner) /\ ValidRef(a.subject), "DELETE", UserAttachment,
         [user |-> a.owner, attachment_type |-> a.attachment_type, subject |-> a.subject],
         NoFields, "Attachment")

HttpListAttachments(a) ==
    Http(ValidRef(a.owner), "GET", UserAttachments, [user |-> a.owner],
         Given([attachment_type |-> a.attachment_type],
               [attachment_type |-> a.attachment_type # "unset"]), "list")

HttpSubscribeChannel(a) ==
    As("Subscription",
       HttpUpsertAttachment(AttachmentOf(a.subscriber, a.channel, "channel_subscription")))
HttpUnsubscribeChannel(a) ==
    As("Subscription",
       HttpDeleteAttachment(AttachmentOf(a.subscriber, a.channel, "channel_subscription")))
HttpListSubscriptions(a) ==
    As("Subscriptions",
       HttpListAttachments([owner |-> a.subscriber,
                            attachment_type |-> "channel_subscription"]))
HttpBlockUser(a) ==
    As("BlacklistEntry",
       HttpUpsertAttachment(AttachmentOf(a.owner, a.blocked, "user_blacklist")))
HttpUnblockUser(a) ==
    As("BlacklistEntry",
       HttpDeleteAttachment(AttachmentOf(a.owner, a.blocked, "user_blacklist")))
HttpListBlockedUsers(a) ==
    As("BlacklistEntries",
       HttpListAttachments([owner |-> a.owner, attachment_type |-> "user_blacklist"]))

HttpListEvents(a) ==
    Http(TRUE, "GET", "/events", NoFields,
         Given([after |-> a.after, limit |-> a.limit],
               [after |-> a.after # 0, limit |-> a.limit > 0]), "list")

HttpOperationsStatus(a) ==
    Http(TRUE, "GET", "/ops/status", NoFields, NoFields, "OperationsStatus")

HttpMetrics(a) == Http(TRUE, "GET", "/metrics", NoFields, NoFields, "str")

-----------------------------------------------------------------------------
(* What a server makes of a request: the command, with the value that an   *)
(* omitted field stands for. External, from how http.py uses it.           *)

RouteUser(r, Field(_, _)) ==
    CASE r.verb = "GET" -> [do |-> "get_user", user |-> r.at.user]
      [] r.verb = "DELETE" -> [do |-> "delete_user", user |-> r.at.user]
      [] r.verb = "PATCH" ->
            [do |-> "update_user", user |-> r.at.user,
             username |-> Field("username", "unset"), login_name |-> Field("login_name", "unset"),
             password |-> Field("password", "unset"), role |-> Field("role", "unset"),
             profile_json |-> Field("profile", "unset")]

RouteMetadata(r, Field(_, _)) ==
    CASE r.verb = "GET" ->
            [do |-> "get_user_metadata", owner |-> r.at.user, key |-> r.at.key]
      [] r.verb = "DELETE" ->
            [do |-> "delete_user_metadata", owner |-> r.at.user, key |-> r.at.key]
      [] r.verb = "PUT" ->
            [do |-> "upsert_user_metadata", owner |-> r.at.user, key |-> r.at.key,
             value |-> IF "typed_value" \in DOMAIN r.with
                       THEN RawValue[r.with.typed_value] ELSE r.with.value,
             expires_at |-> Field("expires_at", "unset")]

RouteMessages(r, Field(_, _)) ==
    CASE r.verb = "GET" ->
            [do |-> "list_messages", user |-> r.at.user, limit |-> Field("limit", 0),
             peer_node_id |-> Field("peer_node_id", {}), peer_user_id |-> Field("peer_user_id", {})]
      [] r.verb = "POST" /\ "delivery_kind" \in DOMAIN r.with ->
            [do |-> "send_packet", target |-> r.at.user, body |-> r.with.body,
             delivery_mode |-> r.with.delivery_mode, target_session |-> {}]
      [] OTHER -> [do |-> "send_message", target |-> r.at.user, body |-> r.with.body]

RouteAttachment(r) ==
    CASE r.verb = "PUT" ->
            [do |-> "upsert_user_attachment", owner |-> r.at.user, subject |-> r.at.subject,
             attachment_type |-> r.at.attachment_type, config_json |-> r.with.config_json]
      [] r.verb = "DELETE" ->
            [do |-> "delete_user_attachment", owner |-> r.at.user, subject |-> r.at.subject,
             attachment_type |-> r.at.attachment_type]

Route(r) ==
    LET Field(f, omitted) == IF f \in DOMAIN r.with THEN r.with[f] ELSE omitted IN
    CASE r.path = "/auth/login" ->
            [do |-> "login", password |-> r.with.password, login_name |-> Field("login_name", ""),
             node_id |-> Field("node_id", {}), user_id |-> Field("user_id", {})]
      [] r.path = Users /\ r.verb = "POST" ->
            [do |-> "create_user", username |-> r.with.username, role |-> r.with.role,
             login_name |-> Field("login_name", ""), password |-> Field("password", ""),
             profile_json |-> Field("profile", "none")]
      [] r.path = Users /\ r.verb = "GET" ->
            [do |-> "list_users", name |-> Field("name", ""), uid |-> Field("uid", NoRef)]
      [] r.path = User -> RouteUser(r, Field)
      [] r.path = UserMetadataKey -> RouteMetadata(r, Field)
      [] r.path = UserMetadataScan ->
            [do |-> "scan_user_metadata", owner |-> r.at.user, prefix |-> Field("prefix", <<>>),
             after |-> Field("after", <<>>), limit |-> Field("limit", 0)]
      [] r.path = UserMessages -> RouteMessages(r, Field)
      [] r.path = UserAttachment -> RouteAttachment(r)
      [] r.path = UserAttachments ->
            [do |-> "list_user_attachments", owner |-> r.at.user,
             attachment_type |-> Field("attachment_type", "unset")]
      [] r.path = "/events" ->
            [do |-> "list_events", after |-> Field("after", 0), limit |-> Field("limit", 0)]
      [] r.path = "/cluster/nodes" -> [do |-> "list_cluster_nodes"]
      [] r.path = "/cluster/nodes/N/logged-in-users" ->
            [do |-> "list_node_logged_in_users", node_id |-> r.at.node_id]
      [] r.path = "/ops/status" -> [do |-> "operations_status"]
      [] r.path = "/metrics" -> [do |-> "metrics"]

=============================================================================
