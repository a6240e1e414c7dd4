------------------------------ MODULE Requests ------------------------------
(***************************************************************************)
(* What the operations of turntf/client.py ask of the server, with the     *)
(* argument checks of turntf/validation.py: one definition per operation,  *)
(* from its arguments to                                                   *)
(*    ok       the checks before the request has an id                     *)
(*    builds   the checks made while it is built, when it has one          *)
(*    cmd      the command the server is given                             *)
(*    expects  the type of the answer that is accepted                     *)
(*    gives    the type of what is returned                                *)
(*                                                                         *)
(* A user reference is <<node_id, user_id>>, a key a sequence of letters.  *)
(* Payloads are told apart as far as some check does: "unset" is None,     *)
(* "none" no bytes, and of JSON there is an object, a string, a string     *)
(* whose first letter could begin other JSON ("textual"), and "junk".      *)
(***************************************************************************)
EXTENDS Integers, Sequences

CONSTANTS
    KeyMax,     \* _USER_METADATA_KEY_MAX_LENGTH
    ScanMax,    \* _USER_METADATA_SCAN_LIMIT_MAX
    Int32Max,   \* what the fields of client.proto hold: 2^31 - 1
    Int64Max    \* and 2^63 - 1

ASSUME RequestAssumption == {KeyMax, ScanMax, Int32Max, Int64Max} \subseteq Nat

NoRef == <<0, 0>>
Visible == <<"v">>      \* the key system.visible_to_others

-----------------------------------------------------------------------------
(* Checks of arguments                                                     *)

PositiveInt(n) == n > 0
ValidRef(r) == PositiveInt(r[1]) /\ PositiveInt(r[2])

ValidFragment(k) == Len(k) <= KeyMax /\ \A i \in DOMAIN k : k[i] # "?"
ValidKey(k) == k # <<>> /\ ValidFragment(k)

StartsWith(k, prefix) == Len(prefix) <= Len(k) /\ SubSeq(k, 1, Len(prefix)) = prefix

ValidScan(a) ==
    /\ ValidFragment(a.prefix) /\ ValidFragment(a.after)
    /\ a.limit >= 0 /\ a.limit <= ScanMax
    /\ a.prefix # <<>> /\ a.after # <<>> => StartsWith(a.after, a.prefix)

ValidMode(mode) == mode \in {"best_effort", "route_retry"}

ValidSession(s) == PositiveInt(s.serving_node_id) /\ s.session_id \notin {"", " "}

\* Filters come in a request or as keywords, not both; the zero reference is none.
ValidFilter(a) == ~a.mixed /\ (a.uid = NoRef \/ ValidRef(a.uid))
Strip(text) == IF text = " " THEN "" ELSE text

\* Exactly one of the two ids and the login name; {} is an id that is not given.
ValidLogin(a) ==
    LET byId == a.node_id # {} \/ a.user_id # {} IN
    /\ byId # (Strip(a.login_name) # "")
    /\ byId => \A id \in {a.node_id, a.user_id} : \E n \in id : PositiveInt(n)

\* PasswordInput.wire_value: an empty hash or an unknown source is refused.
ValidPassword(p) == p # "invalid"

\* MetadataTypedValue.to_raw_value, for the kinds it knows.
RawValue == [bool |-> "true", string |-> "text", number |-> "number"]

\* resolve_user_metadata_upsert_value
ValidUpsert(a) ==
    LET raw == IF a.typed = "unset" THEN a.value ELSE RawValue[a.typed] IN
    /\ (a.value # "unset") # (a.typed # "unset")
    /\ a.typed \in DOMAIN RawValue \cup {"unset"}
    /\ a.key = Visible => /\ a.typed \in {"bool", "unset"}
                          /\ raw \in {"true", "false"}
                          /\ a.expires_at \in {"unset", ""}

-----------------------------------------------------------------------------
(* Requests over the WebSocket                                             *)

FitsInt32(n) == -Int32Max - 1 <= n /\ n <= Int32Max
FitsInt64(n) == -Int64Max - 1 <= n /\ n <= Int64Max
FitsRef(r) == FitsInt64(r[1]) /\ FitsInt64(r[2])

\* protobuf refuses a number that its field does not hold, when it is assigned.
FitsMessage(cmd) ==
    /\ \A f \in {"user", "target", "owner", "subject", "uid"} \cap DOMAIN cmd : FitsRef(cmd[f])
    /\ "limit" \in DOMAIN cmd => FitsInt32(cmd.limit)
    /\ cmd.do = "list_events" => FitsInt64(cmd.after)
    /\ cmd.do = "list_node_logged_in_users" => FitsInt64(cmd.node_id)

Rpc(ok, cmd, type) ==
    [ok |-> ok, builds |-> FitsMessage(cmd), cmd |-> cmd, expects |-> type, gives |-> type]

Ping(a) == Rpc(TRUE, [do |-> "ping"], "None")

SendMessage(a) ==
    Rpc(ValidRef(a.target) /\ a.body # "none",
        [do |-> "send_message", target |-> a.target, body |-> a.body], "Message")

SendPacket(a) ==
    [Rpc(ValidRef(a.target) /\ a.body # "none" /\ ValidMode(a.delivery_mode),
         [do |-> "send_packet", target |-> a.target, body |-> a.body,
          delivery_mode |-> a.delivery_mode, target_session |-> a.target_session],
         "RelayAccepted")
     EXCEPT !.builds = @ /\ \A s \in a.target_session :
                                ValidSession(s) /\ FitsInt64(s.serving_node_id)]

CreateUser(a) ==
    [Rpc(a.username # "" /\ a.role # "",
         [do |-> "create_user", username |-> a.username, role |-> a.role,
          login_name |-> a.login_name, profile_json |-> a.profile_json,
          password |-> IF a.password = "unset" THEN "" ELSE a.password], "User")
     EXCEPT !.builds = @ /\ ValidPassword(a.password)]

CreateChannel(a) == CreateUser([a EXCEPT !.role = IF @ = "" THEN "channel" ELSE @])

ListUsers(a) ==
    Rpc(ValidFilter(a), [do |-> "list_users", name |-> Strip(a.name), uid |-> a.uid], "list")

GetUser(a) == Rpc(ValidRef(a.target), [do |-> "get_user", user |-> a.target], "User")

UpdateUser(a) ==
    [Rpc(ValidRef(a.target),
         [do |-> "update_user", user |-> a.target, username |-> a.username,
          login_name |-> a.login_name, password |-> a.password,
          profile_json |-> a.profile_json, role |-> a.role], "User")
     EXCEPT !.builds = @ /\ ValidPassword(a.password)]

DeleteUser(a) ==
    Rpc(ValidRef(a.target), [do |-> "delete_user", user |-> a.target], "DeleteUserResult")

GetUserMetadata(a) ==
    Rpc(ValidRef(a.owner) /\ ValidKey(a.key),
        [do |-> "get_user_metadata", owner |-> a.owner, key |-> a.key], "UserMetadata")

\* The typed value is not looked at.
UpsertUserMetadata(a) ==
    Rpc(ValidRef(a.owner) /\ ValidKey(a.key) /\ a.value # "unset",
        [do |-> "upsert_user_metadata", owner |-> a.owner, key |-> a.key,
         value |-> a.value, expires_at |-> a.expires_at], "UserMetadata")

DeleteUserMetadata(a) ==
    Rpc(ValidRef(a.owner) /\ ValidKey(a.key),
        [do |-> "delete_user_metadata", owner |-> a.owner, key |-> a.key], "UserMetadata")

ScanUserMetadata(a) ==
    Rpc(ValidRef(a.owner) /\ ValidScan(a),
        [do |-> "scan_user_metadata", owner |-> a.owner, prefix |-> a.prefix,
         after |-> a.after, limit |-> a.limit], "UserMetadataScanResult")

UpsertAttachment(a) ==
    Rpc(ValidRef(a.owner) /\ ValidRef(a.subject),
        [do |-> "upsert_user_attachment", owner |-> a.owner, subject |-> a.subject,
         attachment_type |-> a.attachment_type, config_json |-> a.config_json], "Attachment")

DeleteAttachment(a) ==
    Rpc(ValidRef(a.owner) /\ ValidRef(a.subject),
        [do |-> "delete_user_attachment", owner |-> a.owner, subject |-> a.subject,
         attachment_type |-> a.attachment_type], "Attachment")

ListAttachments(a) ==
    Rpc(ValidRef(a.owner),
        [do |-> "list_user_attachments", owner |-> a.owner,
         attachment_type |-> a.attachment_type], "list")

\* What is made of the attachments an operation returns.
As(type, r) == [r EXCEPT !.gives = type]

AttachmentOf(owner, subject, type) ==
    [owner |-> owner, subject |-> subject, attachment_type |-> type, config_json |-> "object"]

SubscribeChannel(a) ==
    As("Subscription",
       UpsertAttachment(AttachmentOf(a.subscriber, a.channel, "channel_subscription")))
UnsubscribeChannel(a) ==
    As("Subscription",
       DeleteAttachment(AttachmentOf(a.subscriber, a.channel, "channel_subscription")))
ListSubscriptions(a) ==
    As("Subscriptions",
       ListAttachments([owner |-> a.subscriber, attachment_type |-> "channel_subscription"]))
BlockUser(a) ==
    As("BlacklistEntry", UpsertAttachment(AttachmentOf(a.owner, a.blocked, "user_blacklist")))
UnblockUser(a) ==
    As("BlacklistEntry", DeleteAttachment(AttachmentOf(a.owner, a.blocked, "user_blacklist")))
ListBlockedUsers(a) ==
    As("BlacklistEntries",
       ListAttachments([owner |-> a.owner, attachment_type |-> "user_blacklist"]))

ListMessages(a) ==
    Rpc(ValidRef(a.target),
        [do |-> "list_messages", user |-> a.target, limit |-> a.limit,
         peer_node_id |-> {}, peer_user_id |-> {}], "list")

ListEvents(a) == Rpc(TRUE, [do |-> "list_events", after |-> a.after, limit |-> a.limit], "list")

ListClusterNodes(a) == Rpc(TRUE, [do |-> "list_cluster_nodes"], "list")

ListNodeLoggedInUsers(a) ==
    Rpc(PositiveInt(a.node_id),
        [do |-> "list_node_logged_in_users", node_id |-> a.node_id], "list")

ResolveUserSessions(a) ==
    Rpc(ValidRef(a.user), [do |-> "resolve_user_sessions", user |-> a.user],
        "ResolvedUserSessions")

OperationsStatus(a) == Rpc(TRUE, [do |-> "operations_status"], "OperationsStatus")

Metrics(a) == Rpc(TRUE, [do |-> "metrics"], "str")

=============================================================================
