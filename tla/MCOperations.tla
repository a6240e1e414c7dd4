---------------------------- MODULE MCOperations ----------------------------
(***************************************************************************)
(* Operations on a small instance: one call is any operation with any of   *)
(* the arguments below, the others are those it can be mixed up with.      *)
(***************************************************************************)
EXTENDS Operations, TLC

CONSTANTS c1, c2

Good == <<1, 2>>
Refs == {Good, <<0, 2>>, <<1, 0>>, <<5, 2>>, <<1, 5>>}   \* the last two too large
Keys == {<<>>, <<"a">>, <<"a", "b">>, <<"b">>, <<"?">>, <<"a", "b", "a">>, Visible}
Passwords == {"unset", "secret", "invalid"}
Limits == {-4, -3, -1, 0, 1, 2, 3}
Types == {"channel_subscription", "user_blacklist", "unset"}

Both(op, args) == [via : {"ws", "http"}, op : {op}, args : args]
Ws(op, args) == [via : {"ws"}, op : {op}, args : args]

\* The arguments of an operation, with one or two of them set to something else.
UserArguments ==
    [username : {"", "alice"}, role : {"", "user"}, login_name : {""},
     profile_json : {"none", "object", "junk"}, password : {"unset", "invalid"}]
        \cup [username : {"alice"}, role : {"user"}, login_name : {"", "al"},
              profile_json : {"none"}, password : {"secret"}]

UpdateArguments ==
    [target : Refs, username : {"unset"}, login_name : {"unset"}, role : {"unset", "user"},
     profile_json : {"unset", "none", "textual", "junk"}, password : {"unset"}]
        \cup [target : {Good}, username : {"", "bob"}, login_name : {""}, role : {"unset"},
              profile_json : {"unset"}, password : Passwords]

UpsertArguments ==
    [owner : {Good}, key : {<<"a">>, <<"?">>, Visible}, value : {"unset", "none", "true", "text"},
     typed : {"unset", "bool", "string", "odd"}, expires_at : {"unset", "", "later"}]

Targets == [target : Refs]
Nothing == {[f \in {} |-> {}]}

Everything ==
    UNION {
        Ws("ping", Nothing),
        Ws("resolve_user_sessions", [user : Refs]),
        Ws("send_message", [target : Refs, body : {"none", "bytes"}]),
        Ws("send_packet", [target : {Good}, body : {"bytes"}, delivery_mode : {"best_effort", ""},
            target_session : {{}} \cup {{[serving_node_id |-> n, session_id |-> s]} :
                                n \in {0, 1, 5}, s \in {"", " ", "s"}}]),
        [via : {"http"}, op : {"login"},
         args : [node_id : {{}, {0}, {1}}, user_id : {{}, {2}}, login_name : {"", " ", "al"},
                 password : Passwords]],
        Both("post_message", [target : Refs, body : {"none", "bytes"}]),
        Both("post_packet", [target : {Good}, body : {"none", "bytes"},
            delivery_mode : {"best_effort", "route_retry"}, target_node_id : {0, 1, 2},
            target_session : {{}, {[serving_node_id |-> 1, session_id |-> "s"]}}]),
        Both("create_user", UserArguments), Both("create_channel", UserArguments),
        Both("list_users", [name : {"", " ", "al"}, uid : Refs \cup {NoRef}, mixed : BOOLEAN]),
        Both("get_user", Targets), Both("update_user", UpdateArguments),
        Both("delete_user", Targets),
        Both("get_user_metadata", [owner : Refs, key : Keys]),
        Both("delete_user_metadata", [owner : {Good}, key : Keys]),
        Both("upsert_user_metadata", UpsertArguments),
        Both("scan_user_metadata",
             [owner : {Good}, prefix : Keys, after : Keys, limit : Limits]),
        Both("upsert_attachment", [owner : Refs, subject : Refs, attachment_type : {"user_blacklist"},
            config_json : {"none", "object", "textual", "junk"}]),
        Both("delete_attachment", [owner : Refs, subject : {Good}, attachment_type : {"user_blacklist"}]),
        Both("list_attachments", [owner : Refs, attachment_type : Types]),
        Both("subscribe_channel", [subscriber : Refs, channel : {Good}]),
        Both("create_subscription", [subscriber : {Good}, channel : Refs]),
        Both("unsubscribe_channel", [subscriber : {Good}, channel : Refs]),
        Both("list_subscriptions", [subscriber : Refs]),
        Both("block_user", [owner : {Good}, blocked : Refs]),
        Both("unblock_user", [owner : {Good}, blocked : Refs]),
        Both("list_blocked_users", [owner : Refs]),
        Both("list_messages", [target : Refs, limit : Limits,
            peer_node_id : {{}, {1}}, peer_user_id : {{}, {2}}]),
        Both("list_events", [after : {-6, -5, 0, 1, 4, 5}, limit : Limits]),
        Both("list_node_logged_in_users", [node_id : {0, 1, 4, 5}]),
        Both("list_cluster_nodes", Nothing), Both("operations_status", Nothing),
        Both("metrics", Nothing)}

Others == <<2, 1>>

\* A call that takes an id and is refused for its session.
RefusedLate ==
    [via |-> "ws", op |-> "send_packet",
     args |-> [target |-> Others, body |-> "bytes", delivery_mode |-> "best_effort",
               target_session |-> {[serving_node_id |-> 1, session_id |-> " "]}]]

\* Calls whose answers could be taken for those of another.
Rivals ==
    Ws("get_user", [target : {Others}])
        \cup [via : {"http"}, op : {"list_blocked_users"}, args : [owner : {Others}]]

\* An operation of each kind that answers can tell apart, with arguments that pass.
Kind(k) == <<k.via, Request(k).expects, Request(k).gives, Configs(k)>>

Samples ==
    LET passing == {k \in Everything : Passes(k)} IN
    {CHOOSE k \in passing : Kind(k) = kind : kind \in {Kind(k) : k \in passing}}

TwoCalls ==
    {c1 :> k @@ c2 :> RefusedLate : k \in Everything}
        \cup {c1 :> k @@ c2 :> rival : k \in Samples, rival \in Rivals}

=============================================================================
