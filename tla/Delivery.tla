------------------------------ MODULE Delivery ------------------------------
(***************************************************************************)
(* Persistent messages on their way through turntf/client.py and           *)
(* turntf/store.py: what the server pushes, or answers to send_message(),  *)
(* is stored, its cursor is stored, a push is acknowledged and given to    *)
(* on_message.  After a lost connection, a close() or a crash the cursors  *)
(* of the store tell the next login what not to push again.                *)
(*                                                                         *)
(* run is where the run task waits; a failing await is one that raises or  *)
(* is cancelled, with or without its effect.  Frames are a set: which of   *)
(* those under way is read next does not matter to what is said here.      *)
(***************************************************************************)
EXTENDS Naturals

CONSTANTS
    Messages,   \* persistent messages
    Own         \* those this client sends itself

ASSUME DeliveryAssumption == Own \subseteq Messages

VARIABLES
    durable, ackMessages,   \* the store outlives the process; Config.ack_messages
    saved, blank, order,    \* keys of _messages; the placeholders; _order
    run, handling,          \* the run task, and the frame it is handling
    seen,                   \* what load_seen_messages returned
    closed,
    call,                   \* the calls of send_message()
    log, link,              \* what the server has to deliver; the connection
    told, pushed, wire,     \* of this connection: its seen list, pushes, frames
    acked, handed, cut      \* history: acknowledged, given to on_message,
                            \* stored but not given to on_message

configVars  == <<durable, ackMessages>>
storeVars   == <<saved, blank, order>>
linkVars    == <<link, told, pushed>>
historyVars == <<acked, handed, cut>>
vars == <<configVars, storeVars, run, handling, seen, closed, call, log, linkVars,
          wire, historyVars>>

Frames == [kind : {"push", "response"}, msg : Messages]
FrameOf(k, m) == [kind |-> k, msg |-> m]

Offline == {"down", "loading", "login"}
Handling == {"saveMessage", "saveCursor", "acking", "ackError"}

TypeOK ==
    /\ durable \in BOOLEAN /\ ackMessages \in BOOLEAN
    /\ saved \subseteq Messages /\ blank \subseteq Messages /\ order \subseteq Messages
    /\ run \in Offline \cup Handling \cup {"reading", "onMessage", "onError"}
    /\ handling \subseteq Frames
    /\ handling = {} <=> run \notin Handling
    /\ run \in Offline <=> link = "down"
    /\ seen \subseteq Messages
    /\ closed \in BOOLEAN
    /\ call \in [Own -> {"idle", "waiting", "returned", "failed"}]
    /\ log \subseteq Messages
    /\ link \in {"down", "up", "broken"}
    /\ told \subseteq Messages /\ pushed \subseteq Messages
    /\ wire \subseteq Frames
    /\ acked \subseteq Messages
    /\ handed \in [Messages -> Nat]
    /\ cut \subseteq Messages

\* An empty store, an empty server, a client that has not connected.
Init ==
    /\ durable \in BOOLEAN /\ ackMessages \in BOOLEAN
    /\ saved = {} /\ blank = {} /\ order = {}
    /\ run = "down" /\ handling = {} /\ seen = {} /\ closed = FALSE
    /\ call = [m \in Own |-> "idle"]
    /\ log = {}
    /\ link = "down" /\ told = {} /\ pushed = {} /\ wire = {}
    /\ acked = {} /\ handed = [m \in Messages |-> 0] /\ cut = {}

-----------------------------------------------------------------------------
(* Helpers                                                                 *)

\* _fail_all_pending, as far as send_message() goes.
FailCalls == call' = [m \in Own |-> IF call[m] = "waiting" THEN "failed" ELSE call[m]]

\* on_message is called.
HandOn(m) ==
    /\ handed' = [handed EXCEPT ![m] = @ + 1]
    /\ run' = "onMessage"
    /\ handling' = {}

\* MemoryCursorStore.save_message: a placeholder is overwritten.
StoreMessage(m) ==
    /\ saved' = saved \cup {m}
    /\ blank' = blank \ {m}
    /\ UNCHANGED order

\* MemoryCursorStore.save_cursor: a message that is missing gets a placeholder.
StoreCursor(m) ==
    /\ saved' = saved \cup {m}
    /\ blank' = IF m \in saved THEN blank ELSE blank \cup {m}
    /\ order' = order \cup {m}

-----------------------------------------------------------------------------
(* The server and the network                                              *)

\* Somebody else sends a message to this user.
Publish(m) ==
    /\ m \notin log \cup Own
    /\ log' = log \cup {m}
    /\ UNCHANGED <<configVars, storeVars, run, handling, seen, closed, call, linkVars,
                   wire, historyVars>>

\* The server takes a request of send_message() and answers it, in vain if the
\* connection has been lost.
ServerStores(m) ==
    /\ m \notin log
    /\ call[m] = "waiting"
    /\ log' = log \cup {m}
    /\ wire' = IF link = "up" THEN wire \cup {FrameOf("response", m)} ELSE wire
    /\ UNCHANGED <<configVars, storeVars, run, handling, seen, closed, call, linkVars,
                   historyVars>>

\* A message the login did not name is pushed, once on each connection.
Push(m) ==
    /\ link = "up"
    /\ m \in log \ (told \cup pushed)
    /\ pushed' = pushed \cup {m}
    /\ wire' = wire \cup {FrameOf("push", m)}
    /\ UNCHANGED <<configVars, storeVars, run, handling, seen, closed, call, log, link,
                   told, historyVars>>

Break ==
    /\ link = "up"
    /\ link' = "broken"
    /\ UNCHANGED <<configVars, storeVars, run, handling, seen, closed, call, log, told,
                   pushed, wire, historyVars>>

-----------------------------------------------------------------------------
(* The application                                                         *)

SendMessage(m) ==
    /\ call[m] = "idle" /\ ~closed /\ link # "down"
    /\ call' = [call EXCEPT ![m] = "waiting"]
    /\ UNCHANGED <<configVars, storeVars, run, handling, seen, closed, log, linkVars,
                   wire, historyVars>>

\* The request times out, is cancelled, or could not be written.
SendMessageFails(m) ==
    /\ call[m] = "waiting"
    /\ call' = [call EXCEPT ![m] = "failed"]
    /\ UNCHANGED <<configVars, storeVars, run, handling, seen, closed, log, linkVars,
                   wire, historyVars>>

\* close(): from now on every await of the run task may be cancelled.
Close ==
    /\ ~closed
    /\ closed' = TRUE
    /\ FailCalls
    /\ link' = IF link = "up" THEN "broken" ELSE link
    /\ UNCHANGED <<configVars, storeVars, run, handling, seen, log, told, pushed, wire,
                   historyVars>>

\* A new client is made with the store of a closed one.
NewClient ==
    /\ closed /\ run = "down"
    /\ closed' = FALSE
    /\ UNCHANGED <<configVars, storeVars, run, handling, seen, call, log, linkVars,
                   wire, historyVars>>

\* The process dies and is started again.
Crash ==
    /\ run' = "down" /\ handling' = {} /\ seen' = {} /\ closed' = FALSE
    /\ FailCalls
    /\ link' = "down" /\ told' = {} /\ pushed' = {} /\ wire' = {}
    /\ IF durable
       THEN /\ cut' = cut \cup IF run \in {"acking", "ackError"}
                               THEN {f.msg : f \in handling} ELSE {}
            /\ UNCHANGED <<storeVars, acked, handed>>
       ELSE /\ saved' = {} /\ blank' = {} /\ order' = {}
            /\ acked' = {} /\ handed' = [m \in Messages |-> 0] /\ cut' = {}
    /\ UNCHANGED <<configVars, log>>

-----------------------------------------------------------------------------
(* The run task: connecting                                                *)

\* The first attempt, or the next one.
Attempt ==
    /\ run = "down" /\ ~closed
    /\ run' = "loading"
    /\ UNCHANGED <<configVars, storeVars, handling, seen, closed, call, log, linkVars,
                   wire, historyVars>>

\* Mutant of Loaded: the cursors are loaded for the first connection only.
LoadedOnce ==
    /\ run = "loading" /\ ~closed
    /\ run' = "login"
    /\ seen' = IF seen = {} THEN order ELSE seen
    /\ UNCHANGED <<configVars, storeVars, handling, closed, call, log, linkVars, wire,
                   historyVars>>

\* Mutant of Loaded: every stored message counts as seen, with a cursor or not.
LoadedMessages ==
    /\ run = "loading" /\ ~closed
    /\ run' = "login"
    /\ seen' = saved
    /\ UNCHANGED <<configVars, storeVars, handling, closed, call, log, linkVars, wire,
                   historyVars>>

\* load_seen_messages returns the cursors of all that was stored so far.
Loaded ==
    /\ run = "loading" /\ ~closed
    /\ run' = "login"
    /\ seen' = order
    /\ UNCHANGED <<configVars, storeVars, handling, closed, call, log, linkVars, wire,
                   historyVars>>

LoginOk ==
    /\ run = "login" /\ ~closed
    /\ run' = "reading"
    /\ link' = "up" /\ told' = seen /\ pushed' = {}
    /\ UNCHANGED <<configVars, storeVars, handling, seen, closed, call, log, wire,
                   historyVars>>

\* Loading, dialling or login failed, or close() cancelled it.
AttemptFails ==
    /\ run \in {"loading", "login"}
    /\ run' = "down"
    /\ UNCHANGED <<configVars, storeVars, handling, seen, closed, call, log, linkVars,
                   wire, historyVars>>

-----------------------------------------------------------------------------
(* The run task: reading                                                   *)

Read(f) ==
    /\ run = "reading"
    /\ f \in wire
    /\ run' = "saveMessage"
    /\ handling' = {f} /\ wire' = wire \ {f}
    /\ UNCHANGED <<configVars, storeVars, seen, closed, call, log, linkVars, historyVars>>

\* Mutant of ReadFails: the client keeps its socket.
ReadFailsKeepsSocket ==
    /\ run = "reading" /\ link = "broken"
    /\ run' = "down"
    /\ FailCalls
    /\ UNCHANGED <<configVars, storeVars, handling, seen, closed, log, linkVars, wire,
                   historyVars>>

\* The connection is found lost; what had arrived but was not read is gone.
ReadFails ==
    /\ run = "reading" /\ link = "broken"
    /\ run' = "down"
    /\ link' = "down" /\ told' = {} /\ pushed' = {} /\ wire' = {}
    /\ FailCalls
    /\ UNCHANGED <<configVars, storeVars, handling, seen, closed, log, historyVars>>

SaveMessage(f) ==
    /\ run = "saveMessage" /\ f \in handling
    /\ run' = "saveCursor"
    /\ StoreMessage(f.msg)
    /\ UNCHANGED <<configVars, handling, seen, closed, call, log, linkVars, wire,
                   historyVars>>

\* Mutant of SaveMessageFails: the error is reported and the cursor stored.
SaveMessageFailsOn(f) ==
    /\ run = "saveMessage" /\ f \in handling
    /\ run' = "saveCursor"
    /\ UNCHANGED <<configVars, storeVars, handling, seen, closed, call, log, linkVars,
                   wire, historyVars>>

\* save_message raises: the frame is given up and on_error is told.
SaveMessageFails(f) ==
    /\ run = "saveMessage" /\ f \in handling
    /\ run' = "onError" /\ handling' = {}
    /\ UNCHANGED storeVars \/ StoreMessage(f.msg)
    /\ UNCHANGED <<configVars, seen, closed, call, log, linkVars, wire, historyVars>>

\* Mutant of SaveCursor: only the message is stored.
SaveCursorNever(f) ==
    /\ run = "saveCursor" /\ f \in handling
    /\ \/ /\ f.kind = "response"
          /\ call' = IF call[f.msg] = "waiting"
                     THEN [call EXCEPT ![f.msg] = "returned"] ELSE call
          /\ run' = "reading" /\ handling' = {}
       \/ /\ f.kind = "push"
          /\ run' = "acking"
          /\ UNCHANGED <<call, handling>>
    /\ UNCHANGED <<configVars, storeVars, seen, closed, log, linkVars, wire, historyVars>>

\* Both are stored.  The answer of send_message() goes to its caller; a push is
\* acknowledged, if that is asked for and the client is open, and handed on.
SaveCursor(f) ==
    /\ run = "saveCursor" /\ f \in handling
    /\ StoreCursor(f.msg)
    /\ \/ /\ f.kind = "response"
          /\ call' = IF call[f.msg] = "waiting"
                     THEN [call EXCEPT ![f.msg] = "returned"] ELSE call
          /\ run' = "reading" /\ handling' = {}
          /\ UNCHANGED handed
       \/ /\ f.kind = "push" /\ ackMessages /\ ~closed
          /\ run' = "acking"
          /\ UNCHANGED <<call, handling, handed>>
       \/ /\ f.kind = "push" /\ ~(ackMessages /\ ~closed)
          /\ HandOn(f.msg)
          /\ UNCHANGED call
    /\ UNCHANGED <<configVars, seen, closed, log, linkVars, wire, acked, cut>>

\* save_cursor raises: if it had its effect, nobody will see the message again.
SaveCursorFails(f) ==
    /\ run = "saveCursor" /\ f \in handling
    /\ run' = "onError" /\ handling' = {}
    /\ \/ UNCHANGED <<storeVars, cut>>
       \/ StoreCursor(f.msg) /\ cut' = cut \cup {f.msg}
    /\ UNCHANGED <<configVars, seen, closed, call, log, linkVars, wire, acked, handed>>

\* AckMessage is written, or close() made it needless; it arrives unless the
\* connection is lost.
AckDone(f) ==
    /\ run = "acking" /\ f \in handling
    /\ acked' = IF link = "up" THEN acked \cup {f.msg} ELSE acked
    /\ HandOn(f.msg)
    /\ UNCHANGED <<configVars, storeVars, seen, closed, call, log, linkVars, wire, cut>>

\* Mutant of AckFails: the error ends the handling of the message.
AckFailsForGood(f) ==
    /\ run = "acking" /\ f \in handling /\ link # "up"
    /\ run' = "onError" /\ handling' = {}
    /\ UNCHANGED <<configVars, storeVars, seen, closed, call, log, linkVars, wire,
                   historyVars>>

\* Writing AckMessage raises: on_error is told, and then the message is handed on.
AckFails(f) ==
    /\ run = "acking" /\ f \in handling /\ link # "up"
    /\ run' = "ackError"
    /\ UNCHANGED <<configVars, storeVars, handling, seen, closed, call, log, linkVars,
                   wire, historyVars>>

AckErrorDone(f) ==
    /\ run = "ackError" /\ f \in handling
    /\ HandOn(f.msg)
    /\ UNCHANGED <<configVars, storeVars, seen, closed, call, log, linkVars, wire,
                   acked, cut>>

\* close() cancels the on_error that tells of the acknowledgement.
AckErrorCancelled(f) ==
    /\ run = "ackError" /\ f \in handling /\ closed
    /\ run' = "onError" /\ handling' = {}
    /\ cut' = cut \cup {f.msg}
    /\ UNCHANGED <<configVars, storeVars, seen, closed, call, log, linkVars, wire,
                   acked, handed>>

\* The callback returns, raises or is cancelled; the loop goes on.
CallbackDone ==
    /\ run \in {"onMessage", "onError"}
    /\ run' = "reading"
    /\ UNCHANGED <<configVars, storeVars, handling, seen, closed, call, log, linkVars,
                   wire, historyVars>>

-----------------------------------------------------------------------------
Server == Break \/ \E m \in Messages : Publish(m) \/ Push(m)
Calls == \E m \in Own : SendMessage(m) \/ SendMessageFails(m) \/ ServerStores(m)
Connecting == Attempt \/ Loaded \/ LoginOk \/ AttemptFails
Steps(f) ==
    \/ Read(f) \/ SaveMessage(f) \/ SaveMessageFails(f)
    \/ SaveCursor(f) \/ SaveCursorFails(f)
    \/ AckDone(f) \/ AckFails(f) \/ AckErrorDone(f) \/ AckErrorCancelled(f)

Next ==
    \/ Server \/ Calls \/ Close \/ NewClient \/ Crash
    \/ Connecting \/ ReadFails \/ CallbackDone
    \/ \E f \in Frames : Steps(f)

Spec == Init /\ [][Next]_vars

\* asyncio resumes what can be resumed; a callback returns and a lost connection
\* is noticed.
FairSpec ==
    /\ Spec
    /\ WF_vars(Attempt) /\ WF_vars(Loaded \/ LoginOk \/ AttemptFails)
    /\ WF_vars(CallbackDone) /\ SF_vars(ReadFails)
    /\ WF_vars(\E f \in Frames : \/ SaveMessage(f) \/ SaveMessageFails(f)
                                  \/ SaveCursor(f) \/ SaveCursorFails(f)
                                  \/ AckDone(f) \/ AckFails(f)
                                  \/ AckErrorDone(f) \/ AckErrorCancelled(f))

PushFrames == {f \in Frames : f.kind = "push"}

\* The environment lets things succeed some time: the store, the login, the
\* delivery of some push; a closed client is followed by another, and not every
\* client is closed before it can try; the store outlives the crashes, or they
\* stop.  No connection lasts for ever: a message that could not be stored is
\* pushed again only on the next one.
AllRecovers ==
    /\ durable \/ <>[][~Crash]_vars
    /\ WF_vars(Break)
    /\ SF_vars(Attempt) /\ SF_vars(Loaded) /\ SF_vars(LoginOk) /\ WF_vars(NewClient)
    /\ SF_vars(\E m \in Messages : Push(m))
    /\ SF_vars(\E f \in PushFrames : Read(f))
    /\ SF_vars(\E f \in PushFrames : SaveMessage(f))
    /\ SF_vars(\E f \in PushFrames : SaveCursor(f))

-----------------------------------------------------------------------------
(* Safety                                                                  *)

\* send_message() returns a message only when it is stored.
ReturnedIsStored ==
    durable => \A m \in Own : call[m] = "returned" => m \in order /\ m \notin blank

\* The server is told of a message, and the application given it by a callback
\* or by send_message(), only when it is in the store with its cursor and its
\* contents, not as a placeholder.
StoredBeforeKnown ==
    /\ \A m \in Messages :
         m \in acked \/ handed[m] > 0 => m \in order /\ m \in saved /\ m \notin blank
    /\ ReturnedIsStored

\* No message is given to on_message twice, whatever connections and processes
\* ended meanwhile, as long as the store is the same one
\* (docs/sdk-guide.md: no repeated consumption after a reconnect).
AtMostOnce == \A m \in Messages : handed[m] <= 1

\* A message the server will not push again, since its cursor is stored, has
\* been given to the application, or is about to be, or its handling was
\* interrupted; or it went to the caller of send_message(), if still there.
MissedOnlyWhenCut ==
    \A m \in order :
        \/ handed[m] > 0 \/ m \in cut
        \/ m \in Own /\ call[m] \in {"returned", "failed"}
        \/ run \in {"acking", "ackError"} /\ FrameOf("push", m) \in handling

\* The store's promise for the next login: no cursor without its message.
CursorsHaveMessages == order \subseteq saved \ blank

(***************************************************************************)
(* Refinement                                                              *)
(***************************************************************************)

Log == INSTANCE MessageLog WITH kept <- order

\* The client keeps, acknowledges and hands on as MessageLog says.
ImplementsLog == Log!Spec

(***************************************************************************)
(* Liveness                                                                *)
(***************************************************************************)

\* If everything recovers, every message is at last given to the application,
\* or its handling was interrupted after its cursor had been stored.
EveryMessageArrives ==
    AllRecovers =>
        \A m \in Messages : m \in log ~> handed[m] > 0 \/ m \in cut \/ m \in Own

=============================================================================
