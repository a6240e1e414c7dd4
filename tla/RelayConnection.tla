-------------------------- MODULE RelayConnection --------------------------
(***************************************************************************)
(* One connection of turntf/relay.py: the connect() or accept_incoming()   *)
(* that makes it, the frames handle_packet hands to it, its two background *)
(* tasks, and the application that sends, receives and closes.  The peer   *)
(* and the network are the environment: any frame may arrive at any time,  *)
(* again, late or never; only acknowledgements are assumed to be of frames *)
(* that were sent, which _handle_ack does not check.                       *)
(*                                                                         *)
(* Every frame goes out through AsyncClient.send_packet, an RPC whose      *)
(* answer the client's read loop has to read.  handle_packet runs inside   *)
(* that loop, so while it replies to a frame no RPC is answered, its own   *)
(* least of all: a reply ends by the request timeout or a lost connection. *)
(*                                                                         *)
(* An action is one stretch of code between two suspensions.  Payloads the *)
(* application sends are counted, payloads of the peer are known by their  *)
(* sequence number.                                                        *)
(***************************************************************************)
EXTENDS Integers, Sequences

CONSTANTS
    Setups,         \* the connections to look at, see Setup
    WindowSize,     \* RelayConfig.window_size
    MaxRetransmits, \* RelayConfig.max_retransmits
    SendMax,        \* capacity of _send_queue
    RecvMax         \* _RECV_QUEUE_MAXSIZE

\* Which end it is, its RelayConfig.reliability, whether send_timeout_ms is set,
\* whether asyncio.wait_for may forget a cancellation (it does in Python 3.11), and
\* three bounds: the payloads the application sends, the highest sequence number of
\* the peer, and the receive() calls that are cancelled.  accept_incoming takes the
\* defaults.
Setup ==
    {c \in [side : {"connect", "accept"},
            mode : {"bestEffort", "atLeastOnce", "reliableOrdered"},
            sendTimeout : BOOLEAN, forgetful : BOOLEAN,
            sends : Nat, peerSeqs : Nat, cancels : Nat] :
        c.side = "accept" => c.mode = "reliableOrdered" /\ ~c.sendTimeout}

ASSUME RelayAssumption ==
    /\ Setups \subseteq Setup
    /\ WindowSize \in Nat \ {0}
    /\ MaxRetransmits \in Nat
    /\ SendMax \in Nat \ {0} /\ RecvMax \in Nat \ {0}

VARIABLES
    setup,                      \* which of the Setups this is; it never changes
    state,                      \* _state
    registered, removing,       \* an entry of _conns; remove_connection is scheduled
    opened,                     \* _open_event
    connect, close,             \* where connect() or accept_incoming(), and close() are
    sender, senderCancel,       \* _send_loop, and it has been cancelled
    retransmitter, retransmitterCancel,
    queued, offered, putting,   \* _send_queue; payloads given to send(); send() waits
    sendBase, nextSeq, unacked, retransCnt,
    reader,                     \* the read loop of the client, as far as this frame goes
    expectedSeq, recvBuf, recvQueue,
    taken, leaked,              \* payloads receive() returned; its abandoned get tasks
    lost, acked                 \* history: payloads dropped, and acknowledged

lifeVars == <<state, registered, removing, senderCancel, retransmitterCancel>>
callVars == <<opened, connect, close>>
appVars  == <<queued, offered, putting>>
sendVars == <<sendBase, nextSeq, unacked, retransCnt>>
recvVars == <<expectedSeq, recvBuf, recvQueue, lost, acked>>
takeVars == <<taken, leaked, setup>>
vars == <<lifeVars, callVars, sender, retransmitter, appVars, sendVars, reader,
          recvVars, takeVars>>

mode == setup.mode
PeerSeqs == 0 .. setup.peerSeqs
Windowed == mode # "bestEffort"

\* accept_incoming gives the connection the peer (0, 0), which send_packet refuses
\* with a ValueError before it suspends: nothing such a connection sends goes out.
Addressable == setup.side = "connect"

TypeOK ==
    /\ setup \in Setups
    /\ state \in {"new", "opening", "open", "closing", "closed"}
    /\ registered \in BOOLEAN /\ removing \in BOOLEAN /\ opened \in BOOLEAN
    /\ connect \in {"none", "sendOpen", "waitOpen", "returned", "timedOut", "failed"}
    /\ close \in {"idle", "sending", "returned", "raised"}
    /\ sender \in {"none", "get", "window", "sending", "done"}
    /\ retransmitter \in {"none", "sleep", "sending", "done"}
    /\ senderCancel \in BOOLEAN /\ retransmitterCancel \in BOOLEAN
    /\ queued \in 0 .. SendMax /\ offered \in 0 .. setup.sends /\ putting \in BOOLEAN
    /\ sendBase \in Nat /\ nextSeq \in Nat /\ unacked \subseteq Nat
    /\ retransCnt \in 0 .. MaxRetransmits + 1
    /\ reader \in {"idle", "replying"}
    /\ expectedSeq \in Nat \ {0} /\ recvBuf \subseteq PeerSeqs
    /\ recvQueue \in Seq(PeerSeqs) /\ taken \subseteq PeerSeqs
    /\ leaked \in 0 .. setup.cancels
    /\ lost \subseteq PeerSeqs /\ acked \subseteq PeerSeqs

\* connect() has found a session, put the connection into _conns and begun to
\* send OPEN; or the peer's OPEN has not been read yet.
Init ==
    /\ setup \in Setups
    /\ IF setup.side = "connect"
       THEN state = "opening" /\ registered = TRUE /\ connect = "sendOpen"
       ELSE state = "new" /\ registered = FALSE /\ connect = "none"
    /\ removing = FALSE /\ opened = FALSE /\ close = "idle"
    /\ sender = "none" /\ senderCancel = FALSE
    /\ retransmitter = "none" /\ retransmitterCancel = FALSE
    /\ queued = 0 /\ offered = 0 /\ putting = FALSE
    /\ sendBase = 0 /\ nextSeq = 0 /\ unacked = {} /\ retransCnt = 0
    /\ reader = "idle"
    /\ expectedSeq = 1 /\ recvBuf = {} /\ recvQueue = <<>>
    /\ taken = {} /\ leaked = 0
    /\ lost = {} /\ acked = {}

-----------------------------------------------------------------------------
(* Helpers                                                                 *)

Alive(task) == task \notin {"none", "done"}

\* An RPC can be answered only while the read loop is free to read.
Answerable == reader = "idle"

\* Mutant of HandleClose: the connection stays in _conns.
HandleCloseKeepsEntry ==
    IF state = "closed" THEN UNCHANGED lifeVars
    ELSE /\ state' = "closed"
         /\ senderCancel' = Alive(sender)
         /\ retransmitterCancel' = Alive(retransmitter)
         /\ UNCHANGED <<registered, removing>>

\* Mutant of HandleClose: the retransmission task is forgotten.
HandleCloseOneTask ==
    IF state = "closed" THEN UNCHANGED lifeVars
    ELSE /\ state' = "closed"
         /\ senderCancel' = Alive(sender)
         /\ removing' = TRUE
         /\ UNCHANGED <<registered, retransmitterCancel>>

\* _handle_close: the first call wins, cancels what has been started, and
\* schedules the removal from _conns.
HandleClose ==
    IF state = "closed" THEN UNCHANGED lifeVars
    ELSE /\ state' = "closed"
         /\ senderCancel' = Alive(sender)
         /\ retransmitterCancel' = Alive(retransmitter)
         /\ removing' = TRUE
         /\ UNCHANGED registered

\* put_nowait for a run of payloads: what does not fit is dropped.
Deliver(run) ==
    LET room == RecvMax - Len(recvQueue)
        fits == IF Len(run) <= room THEN Len(run) ELSE room
    IN  /\ recvQueue' = recvQueue \o SubSeq(run, 1, fits)
        /\ lost' = lost \cup {run[i] : i \in fits + 1 .. Len(run)}

WindowFull == nextSeq - sendBase >= WindowSize

\* The body of the window lock in _send_loop.
AssignSeq ==
    /\ nextSeq' = nextSeq + 1
    /\ unacked' = unacked \cup {nextSeq}
    /\ sendBase' = IF sendBase = 0 THEN nextSeq ELSE sendBase
    /\ sender' = "sending"
    /\ UNCHANGED retransCnt

\* What _retransmit sends again: it looks only between the two ends.
Retransmitted == unacked \cap (sendBase .. nextSeq - 1)

-----------------------------------------------------------------------------
(* Relay.connect                                                           *)

\* OPEN is accepted by the server: start the tasks, wait for OPEN_ACK.  Nothing
\* looks whether the connection has been closed meanwhile.
OpenSent ==
    /\ connect = "sendOpen"
    /\ Answerable
    /\ connect' = "waitOpen"
    /\ sender' = "get"
    /\ retransmitter' = IF Windowed THEN "sleep" ELSE "none"
    /\ UNCHANGED <<lifeVars, opened, close, appVars, sendVars, reader, recvVars, takeVars>>

\* Sending OPEN raised, or the caller was cancelled: the connection stays.
GiveUpAt(pc) ==
    /\ connect = pc
    /\ connect' = "failed"
    /\ UNCHANGED <<lifeVars, opened, close, sender, retransmitter, appVars, sendVars,
                   reader, recvVars, takeVars>>

OpenFails == GiveUpAt("sendOpen")
ConnectCancelled == GiveUpAt("waitOpen")

ConnectReturns ==
    /\ connect = "waitOpen"
    /\ opened
    /\ connect' = "returned"
    /\ UNCHANGED <<lifeVars, opened, close, sender, retransmitter, appVars, sendVars,
                   reader, recvVars, takeVars>>

\* Mutant of OpenTimesOut: the wait has no timeout.
OpenNeverTimesOut ==
    /\ connect = "waitOpen" /\ opened
    /\ connect' = "timedOut"
    /\ HandleClose
    /\ UNCHANGED <<opened, close, sender, retransmitter, appVars, sendVars, reader,
                   recvVars, takeVars>>

\* open_timeout_ms is over, at worst when the event has just been set.
OpenTimesOut ==
    /\ connect = "waitOpen"
    /\ connect' = "timedOut"
    /\ HandleClose
    /\ UNCHANGED <<opened, close, sender, retransmitter, appVars, sendVars, reader,
                   recvVars, takeVars>>

\* The task made by _handle_close.
RemoveConnection ==
    /\ removing
    /\ removing' = FALSE /\ registered' = FALSE
    /\ UNCHANGED <<state, senderCancel, retransmitterCancel, callVars, sender,
                   retransmitter, appVars, sendVars, reader, recvVars, takeVars>>

-----------------------------------------------------------------------------
(* The application, once connect() has given it the connection.            *)

\* send(): the payload goes into the queue, or send() waits for room.
Send ==
    /\ connect = "returned" /\ state = "open"
    /\ ~putting /\ offered < setup.sends
    /\ offered' = offered + 1
    /\ IF queued < SendMax THEN queued' = queued + 1 /\ UNCHANGED putting
                           ELSE putting' = TRUE /\ UNCHANGED queued
    /\ UNCHANGED <<lifeVars, callVars, sender, retransmitter, sendVars, reader,
                   recvVars, takeVars>>

\* Mutant of PutDone: the queue has no limit.
PutWithoutRoom ==
    /\ putting
    /\ queued' = queued + 1 /\ putting' = FALSE
    /\ UNCHANGED <<lifeVars, callVars, sender, retransmitter, offered, sendVars,
                   reader, recvVars, takeVars>>

\* There is room: the put goes through, whatever the state is by now.
PutDone ==
    /\ putting /\ queued < SendMax
    /\ queued' = queued + 1 /\ putting' = FALSE
    /\ UNCHANGED <<lifeVars, callVars, sender, retransmitter, offered, sendVars,
                   reader, recvVars, takeVars>>

\* send() gives up: its caller is cancelled, or send_timeout_ms, which is optional,
\* is over.
PutGivesUp ==
    /\ putting
    /\ putting' = FALSE
    /\ UNCHANGED <<lifeVars, callVars, sender, retransmitter, queued, offered,
                   sendVars, reader, recvVars, takeVars>>

PutTimesOut == setup.sendTimeout /\ PutGivesUp

\* receive() or receive_timeout() returns a payload, also after the close.
Receive ==
    /\ connect = "returned"
    /\ recvQueue # <<>>
    /\ taken' = taken \cup {Head(recvQueue)}
    /\ recvQueue' = Tail(recvQueue)
    /\ UNCHANGED <<lifeVars, callVars, sender, retransmitter, appVars, sendVars,
                   reader, expectedSeq, recvBuf, lost, acked, leaked, setup>>

\* A cancelled receive() leaves its get task behind ...
ReceiveCancelled ==
    /\ connect = "returned"
    /\ leaked < setup.cancels
    /\ leaked' = leaked + 1
    /\ UNCHANGED <<lifeVars, callVars, sender, retransmitter, appVars, sendVars,
                   reader, recvVars, taken, setup>>

\* ... which takes a payload nobody will see.
LeakedGet ==
    /\ leaked > 0
    /\ recvQueue # <<>>
    /\ leaked' = leaked - 1
    /\ lost' = lost \cup {Head(recvQueue)}
    /\ recvQueue' = Tail(recvQueue)
    /\ UNCHANGED <<lifeVars, callVars, sender, retransmitter, appVars, sendVars,
                   reader, expectedSeq, recvBuf, acked, taken, setup>>

CloseStarts ==
    /\ connect = "returned" /\ state = "open"
    /\ state' = "closing" /\ close' = "sending"
    /\ UNCHANGED <<registered, removing, senderCancel, retransmitterCancel, opened,
                   connect, sender, retransmitter, appVars, sendVars, reader,
                   recvVars, takeVars>>

CloseSent ==
    /\ close = "sending"
    /\ Answerable
    /\ close' = "returned"
    /\ HandleClose
    /\ UNCHANGED <<opened, connect, sender, retransmitter, appVars, sendVars, reader,
                   recvVars, takeVars>>

\* Sending CLOSE raised, and so does close().
CloseFails ==
    /\ close = "sending"
    /\ close' = "raised"
    /\ UNCHANGED <<lifeVars, opened, connect, sender, retransmitter, appVars,
                   sendVars, reader, recvVars, takeVars>>

Abort ==
    /\ connect = "returned" /\ state # "closed"
    /\ HandleClose
    /\ UNCHANGED <<callVars, sender, retransmitter, appVars, sendVars, reader,
                   recvVars, takeVars>>

-----------------------------------------------------------------------------
(* _send_loop                                                              *)

\* A payload is taken; best effort sends it without a number, the other modes
\* number it unless the window is full.
SenderTakes ==
    /\ sender = "get" /\ ~senderCancel
    /\ queued > 0
    /\ queued' = queued - 1
    /\ \/ /\ Windowed /\ ~WindowFull
          /\ AssignSeq
       \/ /\ Windowed /\ WindowFull
          /\ sender' = "window"
          /\ UNCHANGED sendVars
       \/ /\ ~Windowed
          /\ sender' = "sending"
          /\ UNCHANGED sendVars
    /\ UNCHANGED <<lifeVars, callVars, retransmitter, offered, putting, reader,
                   recvVars, takeVars>>

WindowOpens ==
    /\ sender = "window" /\ ~senderCancel
    /\ ~WindowFull
    /\ AssignSeq
    /\ UNCHANGED <<lifeVars, callVars, retransmitter, appVars, reader, recvVars, takeVars>>

FrameSent ==
    /\ sender = "sending" /\ ~senderCancel
    /\ Answerable
    /\ sender' = "get"
    /\ UNCHANGED <<lifeVars, callVars, retransmitter, appVars, sendVars, reader,
                   recvVars, takeVars>>

\* Mutant of FrameFails: the task dies without closing the connection.
FrameFailsSilently ==
    /\ sender = "sending" /\ ~senderCancel
    /\ sender' = "done"
    /\ UNCHANGED <<lifeVars, callVars, retransmitter, appVars, sendVars, reader,
                   recvVars, takeVars>>

\* Any error of send_packet, its timeout included, ends the connection.
FrameFails ==
    /\ sender = "sending" /\ ~senderCancel
    /\ sender' = "done"
    /\ HandleClose
    /\ UNCHANGED <<callVars, retransmitter, appVars, sendVars, reader, recvVars, takeVars>>

\* The cancelled task ends; but a forgetful wait_for hands out what is ready
\* instead of the cancellation, and then the loop goes on.
SenderCancelled ==
    /\ Alive(sender) /\ senderCancel
    /\ senderCancel' = FALSE
    /\ \/ /\ sender' = "done"
          /\ UNCHANGED sendVars
       \/ /\ setup.forgetful /\ sender = "window" /\ ~WindowFull
          /\ AssignSeq
       \/ /\ setup.forgetful /\ sender = "sending"
          /\ sender' = "get"
          /\ UNCHANGED sendVars
    /\ UNCHANGED <<state, registered, removing, retransmitterCancel, callVars,
                   retransmitter, appVars, reader, recvVars, takeVars>>

-----------------------------------------------------------------------------
(* _retransmit_loop.  With nothing unacknowledged a round changes nothing. *)

\* Mutant of RetransmitRound: the rounds are not counted.
RetransmitRoundUncounted ==
    /\ retransmitter = "sleep" /\ ~retransmitterCancel
    /\ Retransmitted # {}
    /\ retransmitter' = "sending"
    /\ UNCHANGED <<lifeVars, callVars, sender, appVars, sendVars, reader, recvVars,
                   takeVars>>

RetransmitRound ==
    /\ retransmitter = "sleep" /\ ~retransmitterCancel
    /\ unacked # {}
    /\ retransCnt' = retransCnt + 1
    /\ IF retransCnt + 1 > MaxRetransmits
       THEN /\ retransmitter' = "done"
            /\ HandleClose
       ELSE /\ retransmitter' = IF Retransmitted = {} THEN "sleep" ELSE "sending"
            /\ UNCHANGED lifeVars
    /\ UNCHANGED <<callVars, sender, appVars, sendBase, nextSeq, unacked, reader,
                   recvVars, takeVars>>

\* The last frame is sent; an error of one frame does not stop the others.
RetransmitDone ==
    /\ retransmitter = "sending" /\ ~retransmitterCancel
    /\ retransmitter' = "sleep"
    /\ UNCHANGED <<lifeVars, callVars, sender, appVars, sendVars, reader, recvVars,
                   takeVars>>

RetransmitterCancelled ==
    /\ Alive(retransmitter) /\ retransmitterCancel
    /\ retransmitterCancel' = FALSE
    /\ \/ retransmitter' = "done"
       \/ setup.forgetful /\ retransmitter = "sending" /\ retransmitter' = "sleep"
    /\ UNCHANGED <<state, registered, removing, senderCancel, callVars, sender,
                   appVars, sendVars, reader, recvVars, takeVars>>

-----------------------------------------------------------------------------
(* Relay.handle_packet for a frame of this connection.                     *)

Reading == reader = "idle" /\ registered

\* OPEN: accept_incoming makes the connection, an open one, puts it into _conns
\* and starts its tasks; then OPEN_ACK is refused, and that is the end of it.
ReadOpen ==
    /\ reader = "idle" /\ state = "new"
    /\ state' = "open" /\ registered' = TRUE /\ opened' = TRUE
    /\ sender' = "get" /\ retransmitter' = "sleep"
    /\ connect' = "failed"
    /\ UNCHANGED <<removing, senderCancel, retransmitterCancel, close, appVars, sendVars,
                   reader, recvVars, takeVars>>

\* Mutant of ReadOpenAck: the state is not looked at.
ReadOpenAckAnyState ==
    /\ Reading
    /\ state' = "open" /\ opened' = TRUE
    /\ UNCHANGED <<registered, removing, senderCancel, retransmitterCancel, connect,
                   close, sender, retransmitter, appVars, sendVars, reader, recvVars,
                   takeVars>>

ReadOpenAck ==
    /\ Reading
    /\ state = "opening"
    /\ state' = "open" /\ opened' = TRUE
    /\ UNCHANGED <<registered, removing, senderCancel, retransmitterCancel, connect,
                   close, sender, retransmitter, appVars, sendVars, reader, recvVars,
                   takeVars>>

\* CLOSE or ERROR.
ReadClose ==
    /\ Reading
    /\ state # "closed"
    /\ HandleClose
    /\ UNCHANGED <<callVars, sender, retransmitter, appVars, sendVars, reader,
                   recvVars, takeVars>>

\* Mutant of ReadAck: only frame n is acknowledged, but the base moves past it.
ReadAckOfOne(n) ==
    /\ Reading
    /\ Windowed
    /\ n >= sendBase
    /\ unacked' = unacked \ {n}
    /\ sendBase' = n + 1
    /\ retransCnt' = 0
    /\ UNCHANGED <<lifeVars, callVars, sender, retransmitter, appVars, nextSeq,
                   reader, recvVars, takeVars>>

\* _handle_ack: everything up to n, a frame that was sent.
ReadAck(n) ==
    /\ Reading
    /\ Windowed
    /\ n >= sendBase
    /\ unacked' = unacked \ (sendBase .. n)
    /\ sendBase' = n + 1
    /\ retransCnt' = 0
    /\ UNCHANGED <<lifeVars, callVars, sender, retransmitter, appVars, nextSeq,
                   reader, recvVars, takeVars>>

\* Mutant of DeliverInOrder: the buffered payloads are not counted.
DeliverUncounted(s) ==
    \E e \in s + 1 .. s + WindowSize :
        /\ e \notin recvBuf
        /\ \A x \in s + 1 .. e - 1 : x \in recvBuf
        /\ expectedSeq' = s + 1
        /\ recvBuf' = recvBuf \ (s .. e - 1)
        /\ Deliver([i \in 1 .. e - s |-> s + i - 1])

\* Mutant of DeliverInOrder: the buffered payloads are not delivered.
DeliverOneOnly(s) ==
    \E e \in s + 1 .. s + WindowSize :
        /\ e \notin recvBuf
        /\ \A x \in s + 1 .. e - 1 : x \in recvBuf
        /\ expectedSeq' = e
        /\ recvBuf' = recvBuf \ (s .. e - 1)
        /\ Deliver(<<s>>)

\* The payload that was awaited, and with it those that waited for it.
DeliverInOrder(s) ==
    \E e \in s + 1 .. s + WindowSize :
        /\ e \notin recvBuf
        /\ \A x \in s + 1 .. e - 1 : x \in recvBuf
        /\ expectedSeq' = e
        /\ recvBuf' = recvBuf \ (s .. e - 1)
        /\ Deliver([i \in 1 .. e - s |-> s + i - 1])

\* Mutant of KeepForLater: any payload that comes too early is kept.
KeepAnyForLater(s) ==
    /\ recvBuf' = IF s > expectedSeq THEN recvBuf \cup {s} ELSE recvBuf
    /\ UNCHANGED <<expectedSeq, recvQueue, lost>>

\* A payload that came too early is kept if it is near enough; an old one is
\* dropped.
KeepForLater(s) ==
    /\ recvBuf' = IF s > expectedSeq /\ s - expectedSeq < WindowSize
                  THEN recvBuf \cup {s} ELSE recvBuf
    /\ UNCHANGED <<expectedSeq, recvQueue, lost>>

\* The acknowledgement of s, if it can be sent, keeps the read loop waiting.
Acknowledge(s) ==
    IF Addressable THEN acked' = acked \cup {s} /\ reader' = "replying"
                   ELSE UNCHANGED <<acked, reader>>

\* _handle_data.  The two modes with acknowledgements answer every frame, and
\* only the ordered one before it is acknowledged puts the payload into the
\* queue: AT_LEAST_ONCE would after the reply, which always raises.
ReadData(s) ==
    /\ Reading
    /\ \/ /\ mode = "bestEffort"
          /\ Deliver(<<s>>)
          /\ UNCHANGED <<expectedSeq, recvBuf, acked, reader>>
       \/ /\ mode = "atLeastOnce"
          /\ Acknowledge(s)
          /\ UNCHANGED <<expectedSeq, recvBuf, recvQueue, lost>>
       \/ /\ mode = "reliableOrdered"
          /\ IF s = expectedSeq THEN DeliverInOrder(s) ELSE KeepForLater(s)
          /\ Acknowledge(s)
    /\ UNCHANGED <<lifeVars, callVars, sender, retransmitter, appVars, sendVars, takeVars>>

\* _handle_ping: the reply is an ERROR frame.
ReadPing ==
    /\ Reading
    /\ Addressable
    /\ reader' = "replying"
    /\ UNCHANGED <<lifeVars, callVars, sender, retransmitter, appVars, sendVars,
                   recvVars, takeVars>>

\* The reply's RPC times out or loses its connection; the read loop reports the
\* error and reads on.
ReplyFails ==
    /\ reader = "replying"
    /\ reader' = "idle"
    /\ UNCHANGED <<lifeVars, callVars, sender, retransmitter, appVars, sendVars,
                   recvVars, takeVars>>

-----------------------------------------------------------------------------
ConnectSteps == OpenSent \/ OpenFails \/ ConnectReturns \/ OpenTimesOut
CloseSteps == CloseSent \/ CloseFails
SenderSteps == SenderTakes \/ WindowOpens \/ FrameSent \/ FrameFails \/ SenderCancelled
RetransmitterSteps == RetransmitRound \/ RetransmitDone \/ RetransmitterCancelled
AppSteps ==
    \/ Send \/ PutDone \/ PutGivesUp
    \/ Receive \/ ReceiveCancelled \/ LeakedGet
    \/ CloseStarts \/ Abort
Reads ==
    \/ ReadOpen \/ ReadOpenAck \/ ReadClose \/ ReadPing
    \/ \E n \in 0 .. nextSeq - 1 : ReadAck(n)
    \/ \E s \in PeerSeqs : ReadData(s)

Next ==
    \/ ConnectSteps \/ ConnectCancelled \/ RemoveConnection \/ AppSteps \/ CloseSteps
    \/ SenderSteps \/ RetransmitterSteps \/ Reads \/ ReplyFails

Spec == Init /\ [][Next]_vars

\* asyncio resumes what can be resumed, timers fire, and an RPC ends one way or
\* the other.  Nothing is assumed of the peer, the network or the application.
FairSpec ==
    /\ Spec
    /\ WF_vars(ConnectSteps) /\ WF_vars(CloseSteps) /\ WF_vars(RemoveConnection)
    /\ WF_vars(SenderSteps) /\ WF_vars(RetransmitterSteps)
    /\ WF_vars(PutDone) /\ WF_vars(PutTimesOut)
    /\ WF_vars(ReplyFails)

-----------------------------------------------------------------------------
(* Safety                                                                  *)

\* The send window: its two ends are at most window_size apart, every frame
\* between them still awaits its acknowledgement, and no other frame does but
\* frame 0, which _send_loop may step over when it moves _send_base off zero.
SendWindow ==
    /\ sendBase <= nextSeq
    /\ nextSeq - sendBase <= WindowSize
    /\ sendBase .. nextSeq - 1 \subseteq unacked
    /\ unacked \subseteq {0} \cup (sendBase .. nextSeq - 1)

\* The reorder buffer holds only payloads that are still to be delivered and
\* lie inside the window, so it never grows beyond window_size - 1.
ReorderBuffer ==
    recvBuf \subseteq expectedSeq + 1 .. expectedSeq + WindowSize - 1

\* RELIABLE_ORDERED: what the application was given and is about to be given
\* is strictly increasing, whatever the network repeats or reorders: every payload
\* in the queue is later than those taken and than those in front of it.
DeliveredInOrder ==
    mode = "reliableOrdered" =>
        /\ taken \subseteq 1 .. expectedSeq - 1
        /\ \A i \in 1 .. Len(recvQueue) :
             /\ recvQueue[i] \in 1 .. expectedSeq - 1
             /\ \A s \in taken : s < recvQueue[i]
             /\ \A j \in 1 .. i - 1 : recvQueue[j] < recvQueue[i]

\* A payload has been given to the application, or waits for its receive().
Delivered(s) == s \in taken \/ \E i \in 1 .. Len(recvQueue) : recvQueue[i] = s

\* RELIABLE_ORDERED: a payload is passed over only when the receive queue was
\* full, when an abandoned get task took it, or when it is the first of the
\* connection: the peer numbers from 0 and _expected_seq begins at 1.
NothingElseIsLost ==
    mode = "reliableOrdered" =>
        \A s \in 0 .. expectedSeq - 1 : s \in lost \/ Delivered(s) \/ s = 0

\* A connection is findable by incoming frames exactly until it is closed and
\* its removal has run; no closed connection stays in _conns.
ClosedIsForgotten ==
    /\ ~registered => state \in {"new", "closed"}
    /\ state = "closed" /\ registered <=> removing

(***************************************************************************)
(* Action properties                                                       *)
(***************************************************************************)

Rank == [new |-> 0, opening |-> 1, open |-> 2, closing |-> 3, closed |-> 4]

\* A connection never goes back to an earlier state, whichever of its tasks,
\* callers and frames close it at the same time.
StateAdvances == [][Rank[state] <= Rank[state']]_vars

(***************************************************************************)
(* Liveness                                                                *)
(***************************************************************************)

\* Relay.connect ends, whatever the peer does.
ConnectEnds ==
    connect \in {"sendOpen", "waitOpen"} ~> connect \notin {"sendOpen", "waitOpen"}

\* A full window opens or the connection is given up: retransmission is bounded.
FullWindowEnds == sender = "window" ~> sender # "window" \/ state = "closed"

\* A send() that waits for room ends, but on a closed connection only its
\* send_timeout_ms ends it: without one, the default, it waits for ever there.
WaitingSendEnds == putting ~> ~putting \/ (state = "closed" /\ ~setup.sendTimeout)

\* Whoever closes the connection, both background tasks end, if asyncio.wait_for
\* forgets no cancellation and the connection was not closed while its OPEN was
\* being sent: tasks that connect() starts after that are never cancelled.
ClosingEndsTasks ==
    [](state = "closed" => connect # "sendOpen") =>
        (state = "closed" /\ ~setup.forgetful ~> ~Alive(sender) /\ ~Alive(retransmitter))

-----------------------------------------------------------------------------
(* What the documentation promises and the code does not do.               *)

\* turntf/relay.py: _retransmit sends all unacknowledged frames again.
AllUnackedAreRetransmitted == unacked \subseteq Retransmitted

\* turntf/relay.py: every new incoming connection is given to the handler, once
\* the read loop is through with its OPEN.
IncomingIsAnnounced ==
    setup.side = "accept" /\ registered /\ reader = "idle" => connect = "returned"

\* turntf/types.py: ack_seq acknowledges cumulatively.
AckIsCumulative ==
    mode = "reliableOrdered" => \A s \in acked : s < expectedSeq

\* turntf/types.py: AT_LEAST_ONCE.  What has been acknowledged, so that the
\* peer will not send it again, has been delivered.
AcknowledgedIsDelivered ==
    mode = "atLeastOnce" /\ reader = "idle" =>
        \A s \in acked : s \in lost \/ Delivered(s)

\* turntf/types.py: RELIABLE_ORDERED acknowledges, retransmits, removes duplicates
\* and keeps the order.  What has been acknowledged waits for those before it, has
\* been delivered, or had no room.
OrderedIsDelivered ==
    mode = "reliableOrdered" =>
        \A s \in acked : s \in recvBuf \cup lost \/ Delivered(s)

=============================================================================
