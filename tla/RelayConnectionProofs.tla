----------------------- MODULE RelayConnectionProofs -----------------------
(***************************************************************************)
(* Theorems about RelayConnection, for every value of its constants.       *)
(*                                                                         *)
(* Each part of the state has an invariant of its own: the send window,    *)
(* the reorder buffer, the life of the connection with its tasks, what is  *)
(* received, and the counters.  The send window needs a fact no property   *)
(* states: _send_base is zero only until the second frame is numbered.     *)
(* Without it the step that moves the base off zero could leave any number *)
(* of frames below it.                                                     *)
(***************************************************************************)
EXTENDS RelayConnection, SequenceTheorems, TLAPS

USE DEF RelayAssumption, Setup

\* _send_base leaves zero with the second frame at the latest.
BaseLeavesZero == sendBase = 0 => nextSeq <= 1

WindowInv ==
    /\ sendBase \in Nat /\ nextSeq \in Nat
    /\ SendWindow
    /\ BaseLeavesZero

-----------------------------------------------------------------------------
(* The send window                                                         *)

LEMMA AssignKeepsWindow == ASSUME WindowInv, ~WindowFull, AssignSeq PROVE WindowInv'
  <1>. USE RelayAssumption DEF WindowInv, SendWindow, BaseLeavesZero
  <1>1. /\ nextSeq' = nextSeq + 1 /\ unacked' = unacked \cup {nextSeq}
        /\ nextSeq - sendBase < WindowSize
        BY DEF AssignSeq, WindowFull
  <1>2. CASE sendBase = 0
        <2>1. sendBase' = nextSeq
              BY <1>2 DEF AssignSeq
        <2>2. nextSeq = 0 \/ nextSeq = 1
              BY <1>2
        <2>. QED BY <1>1, <1>2, <2>1, <2>2
  <1>3. CASE sendBase # 0
        <2>1. sendBase' = sendBase
              BY <1>3 DEF AssignSeq
        <2>. QED BY <1>1, <1>3, <2>1
  <1>. QED BY <1>2, <1>3

LEMMA AckKeepsWindow ==
    ASSUME WindowInv, NEW n \in 0 .. nextSeq - 1, ReadAck(n)
    PROVE  WindowInv'
  <1>. USE RelayAssumption DEF WindowInv, SendWindow, BaseLeavesZero
  <1>1. /\ sendBase' = n + 1 /\ nextSeq' = nextSeq /\ n >= sendBase
        /\ unacked' = unacked \ (sendBase .. n)
        BY DEF ReadAck
  <1>2. /\ sendBase' \in Nat /\ nextSeq' \in Nat
        /\ sendBase' <= nextSeq' /\ nextSeq' - sendBase' <= WindowSize
        BY <1>1
  <1>3. sendBase' .. nextSeq' - 1 \subseteq unacked'
        BY <1>1
  <1>4. unacked' \subseteq {0} \cup (sendBase' .. nextSeq' - 1)
        BY <1>1
  <1>5. sendBase' # 0
        BY <1>1
  <1>. QED BY <1>2, <1>3, <1>4, <1>5

\* The two ends of the window and the frames that await their acknowledgement.
windowEnds == <<sendBase, nextSeq, unacked>>

\* Only _send_loop and an acknowledgement move the window.
LEMMA WindowFrame ==
    ASSUME [Next]_vars
    PROVE  \/ UNCHANGED windowEnds
           \/ ~WindowFull /\ AssignSeq
           \/ \E n \in 0 .. nextSeq - 1 : ReadAck(n)
  <1>. USE DEF windowEnds, sendVars
  <1>1. CASE UNCHANGED vars
        BY <1>1 DEF vars
  <1>2. CASE ConnectSteps
        BY <1>2 DEF ConnectSteps, OpenSent, OpenFails, GiveUpAt,
                    ConnectReturns, OpenTimesOut
  <1>3. CASE ConnectCancelled \/ RemoveConnection \/ CloseSteps \/ ReplyFails
        BY <1>3 DEF ConnectCancelled, GiveUpAt, RemoveConnection, CloseSteps,
                    CloseSent, CloseFails, ReplyFails
  <1>4. CASE AppSteps
        BY <1>4 DEF AppSteps, Send, PutDone, PutGivesUp, Receive, ReceiveCancelled,
                    LeakedGet, CloseStarts, Abort
  <1>5. CASE SenderSteps
        BY <1>5 DEF SenderSteps, SenderTakes, WindowOpens, FrameSent, FrameFails,
                    SenderCancelled
  <1>6. CASE RetransmitterSteps
        BY <1>6 DEF RetransmitterSteps, RetransmitRound, RetransmitDone,
                    RetransmitterCancelled
  <1>7. CASE Reads
        BY <1>7 DEF Reads, ReadOpen, ReadOpenAck, ReadClose, ReadPing, ReadData
  <1>. QED BY <1>1, <1>2, <1>3, <1>4, <1>5, <1>6, <1>7 DEF Next

LEMMA WindowHolds == Spec => []WindowInv
  <1>1. Init => WindowInv
        BY RelayAssumption DEF Init, WindowInv, SendWindow, BaseLeavesZero
  <1>2. WindowInv /\ [Next]_vars => WindowInv'
        <2>. SUFFICES ASSUME WindowInv, [Next]_vars PROVE WindowInv'
             OBVIOUS
        <2>1. CASE UNCHANGED windowEnds
              BY <2>1 DEF windowEnds, WindowInv, SendWindow, BaseLeavesZero
        <2>. QED BY <2>1, WindowFrame, AssignKeepsWindow, AckKeepsWindow
  <1>. QED BY <1>1, <1>2, PTL DEF Spec

\* The send window is never wider than window_size, every frame in it awaits its
\* acknowledgement, and frame 0 is the only one that can be left below it
\* (_send_loop and _handle_ack of RelayConnection).
THEOREM WindowIsKept == Spec => []SendWindow
  <1>1. WindowInv => SendWindow
        BY DEF WindowInv
  <1>. QED BY <1>1, WindowHolds, PTL

-----------------------------------------------------------------------------
(* The reorder buffer                                                      *)

BufferInv == expectedSeq \in Nat /\ ReorderBuffer

LEMMA DataKeepsBuffer ==
    ASSUME BufferInv, NEW s \in PeerSeqs, ReadData(s) PROVE BufferInv'
  <1>. USE RelayAssumption DEF BufferInv, ReorderBuffer, PeerSeqs
  <1>1. CASE UNCHANGED <<expectedSeq, recvBuf>>
        BY <1>1
  <1>2. CASE s = expectedSeq /\ DeliverInOrder(s)
        <2>1. PICK e \in s + 1 .. s + WindowSize :
                  /\ e \notin recvBuf
                  /\ expectedSeq' = e
                  /\ recvBuf' = recvBuf \ (s .. e - 1)
              BY <1>2 DEF DeliverInOrder
        <2>2. recvBuf' \subseteq e + 1 .. e + WindowSize - 1
              BY <1>2, <2>1
        <2>. QED BY <2>1, <2>2
  <1>3. CASE KeepForLater(s)
        <2>1. expectedSeq' = expectedSeq
              BY <1>3 DEF KeepForLater
        <2>2. CASE s > expectedSeq /\ s - expectedSeq < WindowSize
              <3>1. recvBuf' = recvBuf \cup {s}
                    BY <1>3, <2>2 DEF KeepForLater
              <3>2. s \in expectedSeq + 1 .. expectedSeq + WindowSize - 1
                    BY <2>2
              <3>. QED BY <2>1, <3>1, <3>2
        <2>3. CASE ~(s > expectedSeq /\ s - expectedSeq < WindowSize)
              BY <1>3, <2>1, <2>3 DEF KeepForLater
        <2>. QED BY <2>2, <2>3
  <1>. QED BY <1>1, <1>2, <1>3 DEF ReadData

\* Only DATA frames move the reorder buffer.
LEMMA BufferFrame ==
    ASSUME [Next]_vars
    PROVE  UNCHANGED <<expectedSeq, recvBuf>> \/ \E s \in PeerSeqs : ReadData(s)
  <1>. USE DEF recvVars
  <1>1. CASE UNCHANGED vars
        BY <1>1 DEF vars
  <1>2. CASE ConnectSteps
        BY <1>2 DEF ConnectSteps, OpenSent, OpenFails, GiveUpAt,
                    ConnectReturns, OpenTimesOut
  <1>3. CASE ConnectCancelled \/ RemoveConnection \/ CloseSteps \/ ReplyFails
        BY <1>3 DEF ConnectCancelled, GiveUpAt, RemoveConnection, CloseSteps,
                    CloseSent, CloseFails, ReplyFails
  <1>4. CASE AppSteps
        BY <1>4 DEF AppSteps, Send, PutDone, PutGivesUp, Receive, ReceiveCancelled,
                    LeakedGet, CloseStarts, Abort
  <1>5. CASE SenderSteps
        BY <1>5 DEF SenderSteps, SenderTakes, WindowOpens, FrameSent, FrameFails,
                    SenderCancelled
  <1>6. CASE RetransmitterSteps
        BY <1>6 DEF RetransmitterSteps, RetransmitRound, RetransmitDone,
                    RetransmitterCancelled
  <1>7. CASE Reads
        BY <1>7 DEF Reads, ReadOpen, ReadOpenAck, ReadClose, ReadPing, ReadAck
  <1>. QED BY <1>1, <1>2, <1>3, <1>4, <1>5, <1>6, <1>7 DEF Next

\* The reorder buffer of _handle_data holds only payloads still to be delivered,
\* fewer than window_size of them.
THEOREM BufferIsBounded == Spec => []ReorderBuffer
  <1>1. Init => BufferInv
        BY DEF Init, BufferInv, ReorderBuffer
  <1>2. BufferInv /\ [Next]_vars => BufferInv'
        <2>. SUFFICES ASSUME BufferInv, [Next]_vars PROVE BufferInv'
             OBVIOUS
        <2>1. CASE UNCHANGED <<expectedSeq, recvBuf>>
              BY <2>1 DEF BufferInv, ReorderBuffer
        <2>. QED BY <2>1, BufferFrame, DataKeepsBuffer
  <1>3. BufferInv => ReorderBuffer
        BY DEF BufferInv
  <1>. QED BY <1>1, <1>2, <1>3, PTL DEF Spec

-----------------------------------------------------------------------------
(* The life of a connection                                                *)

\* TypeOK but for what is received.
LifeTypes ==
    /\ setup \in Setups
    /\ state \in {"new", "opening", "open", "closing", "closed"}
    /\ registered \in BOOLEAN /\ removing \in BOOLEAN /\ opened \in BOOLEAN
    /\ connect \in {"none", "sendOpen", "waitOpen", "returned", "timedOut", "failed"}
    /\ close \in {"idle", "sending", "returned", "raised"}
    /\ sender \in {"none", "get", "window", "sending", "done"}
    /\ retransmitter \in {"none", "sleep", "sending", "done"}
    /\ senderCancel \in BOOLEAN /\ retransmitterCancel \in BOOLEAN
    /\ reader \in {"idle", "replying"}

\* Before the peer's OPEN is read nothing has begun, and before connect() has sent
\* its own no task runs.
NothingBeforeOpen ==
    /\ state = "new" => /\ registered = FALSE /\ connect = "none" /\ close = "idle"
                        /\ sender = "none" /\ retransmitter = "none"
    /\ connect = "sendOpen" => retransmitter = "none"

LifeInv == LifeTypes /\ ClosedIsForgotten /\ NothingBeforeOpen

\* _handle_close, called for a connection that exists.
LEMMA HandleCloseKeeps ==
    ASSUME LifeInv, state # "new", HandleClose
    PROVE  /\ state' = "closed"
           /\ registered' \in BOOLEAN /\ removing' \in BOOLEAN
           /\ senderCancel' \in BOOLEAN /\ retransmitterCancel' \in BOOLEAN
           /\ ClosedIsForgotten'
  <1>. USE DEF LifeInv, LifeTypes, ClosedIsForgotten
  <1>1. CASE state = "closed"
        BY <1>1 DEF HandleClose, lifeVars
  <1>2. CASE state # "closed"
        <2>1. /\ state' = "closed" /\ removing' = TRUE /\ registered' = registered
              /\ senderCancel' = Alive(sender)
              /\ retransmitterCancel' = Alive(retransmitter)
              BY <1>2 DEF HandleClose
        <2>2. registered = TRUE
              BY <1>2
        <2>3. senderCancel' \in BOOLEAN /\ retransmitterCancel' \in BOOLEAN
              BY <2>1, Zenon DEF Alive
        <2>. QED BY <2>1, <2>2, <2>3
  <1>. QED BY <1>1, <1>2

LEMMA LifeHolds == Spec => []LifeInv
  <1>1. Init => LifeInv
        BY DEF Init, LifeInv, LifeTypes, ClosedIsForgotten, NothingBeforeOpen
  <1>2. LifeInv /\ [Next]_vars => LifeInv'
        <2>. SUFFICES ASSUME LifeInv, [Next]_vars PROVE LifeInv'
             OBVIOUS
        <2>. USE DEF lifeVars, callVars, appVars, takeVars,
                     LifeInv, LifeTypes, ClosedIsForgotten, NothingBeforeOpen
        <2>0. CASE UNCHANGED vars
              BY <2>0 DEF vars
        <2>1. CASE OpenSent
              BY <2>1 DEF OpenSent
        <2>2. CASE OpenFails
              BY <2>2 DEF OpenFails, GiveUpAt
        <2>3. CASE ConnectReturns
              BY <2>3 DEF ConnectReturns
        <2>4. CASE OpenTimesOut
              BY <2>4, HandleCloseKeeps DEF OpenTimesOut
        <2>5. CASE ConnectCancelled
              BY <2>5 DEF ConnectCancelled, GiveUpAt
        <2>6. CASE RemoveConnection
              <3>1. removing = TRUE /\ removing' = FALSE /\ registered' = FALSE
                    BY <2>6 DEF RemoveConnection
              <3>2. state = "closed"
                    BY <3>1
              <3>3. UNCHANGED <<state, senderCancel, retransmitterCancel, callVars, setup,
                                sender, retransmitter, reader>>
                    BY <2>6 DEF RemoveConnection
              <3>4. registered' \in BOOLEAN /\ removing' \in BOOLEAN
                    BY <3>1, Zenon
              <3>5. ClosedIsForgotten'
                    BY <3>1, <3>2, <3>3
              <3>. QED BY <3>2, <3>3, <3>4, <3>5
        <2>7. CASE ReplyFails
              BY <2>7 DEF ReplyFails
        <2>8. CASE CloseSent
              BY <2>8, HandleCloseKeeps DEF CloseSent
        <2>9. CASE CloseFails
              BY <2>9 DEF CloseFails
        <2>10. CASE Send \/ PutDone \/ PutGivesUp
              BY <2>10 DEF Send, PutDone, PutGivesUp
        <2>11. CASE Receive \/ ReceiveCancelled \/ LeakedGet
              BY <2>11 DEF Receive, ReceiveCancelled, LeakedGet
        <2>12. CASE CloseStarts
              BY <2>12 DEF CloseStarts
        <2>13. CASE Abort
              BY <2>13, HandleCloseKeeps DEF Abort
        <2>14. CASE SenderTakes
              BY <2>14 DEF SenderTakes, AssignSeq
        <2>15. CASE WindowOpens
              BY <2>15 DEF WindowOpens, AssignSeq
        <2>16. CASE FrameSent
              BY <2>16 DEF FrameSent
        <2>17. CASE FrameFails
              BY <2>17, HandleCloseKeeps DEF FrameFails
        <2>18. CASE SenderCancelled
              <3>1. /\ sender # "none" /\ senderCancel' = FALSE
                    /\ sender' \in {"get", "sending", "done"}
                    BY <2>18 DEF SenderCancelled, AssignSeq, Alive
              <3>2. UNCHANGED <<state, registered, removing, retransmitterCancel, callVars,
                                setup, retransmitter, reader>>
                    BY <2>18 DEF SenderCancelled
              <3>3. senderCancel' \in BOOLEAN
                    BY <3>1, Zenon
              <3>4. sender' \in {"get", "sending", "done"}
                    BY <3>1
              <3>. QED BY <3>1, <3>2, <3>3, <3>4
        <2>19. CASE RetransmitRound
              BY <2>19, HandleCloseKeeps DEF RetransmitRound
        <2>20. CASE RetransmitDone
              BY <2>20 DEF RetransmitDone
        <2>21. CASE RetransmitterCancelled
              <3>1. /\ retransmitter # "none" /\ retransmitterCancel' = FALSE
                    /\ retransmitter' \in {"sleep", "done"}
                    BY <2>21 DEF RetransmitterCancelled, Alive
              <3>2. UNCHANGED <<state, registered, removing, senderCancel, callVars,
                                setup, sender, reader>>
                    BY <2>21 DEF RetransmitterCancelled
              <3>3. retransmitterCancel' \in BOOLEAN
                    BY <3>1, Zenon
              <3>. QED BY <3>1, <3>2, <3>3
        <2>22. CASE ReadOpen
              BY <2>22 DEF ReadOpen
        <2>23. CASE ReadOpenAck
              BY <2>23 DEF ReadOpenAck, Reading
        <2>24. CASE ReadClose
              BY <2>24, HandleCloseKeeps DEF ReadClose, Reading
        <2>25. CASE ReadPing
              BY <2>25 DEF ReadPing
        <2>26. CASE \E n \in 0 .. nextSeq - 1 : ReadAck(n)
              BY <2>26 DEF ReadAck
        <2>27. CASE \E s \in PeerSeqs : ReadData(s)
              BY <2>27 DEF ReadData, Acknowledge
        <2>. QED BY <2>0, <2>1, <2>2, <2>3, <2>4, <2>5, <2>6, <2>7, <2>8, <2>9,
                    <2>10, <2>11, <2>12, <2>13, <2>14, <2>15, <2>16, <2>17, <2>18, <2>19,
                    <2>20, <2>21, <2>22, <2>23, <2>24, <2>25, <2>26, <2>27
                 DEF Next, ConnectSteps, CloseSteps, AppSteps, SenderSteps,
                     RetransmitterSteps, Reads
  <1>. QED BY <1>1, <1>2, PTL DEF Spec

\* A connection is found by incoming frames until it is closed and its removal has
\* run, and a closed one that is still found is about to be removed (_handle_close,
\* remove_connection).
THEOREM Forgotten == Spec => []ClosedIsForgotten
  <1>1. LifeInv => ClosedIsForgotten
        BY DEF LifeInv
  <1>. QED BY <1>1, LifeHolds, PTL

\* The state of a connection changes only forwards, whoever changes it.
LEMMA StateSteps ==
    ASSUME LifeInv, [Next]_vars
    PROVE  \/ UNCHANGED state
           \/ state = "new" /\ state' = "open"
           \/ state = "opening" /\ state' = "open"
           \/ state = "open" /\ state' = "closing"
           \/ state # "closed" /\ HandleClose
  <1>. USE DEF lifeVars
  <1>0. HandleClose => state # "closed" \/ UNCHANGED state
        BY DEF HandleClose
  <1>1. CASE UNCHANGED vars
        BY <1>1 DEF vars
  <1>2. CASE ConnectSteps
        BY <1>0, <1>2 DEF ConnectSteps, OpenSent, OpenFails, GiveUpAt,
                          ConnectReturns, OpenTimesOut
  <1>3. CASE ConnectCancelled \/ RemoveConnection \/ CloseSteps \/ ReplyFails
        BY <1>0, <1>3 DEF ConnectCancelled, GiveUpAt, RemoveConnection, CloseSteps,
                          CloseSent, CloseFails, ReplyFails
  <1>4. CASE AppSteps
        BY <1>0, <1>4 DEF AppSteps, Send, PutDone, PutGivesUp, Receive,
                          ReceiveCancelled, LeakedGet, CloseStarts, Abort
  <1>5. CASE SenderSteps
        BY <1>0, <1>5 DEF SenderSteps, SenderTakes, WindowOpens, FrameSent, FrameFails,
                          SenderCancelled
  <1>6. CASE RetransmitterSteps
        BY <1>0, <1>6 DEF RetransmitterSteps, RetransmitRound, RetransmitDone,
                          RetransmitterCancelled
  <1>7. CASE Reads
        BY <1>0, <1>7 DEF Reads, ReadOpen, ReadOpenAck, ReadClose, ReadPing, ReadAck,
                          ReadData
  <1>. QED BY <1>1, <1>2, <1>3, <1>4, <1>5, <1>6, <1>7 DEF Next

\* No connection goes back to an earlier state, whichever of its tasks, callers and
\* frames close it at the same time.
THEOREM Advances == Spec => StateAdvances
  <1>1. LifeInv /\ [Next]_vars => [Rank[state] <= Rank[state']]_vars
        <2>. SUFFICES ASSUME LifeInv, [Next]_vars PROVE Rank[state] <= Rank[state']
             OBVIOUS
        <2>1. /\ Rank["new"] = 0 /\ Rank["opening"] = 1 /\ Rank["open"] = 2
              /\ Rank["closing"] = 3 /\ Rank["closed"] = 4
              BY DEF Rank
        <2>2. state \in {"new", "opening", "open", "closing", "closed"}
              BY DEF LifeInv, LifeTypes
        <2>3. HandleClose /\ state # "closed" => state' = "closed"
              BY DEF HandleClose
        <2>. QED BY <2>1, <2>2, <2>3, StateSteps
  <1>. QED BY <1>1, LifeHolds, PTL DEF Spec, StateAdvances

-----------------------------------------------------------------------------
(* What is received                                                        *)

RecvTypes ==
    /\ setup \in Setups
    /\ expectedSeq \in Nat \ {0} /\ recvBuf \subseteq PeerSeqs
    /\ recvQueue \in Seq(PeerSeqs) /\ Len(recvQueue) <= RecvMax
    /\ taken \subseteq PeerSeqs /\ leaked \in 0 .. setup.cancels
    /\ lost \subseteq PeerSeqs /\ acked \subseteq PeerSeqs

\* What follows the first payload has been delivered or is known to be lost.
FollowersArrive ==
    mode = "reliableOrdered" =>
        \A s \in 1 .. expectedSeq - 1 :
            s \in lost \cup taken \/ \E i \in 1 .. Len(recvQueue) : recvQueue[i] = s

RecvInv == RecvTypes /\ DeliveredInOrder /\ FollowersArrive

recvState == <<recvVars, takeVars>>

\* Only DATA frames, receive() and its abandoned get tasks move what was received.
LEMMA RecvFrame ==
    ASSUME [Next]_vars
    PROVE  \/ UNCHANGED recvState
           \/ Receive \/ ReceiveCancelled \/ LeakedGet
           \/ \E s \in PeerSeqs : ReadData(s)
  <1>. USE DEF recvState
  <1>1. CASE UNCHANGED vars
        BY <1>1 DEF vars
  <1>2. CASE ConnectSteps
        BY <1>2 DEF ConnectSteps, OpenSent, OpenFails, GiveUpAt,
                    ConnectReturns, OpenTimesOut
  <1>3. CASE ConnectCancelled \/ RemoveConnection \/ CloseSteps \/ ReplyFails
        BY <1>3 DEF ConnectCancelled, GiveUpAt, RemoveConnection, CloseSteps,
                    CloseSent, CloseFails, ReplyFails
  <1>4. CASE AppSteps
        BY <1>4 DEF AppSteps, Send, PutDone, PutGivesUp, CloseStarts, Abort
  <1>5. CASE SenderSteps
        BY <1>5 DEF SenderSteps, SenderTakes, WindowOpens, FrameSent, FrameFails,
                    SenderCancelled
  <1>6. CASE RetransmitterSteps
        BY <1>6 DEF RetransmitterSteps, RetransmitRound, RetransmitDone,
                    RetransmitterCancelled
  <1>7. CASE Reads
        BY <1>7 DEF Reads, ReadOpen, ReadOpenAck, ReadClose, ReadPing, ReadAck
  <1>. QED BY <1>1, <1>2, <1>3, <1>4, <1>5, <1>6, <1>7 DEF Next

\* The payloads from s to e - 1, in order.
Run(s, e) == [i \in 1 .. e - s |-> s + i - 1]

\* put_nowait of a run: a first part of it goes into the queue, the rest is lost.
LEMMA DeliverRun ==
    ASSUME RecvTypes, NEW s \in Nat, NEW e \in Nat, s < e,
           s .. e - 1 \subseteq PeerSeqs, Deliver(Run(s, e))
    PROVE  \E n \in 0 .. e - s :
             /\ recvQueue' \in Seq(PeerSeqs)
             /\ Len(recvQueue') = Len(recvQueue) + n /\ Len(recvQueue') <= RecvMax
             /\ \A i \in 1 .. Len(recvQueue) : recvQueue'[i] = recvQueue[i]
             /\ \A i \in 1 .. n : recvQueue'[Len(recvQueue) + i] = s + i - 1
             /\ lost' = lost \cup (s + n .. e - 1)
  <1>. USE RelayAssumption DEF RecvTypes
  <1>. DEFINE room == RecvMax - Len(recvQueue)
              n == IF Len(Run(s, e)) <= room THEN Len(Run(s, e)) ELSE room
              part == [i \in 1 .. n |-> s + i - 1]
  <1>1. Run(s, e) \in Seq(PeerSeqs) /\ Len(Run(s, e)) = e - s
        BY DEF Run
  <1>2. Len(recvQueue) \in Nat /\ room \in Nat
        OBVIOUS
  <1>3. n \in 0 .. e - s /\ n <= room
        BY <1>1, <1>2
  <1>4. SubSeq(Run(s, e), 1, n) = part
        BY <1>1, <1>3 DEF Run
  <1>5. part \in Seq(PeerSeqs) /\ Len(part) = n
        <2>1. \A i \in 1 .. n : s + i - 1 \in PeerSeqs
              BY <1>3
        <2>. QED BY <1>3, <2>1
  <1>6. /\ recvQueue' = recvQueue \o part
        /\ lost' = lost \cup {Run(s, e)[i] : i \in n + 1 .. Len(Run(s, e))}
        BY <1>4 DEF Deliver
  <1>7. \A i \in 1 .. n : part[i] = s + i - 1
        OBVIOUS
  <1>. HIDE DEF n, part
  <1>8. {Run(s, e)[i] : i \in n + 1 .. Len(Run(s, e))} = s + n .. e - 1
        <2>1. ASSUME NEW x \in s + n .. e - 1
              PROVE  \E i \in n + 1 .. Len(Run(s, e)) : Run(s, e)[i] = x
              <3>1. x - s + 1 \in n + 1 .. e - s
                    BY <1>3
              <3>2. Run(s, e)[x - s + 1] = x
                    BY <1>3, <3>1 DEF Run
              <3>. QED BY <1>1, <3>1, <3>2
        <2>2. ASSUME NEW i \in n + 1 .. Len(Run(s, e))
              PROVE  Run(s, e)[i] \in s + n .. e - 1
              BY <1>1, <1>3 DEF Run
        <2>3. {Run(s, e)[i] : i \in n + 1 .. Len(Run(s, e))} \subseteq s + n .. e - 1
              BY <2>2
        <2>4. s + n .. e - 1 \subseteq {Run(s, e)[i] : i \in n + 1 .. Len(Run(s, e))}
              BY <2>1
        <2>. QED BY <2>3, <2>4
  <1>9. recvQueue \in Seq(PeerSeqs)
        OBVIOUS
  <1>10. /\ recvQueue' \in Seq(PeerSeqs)
         /\ Len(recvQueue') = Len(recvQueue) + n
         /\ \A i \in 1 .. Len(recvQueue) + n :
               recvQueue'[i] = IF i <= Len(recvQueue) THEN recvQueue[i]
                               ELSE part[i - Len(recvQueue)]
        <2>1. /\ recvQueue \o part \in Seq(PeerSeqs)
              /\ Len(recvQueue \o part) = Len(recvQueue) + Len(part)
              /\ \A i \in 1 .. Len(recvQueue) + Len(part) :
                    (recvQueue \o part)[i] = IF i <= Len(recvQueue) THEN recvQueue[i]
                                             ELSE part[i - Len(recvQueue)]
              BY <1>5, <1>9, ConcatProperties, Zenon
        <2>. QED BY <1>5, <1>6, <2>1, Zenon
  <1>11. \A i \in 1 .. Len(recvQueue) : recvQueue'[i] = recvQueue[i]
        BY <1>2, <1>3, <1>10
  <1>12. ASSUME NEW i \in 1 .. n PROVE recvQueue'[Len(recvQueue) + i] = s + i - 1
        <2>1. Len(recvQueue) + i \in 1 .. Len(recvQueue) + n
              BY <1>2, <1>3
        <2>2. /\ ~(Len(recvQueue) + i <= Len(recvQueue))
              /\ Len(recvQueue) + i - Len(recvQueue) = i
              BY <1>2, <1>3
        <2>3. recvQueue'[Len(recvQueue) + i] = part[Len(recvQueue) + i - Len(recvQueue)]
              BY <1>10, <2>1, <2>2
        <2>. QED BY <1>7, <2>2, <2>3
  <1>13. Len(recvQueue') <= RecvMax
        BY <1>2, <1>3, <1>10
  <1>. QED BY <1>3, <1>6, <1>8, <1>10, <1>11, <1>12, <1>13

\* The payload that was awaited and those behind it keep order and loss.
LEMMA InOrderKeeps ==
    ASSUME RecvInv, DeliverInOrder(expectedSeq), expectedSeq \in PeerSeqs,
           UNCHANGED takeVars, acked' \subseteq PeerSeqs
    PROVE  RecvInv'
  <1>. USE RelayAssumption DEF RecvInv, RecvTypes, takeVars
  <1>. DEFINE s == expectedSeq
              L == Len(recvQueue)
  <1>1. PICK e \in s + 1 .. s + WindowSize :
            /\ \A x \in s + 1 .. e - 1 : x \in recvBuf
            /\ expectedSeq' = e
            /\ recvBuf' = recvBuf \ (s .. e - 1)
            /\ Deliver(Run(s, e))
        BY DEF DeliverInOrder, Run
  <1>2. s \in Nat /\ e \in Nat /\ s < e
        BY <1>1
  <1>3. s .. e - 1 \subseteq PeerSeqs
        BY <1>1, <1>2
  <1>4. PICK n \in 0 .. e - s :
            /\ recvQueue' \in Seq(PeerSeqs)
            /\ Len(recvQueue') = L + n /\ Len(recvQueue') <= RecvMax
            /\ \A i \in 1 .. L : recvQueue'[i] = recvQueue[i]
            /\ \A i \in 1 .. n : recvQueue'[L + i] = s + i - 1
            /\ lost' = lost \cup (s + n .. e - 1)
        BY <1>1, <1>2, <1>3, DeliverRun
  <1>5. PeerSeqs' = PeerSeqs /\ mode' = mode /\ L \in Nat
        BY DEF PeerSeqs, mode
  <1>6. RecvTypes'
        BY <1>1, <1>2, <1>3, <1>4, <1>5
  <1>7. ASSUME NEW i \in 1 .. Len(recvQueue')
        PROVE  \/ i \in 1 .. L
               \/ i - L \in 1 .. n /\ recvQueue'[i] = s + (i - L) - 1
        <2>1. CASE i <= L
              BY <1>4, <1>5, <2>1
        <2>2. CASE ~(i <= L)
              <3>1. i - L \in 1 .. n /\ L + (i - L) = i
                    BY <1>4, <1>5, <2>2
              <3>2. recvQueue'[L + (i - L)] = s + (i - L) - 1
                    BY <1>4, <3>1
              <3>. QED BY <3>1, <3>2
        <2>. QED BY <2>1, <2>2
  <1>8. ASSUME mode = "reliableOrdered"
        PROVE  /\ taken' \subseteq 1 .. e - 1
               /\ \A i \in 1 .. Len(recvQueue') :
                    recvQueue'[i] \in 1 .. e - 1 /\ \A t \in taken' : t < recvQueue'[i]
        <2>1. taken' = taken /\ taken \subseteq 1 .. s - 1
              BY <1>8 DEF DeliveredInOrder
        <2>2. ASSUME NEW i \in 1 .. Len(recvQueue')
              PROVE  recvQueue'[i] \in 1 .. e - 1 /\ \A t \in taken : t < recvQueue'[i]
              <3>1. CASE i \in 1 .. L
                    <4>1. /\ recvQueue'[i] = recvQueue[i] /\ recvQueue[i] \in 1 .. s - 1
                          /\ \A t \in taken : t < recvQueue[i]
                          BY <1>4, <1>8, <3>1 DEF DeliveredInOrder
                    <4>. QED BY <1>2, <4>1
              <3>2. CASE i - L \in 1 .. n /\ recvQueue'[i] = s + (i - L) - 1
                    BY <1>2, <1>4, <1>5, <2>1, <3>2
              <3>. QED BY <1>7, <3>1, <3>2
        <2>. QED BY <1>2, <2>1, <2>2
  <1>9. ASSUME mode = "reliableOrdered",
               NEW i \in 1 .. Len(recvQueue'), NEW j \in 1 .. i - 1
        PROVE  recvQueue'[j] < recvQueue'[i]
        <2>1. j \in 1 .. Len(recvQueue')
              BY <1>4, <1>5
        <2>2. CASE i \in 1 .. L
              <3>1. \A a \in 1 .. L : \A b \in 1 .. a - 1 : recvQueue[b] < recvQueue[a]
                    BY <1>9 DEF DeliveredInOrder
              <3>2. j \in 1 .. L
                    BY <1>5, <2>2
              <3>3. recvQueue'[i] = recvQueue[i] /\ recvQueue'[j] = recvQueue[j]
                    BY <1>4, <2>2, <3>2
              <3>. QED BY <2>2, <3>1, <3>3
        <2>3. CASE i \notin 1 .. L /\ j \in 1 .. L
              <3>1. recvQueue'[j] = recvQueue[j]
                    BY <1>4, <2>3
              <3>2. recvQueue[j] \in 1 .. s - 1
                    BY <1>9, <2>3 DEF DeliveredInOrder
              <3>3. i - L \in 1 .. n /\ recvQueue'[i] = s + (i - L) - 1
                    BY <1>7, <2>3
              <3>4. recvQueue[j] \in Nat /\ recvQueue[j] < s
                    BY <1>2, <3>2
              <3>5. s + (i - L) - 1 \in Nat /\ s <= s + (i - L) - 1
                    BY <1>2, <1>5, <3>3
              <3>. QED BY <1>2, <3>1, <3>3, <3>4, <3>5
        <2>4. CASE i \notin 1 .. L /\ j \notin 1 .. L
              <3>1. i - L \in 1 .. n /\ recvQueue'[i] = s + (i - L) - 1
                    BY <1>7, <2>4
              <3>2. j - L \in 1 .. n /\ recvQueue'[j] = s + (j - L) - 1
                    BY <1>7, <2>1, <2>4
              <3>. QED BY <1>2, <1>5, <3>1, <3>2
        <2>. QED BY <2>2, <2>3, <2>4
  <1>10. DeliveredInOrder'
        BY <1>1, <1>5, <1>8, <1>9 DEF DeliveredInOrder
  <1>11. ASSUME mode = "reliableOrdered", NEW x \in 1 .. e - 1
        PROVE  x \in lost' \cup taken' \/ \E i \in 1 .. Len(recvQueue') : recvQueue'[i] = x
        <2>1. CASE x < s
              <3>1. x \in lost \cup taken \/ \E i \in 1 .. L : recvQueue[i] = x
                    BY <1>2, <1>11, <2>1 DEF FollowersArrive
              <3>. QED BY <1>4, <1>5, <3>1
        <2>2. CASE x \in s .. s + n - 1
              <3>1. x - s + 1 \in 1 .. n
                    BY <1>2, <1>4, <2>2
              <3>2. L + (x - s + 1) \in 1 .. Len(recvQueue')
                    BY <1>4, <1>5, <3>1
              <3>3. recvQueue'[L + (x - s + 1)] = s + (x - s + 1) - 1
                    BY <1>4, <3>1
              <3>4. s + (x - s + 1) - 1 = x
                    BY <1>2, <2>2
              <3>. QED BY <3>2, <3>3, <3>4
        <2>3. CASE x \in s + n .. e - 1
              BY <1>4, <2>3
        <2>. QED BY <1>2, <1>4, <2>1, <2>2, <2>3
  <1>12. FollowersArrive'
        BY <1>1, <1>5, <1>11 DEF FollowersArrive
  <1>. QED BY <1>6, <1>10, <1>12

LEMMA DataKeeps ==
    ASSUME RecvInv, NEW s \in PeerSeqs, ReadData(s) PROVE RecvInv'
  <1>. USE RelayAssumption DEF RecvInv, RecvTypes, takeVars
  <1>1. /\ PeerSeqs' = PeerSeqs /\ mode' = mode /\ acked' \subseteq PeerSeqs
        /\ UNCHANGED takeVars
        BY DEF PeerSeqs, mode, ReadData, Acknowledge
  <1>2. PeerSeqs \subseteq Nat
        BY DEF PeerSeqs
  <1>3. CASE mode = "bestEffort" /\ Deliver(<<s>>) /\ UNCHANGED <<expectedSeq, recvBuf>>
        <2>1. <<s>> = Run(s, s + 1)
              BY <1>2 DEF Run
        <2>2. /\ s .. (s + 1) - 1 \subseteq PeerSeqs
              /\ s \in Nat /\ s + 1 \in Nat /\ s < s + 1
              BY <1>2
        <2>3. \E n \in 0 .. (s + 1) - s :
                  /\ recvQueue' \in Seq(PeerSeqs)
                  /\ Len(recvQueue') = Len(recvQueue) + n /\ Len(recvQueue') <= RecvMax
                  /\ \A i \in 1 .. Len(recvQueue) : recvQueue'[i] = recvQueue[i]
                  /\ \A i \in 1 .. n : recvQueue'[Len(recvQueue) + i] = s + i - 1
                  /\ lost' = lost \cup (s + n .. (s + 1) - 1)
              <3>1. RecvTypes /\ Deliver(Run(s, s + 1))
                    BY <1>3, <2>1
              <3>. HIDE DEF RecvTypes
              <3>. QED BY <2>2, <3>1, DeliverRun
        <2>4. lost' \subseteq PeerSeqs
              BY <2>2, <2>3
        <2>5. RecvTypes'
              BY <1>1, <1>3, <2>3, <2>4
        <2>. QED BY <1>1, <1>3, <2>5 DEF DeliveredInOrder, FollowersArrive
  <1>4. CASE UNCHANGED <<expectedSeq, recvBuf, recvQueue, lost>>
        BY <1>1, <1>4 DEF DeliveredInOrder, FollowersArrive
  <1>5. CASE s = expectedSeq /\ DeliverInOrder(s)
        BY <1>1, <1>5, InOrderKeeps
  <1>6. CASE KeepForLater(s)
        BY <1>1, <1>6 DEF KeepForLater, DeliveredInOrder, FollowersArrive
  <1>. QED BY <1>3, <1>4, <1>5, <1>6 DEF ReadData

\* receive() and a get task it left behind take the payload in front.
LEMMA HeadKeeps ==
    ASSUME RecvInv, recvQueue # <<>>, recvQueue' = Tail(recvQueue),
           UNCHANGED <<expectedSeq, recvBuf, acked, setup>>,
           leaked' \in 0 .. setup.cancels,
           \/ taken' = taken \cup {Head(recvQueue)} /\ lost' = lost
           \/ taken' = taken /\ lost' = lost \cup {Head(recvQueue)}
    PROVE  RecvInv'
  <1>. USE RelayAssumption DEF RecvInv, RecvTypes
  <1>. DEFINE L == Len(recvQueue)
  <1>1. recvQueue \in Seq(PeerSeqs) /\ L \in Nat
        OBVIOUS
  <1>2. /\ Head(recvQueue) = recvQueue[1] /\ Head(recvQueue) \in PeerSeqs
        /\ recvQueue' \in Seq(PeerSeqs) /\ Len(recvQueue') = L - 1 /\ L > 0
        /\ \A i \in 1 .. Len(recvQueue') : recvQueue'[i] = recvQueue[i + 1]
        BY <1>1, HeadTailProperties
  <1>3. PeerSeqs' = PeerSeqs /\ mode' = mode
        BY DEF PeerSeqs, mode
  <1>4. RecvTypes'
        BY <1>1, <1>2, <1>3
  <1>5. \A i \in 1 .. Len(recvQueue') : i + 1 \in 2 .. L
        BY <1>1, <1>2
  <1>6. ASSUME mode = "reliableOrdered" PROVE DeliveredInOrder'
        <2>1. taken' \subseteq taken \cup {recvQueue[1]}
              BY <1>2
        <2>2. /\ taken' \subseteq 1 .. expectedSeq - 1
              /\ \A i \in 2 .. L : /\ recvQueue[i] \in 1 .. expectedSeq - 1
                                   /\ \A t \in taken' : t < recvQueue[i]
                                   /\ \A j \in 2 .. i - 1 : recvQueue[j] < recvQueue[i]
              BY <1>1, <1>2, <1>6, <2>1 DEF DeliveredInOrder
        <2>3. ASSUME NEW i \in 1 .. Len(recvQueue'), NEW j \in 1 .. i - 1
              PROVE  recvQueue'[j] < recvQueue'[i]
              <3>1. j \in 1 .. Len(recvQueue') /\ j + 1 \in 2 .. (i + 1) - 1
                    BY <1>1, <1>2
              <3>. QED BY <1>2, <1>5, <2>2, <3>1
        <2>. QED BY <1>2, <1>5, <2>2, <2>3 DEF DeliveredInOrder
  <1>7. ASSUME mode = "reliableOrdered", NEW x \in 1 .. expectedSeq - 1
        PROVE  x \in lost' \cup taken' \/ \E i \in 1 .. Len(recvQueue') : recvQueue'[i] = x
        <2>1. CASE x \in lost \cup taken \/ x = recvQueue[1]
              BY <1>2, <2>1
        <2>2. CASE \E i \in 2 .. L : recvQueue[i] = x
              <3>1. PICK i \in 2 .. L : recvQueue[i] = x
                    BY <2>2
              <3>2. i - 1 \in 1 .. Len(recvQueue') /\ (i - 1) + 1 = i
                    BY <1>1, <1>2
              <3>3. recvQueue'[i - 1] = recvQueue[(i - 1) + 1]
                    BY <1>2, <3>2
              <3>. QED BY <3>1, <3>2, <3>3
        <2>3. x \in lost \cup taken \/ \E i \in 1 .. L : recvQueue[i] = x
              BY <1>7 DEF FollowersArrive
        <2>4. \/ x = recvQueue[1] \/ x \in lost \cup taken
              \/ \E i \in 2 .. L : recvQueue[i] = x
              <3>1. \A i \in 1 .. L : i = 1 \/ i \in 2 .. L
                    BY <1>1
              <3>. QED BY <2>3, <3>1
        <2>. QED BY <2>1, <2>2, <2>4
  <1>8. DeliveredInOrder'
        BY <1>3, <1>6 DEF DeliveredInOrder
  <1>9. FollowersArrive'
        BY <1>3, <1>7 DEF FollowersArrive
  <1>. QED BY <1>4, <1>8, <1>9

LEMMA RecvHolds == Spec => []RecvInv
  <1>1. Init => RecvInv
        BY RelayAssumption DEF Init, RecvInv, RecvTypes, DeliveredInOrder,
           FollowersArrive, PeerSeqs
  <1>2. RecvInv /\ [Next]_vars => RecvInv'
        <2>. SUFFICES ASSUME RecvInv, [Next]_vars PROVE RecvInv'
             OBVIOUS
        <2>. USE RelayAssumption
        <2>1. CASE UNCHANGED recvState
              BY <2>1 DEF recvState, recvVars, takeVars, RecvInv, RecvTypes,
                          DeliveredInOrder, FollowersArrive, PeerSeqs, mode
        <2>2. CASE Receive
              BY <2>2, HeadKeeps DEF Receive, RecvInv, RecvTypes
        <2>3. CASE ReceiveCancelled
              <3>1. /\ UNCHANGED <<setup, recvVars, taken>>
                    /\ leaked < setup.cancels /\ leaked' = leaked + 1
                    BY <2>3 DEF ReceiveCancelled
              <3>2. PeerSeqs' = PeerSeqs /\ mode' = mode
                    BY <3>1 DEF PeerSeqs, mode
              <3>3. RecvTypes'
                    BY <3>1, <3>2 DEF recvVars, RecvInv, RecvTypes
              <3>4. DeliveredInOrder'
                    BY <3>1, <3>2 DEF recvVars, RecvInv, DeliveredInOrder
              <3>5. FollowersArrive'
                    BY <3>1, <3>2 DEF recvVars, RecvInv, FollowersArrive
              <3>. QED BY <3>3, <3>4, <3>5 DEF RecvInv
        <2>4. CASE LeakedGet
              BY <2>4, HeadKeeps DEF LeakedGet, RecvInv, RecvTypes
        <2>5. CASE \E s \in PeerSeqs : ReadData(s)
              BY <2>5, DataKeeps
        <2>. QED BY <2>1, <2>2, <2>3, <2>4, <2>5, RecvFrame
  <1>. QED BY <1>1, <1>2, PTL DEF Spec

\* RELIABLE_ORDERED: what receive() has returned and will return next is strictly
\* increasing, whatever the network repeats or reorders (_handle_data, receive).
THEOREM InOrder == Spec => []DeliveredInOrder
  <1>1. RecvInv => DeliveredInOrder
        BY DEF RecvInv
  <1>. QED BY <1>1, RecvHolds, PTL

\* RELIABLE_ORDERED: a payload is passed over only when the receive queue was full,
\* when an abandoned get task took it, or when it is the first one, which the peer
\* numbers 0 and _expected_seq does not wait for (_handle_data, receive).
THEOREM LostOnlySo == Spec => []NothingElseIsLost
  <1>1. RecvInv => NothingElseIsLost
        <2>. SUFFICES ASSUME RecvInv, mode = "reliableOrdered",
                             NEW s \in 0 .. expectedSeq - 1, s # 0
                      PROVE  s \in lost \/ Delivered(s)
             BY DEF NothingElseIsLost
        <2>1. s \in 1 .. expectedSeq - 1
              BY DEF RecvInv, RecvTypes
        <2>. QED BY <2>1 DEF RecvInv, FollowersArrive, Delivered
  <1>. QED BY <1>1, RecvHolds, PTL

-----------------------------------------------------------------------------
(* Types                                                                   *)

\* The counters of the sending side.  The retransmission task ends when it has
\* counted one round too many, and is not started again.
CountInv ==
    /\ queued \in 0 .. SendMax /\ offered \in 0 .. setup.sends /\ putting \in BOOLEAN
    /\ retransCnt \in 0 .. MaxRetransmits + 1
    /\ retransCnt <= MaxRetransmits \/ retransmitter = "done"

LEMMA CountHolds == Spec => []CountInv
  <1>. USE RelayAssumption
  <1>1. Init => CountInv
        <2>. SUFFICES ASSUME Init PROVE CountInv
             OBVIOUS
        <2>1. setup.sends \in Nat
              BY DEF Init
        <2>2. putting \in BOOLEAN
              BY Zenon DEF Init
        <2>. QED BY <2>1, <2>2 DEF Init, CountInv
  <1>2. LifeInv /\ CountInv /\ [Next]_vars => CountInv'
        <2>. SUFFICES ASSUME LifeInv, CountInv, [Next]_vars PROVE CountInv'
             OBVIOUS
        <2>0. setup \in Setups /\ setup.sends \in Nat
              BY DEF LifeInv, LifeTypes
        <2>. USE <2>0 DEF CountInv, appVars, sendVars, takeVars
        <2>1. CASE UNCHANGED vars
              BY <2>1 DEF vars
        <2>2. CASE ConnectSteps
              <3>1. connect = "sendOpen" => retransmitter = "none"
                    BY DEF LifeInv, NothingBeforeOpen
              <3>. QED BY <2>2, <3>1 DEF ConnectSteps, OpenSent, OpenFails, GiveUpAt,
                                         ConnectReturns, OpenTimesOut
        <2>3. CASE ConnectCancelled \/ RemoveConnection \/ CloseSteps \/ ReplyFails
              BY <2>3 DEF ConnectCancelled, GiveUpAt, RemoveConnection, CloseSteps,
                          CloseSent, CloseFails, ReplyFails
        <2>4. CASE Send
              <3>1. UNCHANGED <<retransCnt, retransmitter, setup>>
                    BY <2>4 DEF Send
              <3>2. putting' \in BOOLEAN
                    <4>1. putting' = TRUE \/ putting' = putting
                          BY <2>4 DEF Send
                    <4>. QED BY <4>1, Zenon
              <3>3. queued' \in 0 .. SendMax /\ offered' \in 0 .. setup.sends
                    BY <2>4 DEF Send
              <3>. QED BY <3>1, <3>2, <3>3
        <2>5. CASE PutDone \/ PutGivesUp
              <3>1. UNCHANGED <<retransCnt, retransmitter, setup, offered>>
                    BY <2>5 DEF PutDone, PutGivesUp
              <3>2. putting' \in BOOLEAN
                    BY <2>5, Zenon DEF PutDone, PutGivesUp
              <3>3. queued' \in 0 .. SendMax
                    BY <2>5 DEF PutDone, PutGivesUp
              <3>. QED BY <3>1, <3>2, <3>3
        <2>6. CASE Receive \/ ReceiveCancelled \/ LeakedGet \/ CloseStarts \/ Abort
              BY <2>6 DEF Receive, ReceiveCancelled, LeakedGet, CloseStarts, Abort
        <2>7. CASE SenderSteps
              BY <2>7 DEF SenderSteps, SenderTakes, WindowOpens, FrameSent, FrameFails,
                          SenderCancelled, AssignSeq
        <2>8. CASE RetransmitRound
              BY <2>8 DEF RetransmitRound
        <2>9. CASE RetransmitDone \/ RetransmitterCancelled
              BY <2>9 DEF RetransmitDone, RetransmitterCancelled, Alive
        <2>10. CASE ReadOpen
              <3>1. state = "new" => retransmitter = "none"
                    BY DEF LifeInv, NothingBeforeOpen
              <3>. QED BY <2>10, <3>1 DEF ReadOpen
        <2>11. CASE ReadOpenAck \/ ReadClose \/ ReadPing
              BY <2>11 DEF ReadOpenAck, ReadClose, ReadPing
        <2>12. CASE \E n \in 0 .. nextSeq - 1 : ReadAck(n)
              BY <2>12 DEF ReadAck
        <2>13. CASE \E s \in PeerSeqs : ReadData(s)
              BY <2>13 DEF ReadData
        <2>. QED BY <2>1, <2>2, <2>3, <2>4, <2>5, <2>6, <2>7, <2>8, <2>9, <2>10,
                    <2>11, <2>12, <2>13
                 DEF Next, AppSteps, RetransmitterSteps, Reads
  <1>. QED BY <1>1, <1>2, LifeHolds, PTL DEF Spec

\* All variables have their types; the queues stay within their capacity and the
\* retransmissions within their limit.
THEOREM TypeCorrect == Spec => []TypeOK
  <1>1. LifeInv /\ RecvInv /\ WindowInv /\ CountInv => TypeOK
        <2>. SUFFICES ASSUME LifeInv, RecvInv, WindowInv, CountInv PROVE TypeOK
             OBVIOUS
        <2>1. unacked \subseteq Nat
              BY DEF WindowInv, SendWindow
        <2>2. /\ sendBase \in Nat /\ nextSeq \in Nat
              BY DEF WindowInv
        <2>. QED BY <2>1, <2>2, Zenon
                 DEF LifeInv, LifeTypes, RecvInv, RecvTypes, CountInv, TypeOK
  <1>. QED BY <1>1, LifeHolds, RecvHolds, WindowHolds, CountHolds, PTL

=============================================================================
