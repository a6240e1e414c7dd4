--------------------------- MODULE DeliveryProofs ---------------------------
(***************************************************************************)
(* The safety of Delivery for any set of messages, and that it implements  *)
(* MessageLog.                                                             *)
(***************************************************************************)
EXTENDS Delivery, TLAPS

\* Frames: only one is handled at a time, an answer is one to a call of
\* send_message(), and without a connection there are none.
FrameInv ==
    /\ \A f, g \in handling : f = g
    /\ \A f \in wire \cup handling :
          f.kind = "response" => f.msg \in Own /\ call[f.msg] # "idle"
    /\ run \in Offline => wire = {}

\* The store: what its cursors stand for, where the handling of a frame already
\* relies on it, and what the next login is told.
StoreInv ==
    /\ CursorsHaveMessages
    /\ acked \subseteq order
    /\ \A m \in Messages : handed[m] > 0 => m \in order
    /\ run = "saveCursor" => \A f \in handling : f.msg \in saved \ blank
    /\ run \in {"acking", "ackError"} =>
          \A f \in handling : f.kind = "push" /\ f.msg \in order
    /\ run = "login" => seen = order

\* A push that is under way has not been handed on, and is pushed only once: what
\* has been handed on was named by the login or pushed on this connection.
PushInv ==
    /\ \A m \in Messages :
          FrameOf("push", m) \in wire \cup handling => m \in pushed /\ handed[m] = 0
    /\ \A m \in Messages :
          ~(FrameOf("push", m) \in wire /\ FrameOf("push", m) \in handling)
    /\ run \notin Offline =>
          \A m \in Messages : handed[m] > 0 => m \in told \cup pushed

IInv ==
    /\ TypeOK /\ FrameInv /\ StoreInv /\ PushInv
    /\ AtMostOnce /\ MissedOnlyWhenCut /\ ReturnedIsStored

-----------------------------------------------------------------------------
(* Frames                                                                  *)

\* A frame is known by its kind and its message.
LEMMA FrameFacts ==
    /\ \A k \in {"push", "response"}, m \in Messages :
          /\ FrameOf(k, m) \in Frames
          /\ FrameOf(k, m).kind = k /\ FrameOf(k, m).msg = m
    /\ \A f \in Frames :
          /\ f.kind \in {"push", "response"} /\ f.msg \in Messages
          /\ f = FrameOf(f.kind, f.msg)
BY DEF Frames, FrameOf

\* Every step keeps the types.
LEMMA TypeStep ==
    ASSUME IInv, [Next]_vars
    PROVE  TypeOK'
<1> USE DeliveryAssumption, FrameFacts
    DEF IInv, TypeOK, Offline, Handling, configVars, storeVars, linkVars, historyVars
<1>1. ASSUME NEW m \in Messages, Publish(m) PROVE TypeOK'
  BY <1>1 DEF Publish
<1>2. ASSUME NEW m \in Own, ServerStores(m) PROVE TypeOK'
  BY <1>2 DEF ServerStores
<1>3. ASSUME NEW m \in Messages, Push(m) PROVE TypeOK'
  BY <1>3 DEF Push
<1>4. CASE Break
  BY <1>4 DEF Break
<1>5. ASSUME NEW m \in Own, SendMessage(m) PROVE TypeOK'
  BY <1>5 DEF SendMessage
<1>6. ASSUME NEW m \in Own, SendMessageFails(m) PROVE TypeOK'
  BY <1>6 DEF SendMessageFails
<1>7. CASE Close
  BY <1>7 DEF Close, FailCalls
<1>8. CASE NewClient
  BY <1>8 DEF NewClient
<1>9. CASE Crash
  <2>1. {f.msg : f \in handling} \subseteq Messages
    OBVIOUS
  <2>2. CASE durable
    BY <1>9, <2>1, <2>2, ZenonT(60) DEF Crash, FailCalls
  <2>3. CASE ~durable
    <3>1. handed' = [m \in Messages |-> 0] /\ handed' \in [Messages -> Nat]
      BY <1>9, <2>3 DEF Crash
    <3>2. call' \in [Own -> {"idle", "waiting", "returned", "failed"}]
      BY <1>9 DEF Crash, FailCalls
    <3>3. saved' = {} /\ blank' = {} /\ order' = {} /\ acked' = {} /\ cut' = {}
      BY <1>9, <2>3 DEF Crash
    <3> QED
      BY <1>9, <3>1, <3>2, <3>3 DEF Crash
  <2> QED
    BY <2>2, <2>3
<1>10. CASE Attempt
  BY <1>10 DEF Attempt
<1>11. CASE Loaded
  BY <1>11 DEF Loaded
<1>12. CASE LoginOk
  BY <1>12 DEF LoginOk
<1>13. CASE AttemptFails
  BY <1>13 DEF AttemptFails
<1>14. CASE ReadFails
  BY <1>14 DEF ReadFails, FailCalls
<1>15. CASE CallbackDone
  BY <1>15 DEF CallbackDone
<1>16. ASSUME NEW f \in Frames, Read(f) PROVE TypeOK'
  BY <1>16 DEF Read
<1>17. ASSUME NEW f \in Frames, SaveMessage(f) PROVE TypeOK'
  BY <1>17 DEF SaveMessage, StoreMessage
<1>18. ASSUME NEW f \in Frames, SaveMessageFails(f) PROVE TypeOK'
  BY <1>18 DEF SaveMessageFails, StoreMessage
<1>19. ASSUME NEW f \in Frames, SaveCursor(f) PROVE TypeOK'
  BY <1>19 DEF SaveCursor, StoreCursor, HandOn
<1>20. ASSUME NEW f \in Frames, SaveCursorFails(f) PROVE TypeOK'
  BY <1>20 DEF SaveCursorFails, StoreCursor
<1>21. ASSUME NEW f \in Frames, AckDone(f) PROVE TypeOK'
  BY <1>21 DEF AckDone, HandOn
<1>22. ASSUME NEW f \in Frames, AckFails(f) PROVE TypeOK'
  BY <1>22 DEF AckFails
<1>23. ASSUME NEW f \in Frames, AckErrorDone(f) PROVE TypeOK'
  BY <1>23 DEF AckErrorDone, HandOn
<1>24. ASSUME NEW f \in Frames, AckErrorCancelled(f) PROVE TypeOK'
  BY <1>24 DEF AckErrorCancelled
<1>25. CASE UNCHANGED vars
  BY <1>25 DEF vars
<1> QED
  BY <1>1, <1>2, <1>3, <1>4, <1>5, <1>6, <1>7, <1>8, <1>9, <1>10, <1>11, <1>12, <1>13, <1>14, <1>15, <1>16, <1>17, <1>18, <1>19, <1>20, <1>21, <1>22, <1>23, <1>24, <1>25
  DEF Next, Server, Calls, Connecting, Steps

\* Every step keeps the frames in order.
LEMMA FrameStep ==
    ASSUME IInv, [Next]_vars
    PROVE  FrameInv'
<1> USE DeliveryAssumption, FrameFacts
    DEF IInv, TypeOK, FrameInv, Offline, Handling, configVars, storeVars, linkVars, historyVars
<1>1. ASSUME NEW m \in Messages, Publish(m) PROVE FrameInv'
  BY <1>1 DEF Publish
<1>2. ASSUME NEW m \in Own, ServerStores(m) PROVE FrameInv'
  BY <1>2 DEF ServerStores
<1>3. ASSUME NEW m \in Messages, Push(m) PROVE FrameInv'
  BY <1>3 DEF Push
<1>4. CASE Break
  BY <1>4 DEF Break
<1>5. ASSUME NEW m \in Own, SendMessage(m) PROVE FrameInv'
  BY <1>5 DEF SendMessage
<1>6. ASSUME NEW m \in Own, SendMessageFails(m) PROVE FrameInv'
  BY <1>6 DEF SendMessageFails
<1>7. CASE Close
  BY <1>7 DEF Close, FailCalls
<1>8. CASE NewClient
  BY <1>8 DEF NewClient
<1>9. CASE Crash
  BY <1>9 DEF Crash, FailCalls
<1>10. CASE Attempt
  BY <1>10 DEF Attempt
<1>11. CASE Loaded
  BY <1>11 DEF Loaded
<1>12. CASE LoginOk
  BY <1>12 DEF LoginOk
<1>13. CASE AttemptFails
  BY <1>13 DEF AttemptFails
<1>14. CASE ReadFails
  BY <1>14 DEF ReadFails, FailCalls
<1>15. CASE CallbackDone
  BY <1>15 DEF CallbackDone
<1>16. ASSUME NEW f \in Frames, Read(f) PROVE FrameInv'
  BY <1>16 DEF Read
<1>17. ASSUME NEW f \in Frames, SaveMessage(f) PROVE FrameInv'
  BY <1>17 DEF SaveMessage, StoreMessage
<1>18. ASSUME NEW f \in Frames, SaveMessageFails(f) PROVE FrameInv'
  BY <1>18 DEF SaveMessageFails, StoreMessage
<1>19. ASSUME NEW f \in Frames, SaveCursor(f) PROVE FrameInv'
  BY <1>19 DEF SaveCursor, StoreCursor, HandOn
<1>20. ASSUME NEW f \in Frames, SaveCursorFails(f) PROVE FrameInv'
  BY <1>20 DEF SaveCursorFails, StoreCursor
<1>21. ASSUME NEW f \in Frames, AckDone(f) PROVE FrameInv'
  BY <1>21 DEF AckDone, HandOn
<1>22. ASSUME NEW f \in Frames, AckFails(f) PROVE FrameInv'
  BY <1>22 DEF AckFails
<1>23. ASSUME NEW f \in Frames, AckErrorDone(f) PROVE FrameInv'
  BY <1>23 DEF AckErrorDone, HandOn
<1>24. ASSUME NEW f \in Frames, AckErrorCancelled(f) PROVE FrameInv'
  BY <1>24 DEF AckErrorCancelled
<1>25. CASE UNCHANGED vars
  BY <1>25 DEF vars
<1> QED
  BY <1>1, <1>2, <1>3, <1>4, <1>5, <1>6, <1>7, <1>8, <1>9, <1>10, <1>11, <1>12, <1>13, <1>14, <1>15, <1>16, <1>17, <1>18, <1>19, <1>20, <1>21, <1>22, <1>23, <1>24, <1>25
  DEF Next, Server, Calls, Connecting, Steps

\* Every step keeps the store and what relies on it.
LEMMA StoreStep ==
    ASSUME IInv, [Next]_vars
    PROVE  StoreInv'
<1> USE DeliveryAssumption, FrameFacts
    DEF IInv, TypeOK, FrameInv, StoreInv, CursorsHaveMessages, Offline, Handling, configVars, storeVars, linkVars, historyVars
<1>1. ASSUME NEW m \in Messages, Publish(m) PROVE StoreInv'
  BY <1>1 DEF Publish
<1>2. ASSUME NEW m \in Own, ServerStores(m) PROVE StoreInv'
  BY <1>2 DEF ServerStores
<1>3. ASSUME NEW m \in Messages, Push(m) PROVE StoreInv'
  BY <1>3 DEF Push
<1>4. CASE Break
  BY <1>4 DEF Break
<1>5. ASSUME NEW m \in Own, SendMessage(m) PROVE StoreInv'
  BY <1>5 DEF SendMessage
<1>6. ASSUME NEW m \in Own, SendMessageFails(m) PROVE StoreInv'
  BY <1>6 DEF SendMessageFails
<1>7. CASE Close
  BY <1>7 DEF Close, FailCalls
<1>8. CASE NewClient
  BY <1>8 DEF NewClient
<1>9. CASE Crash
  BY <1>9 DEF Crash, FailCalls
<1>10. CASE Attempt
  BY <1>10 DEF Attempt
<1>11. CASE Loaded
  BY <1>11 DEF Loaded
<1>12. CASE LoginOk
  BY <1>12 DEF LoginOk
<1>13. CASE AttemptFails
  BY <1>13 DEF AttemptFails
<1>14. CASE ReadFails
  BY <1>14 DEF ReadFails, FailCalls
<1>15. CASE CallbackDone
  BY <1>15 DEF CallbackDone
<1>16. ASSUME NEW f \in Frames, Read(f) PROVE StoreInv'
  BY <1>16 DEF Read
<1>17. ASSUME NEW f \in Frames, SaveMessage(f) PROVE StoreInv'
  BY <1>17 DEF SaveMessage, StoreMessage
<1>18. ASSUME NEW f \in Frames, SaveMessageFails(f) PROVE StoreInv'
  BY <1>18 DEF SaveMessageFails, StoreMessage
<1>19. ASSUME NEW f \in Frames, SaveCursor(f) PROVE StoreInv'
  BY <1>19 DEF SaveCursor, StoreCursor, HandOn
<1>20. ASSUME NEW f \in Frames, SaveCursorFails(f) PROVE StoreInv'
  BY <1>20 DEF SaveCursorFails, StoreCursor
<1>21. ASSUME NEW f \in Frames, AckDone(f) PROVE StoreInv'
  BY <1>21 DEF AckDone, HandOn
<1>22. ASSUME NEW f \in Frames, AckFails(f) PROVE StoreInv'
  BY <1>22 DEF AckFails
<1>23. ASSUME NEW f \in Frames, AckErrorDone(f) PROVE StoreInv'
  BY <1>23 DEF AckErrorDone, HandOn
<1>24. ASSUME NEW f \in Frames, AckErrorCancelled(f) PROVE StoreInv'
  BY <1>24 DEF AckErrorCancelled
<1>25. CASE UNCHANGED vars
  BY <1>25 DEF vars
<1> QED
  BY <1>1, <1>2, <1>3, <1>4, <1>5, <1>6, <1>7, <1>8, <1>9, <1>10, <1>11, <1>12, <1>13, <1>14, <1>15, <1>16, <1>17, <1>18, <1>19, <1>20, <1>21, <1>22, <1>23, <1>24, <1>25
  DEF Next, Server, Calls, Connecting, Steps

\* Every step keeps a push fresh until it is handed on.
LEMMA PushStep ==
    ASSUME IInv, [Next]_vars
    PROVE  PushInv'
<1> USE DeliveryAssumption, FrameFacts
    DEF IInv, TypeOK, FrameInv, StoreInv, PushInv, Offline, Handling, configVars, storeVars, linkVars, historyVars
<1>1. ASSUME NEW m \in Messages, Publish(m) PROVE PushInv'
  BY <1>1 DEF Publish
<1>2. ASSUME NEW m \in Own, ServerStores(m) PROVE PushInv'
  BY <1>2 DEF ServerStores
<1>3. ASSUME NEW m \in Messages, Push(m) PROVE PushInv'
  BY <1>3 DEF Push
<1>4. CASE Break
  BY <1>4 DEF Break
<1>5. ASSUME NEW m \in Own, SendMessage(m) PROVE PushInv'
  BY <1>5 DEF SendMessage
<1>6. ASSUME NEW m \in Own, SendMessageFails(m) PROVE PushInv'
  BY <1>6 DEF SendMessageFails
<1>7. CASE Close
  BY <1>7 DEF Close, FailCalls
<1>8. CASE NewClient
  BY <1>8 DEF NewClient
<1>9. CASE Crash
  BY <1>9 DEF Crash, FailCalls
<1>10. CASE Attempt
  BY <1>10 DEF Attempt
<1>11. CASE Loaded
  BY <1>11 DEF Loaded
<1>12. CASE LoginOk
  BY <1>12 DEF LoginOk
<1>13. CASE AttemptFails
  BY <1>13 DEF AttemptFails
<1>14. CASE ReadFails
  BY <1>14 DEF ReadFails, FailCalls
<1>15. CASE CallbackDone
  BY <1>15 DEF CallbackDone
<1>16. ASSUME NEW f \in Frames, Read(f) PROVE PushInv'
  BY <1>16 DEF Read
<1>17. ASSUME NEW f \in Frames, SaveMessage(f) PROVE PushInv'
  BY <1>17 DEF SaveMessage, StoreMessage
<1>18. ASSUME NEW f \in Frames, SaveMessageFails(f) PROVE PushInv'
  BY <1>18 DEF SaveMessageFails, StoreMessage
<1>19. ASSUME NEW f \in Frames, SaveCursor(f) PROVE PushInv'
  BY <1>19 DEF SaveCursor, StoreCursor, HandOn
<1>20. ASSUME NEW f \in Frames, SaveCursorFails(f) PROVE PushInv'
  BY <1>20 DEF SaveCursorFails, StoreCursor
<1>21. ASSUME NEW f \in Frames, AckDone(f) PROVE PushInv'
  BY <1>21 DEF AckDone, HandOn
<1>22. ASSUME NEW f \in Frames, AckFails(f) PROVE PushInv'
  BY <1>22 DEF AckFails
<1>23. ASSUME NEW f \in Frames, AckErrorDone(f) PROVE PushInv'
  BY <1>23 DEF AckErrorDone, HandOn
<1>24. ASSUME NEW f \in Frames, AckErrorCancelled(f) PROVE PushInv'
  BY <1>24 DEF AckErrorCancelled
<1>25. CASE UNCHANGED vars
  BY <1>25 DEF vars
<1> QED
  BY <1>1, <1>2, <1>3, <1>4, <1>5, <1>6, <1>7, <1>8, <1>9, <1>10, <1>11, <1>12, <1>13, <1>14, <1>15, <1>16, <1>17, <1>18, <1>19, <1>20, <1>21, <1>22, <1>23, <1>24, <1>25
  DEF Next, Server, Calls, Connecting, Steps

\* Every step keeps a message from being handed on again.
LEMMA OnceStep ==
    ASSUME IInv, [Next]_vars
    PROVE  AtMostOnce'
<1> USE DeliveryAssumption, FrameFacts
    DEF IInv, TypeOK, FrameInv, PushInv, StoreInv, AtMostOnce, Handling, configVars, storeVars, linkVars, historyVars
<1>1. ASSUME NEW m \in Messages, Publish(m) PROVE AtMostOnce'
  BY <1>1 DEF Publish
<1>2. ASSUME NEW m \in Own, ServerStores(m) PROVE AtMostOnce'
  BY <1>2 DEF ServerStores
<1>3. ASSUME NEW m \in Messages, Push(m) PROVE AtMostOnce'
  BY <1>3 DEF Push
<1>4. CASE Break
  BY <1>4 DEF Break
<1>5. ASSUME NEW m \in Own, SendMessage(m) PROVE AtMostOnce'
  BY <1>5 DEF SendMessage
<1>6. ASSUME NEW m \in Own, SendMessageFails(m) PROVE AtMostOnce'
  BY <1>6 DEF SendMessageFails
<1>7. CASE Close
  BY <1>7 DEF Close, FailCalls
<1>8. CASE NewClient
  BY <1>8 DEF NewClient
<1>9. CASE Crash
  BY <1>9 DEF Crash, FailCalls
<1>10. CASE Attempt
  BY <1>10 DEF Attempt
<1>11. CASE Loaded
  BY <1>11 DEF Loaded
<1>12. CASE LoginOk
  BY <1>12 DEF LoginOk
<1>13. CASE AttemptFails
  BY <1>13 DEF AttemptFails
<1>14. CASE ReadFails
  BY <1>14 DEF ReadFails, FailCalls
<1>15. CASE CallbackDone
  BY <1>15 DEF CallbackDone
<1>16. ASSUME NEW f \in Frames, Read(f) PROVE AtMostOnce'
  BY <1>16 DEF Read
<1>17. ASSUME NEW f \in Frames, SaveMessage(f) PROVE AtMostOnce'
  BY <1>17 DEF SaveMessage, StoreMessage
<1>18. ASSUME NEW f \in Frames, SaveMessageFails(f) PROVE AtMostOnce'
  BY <1>18 DEF SaveMessageFails, StoreMessage
<1>19. ASSUME NEW f \in Frames, SaveCursor(f) PROVE AtMostOnce'
  BY <1>19 DEF SaveCursor, StoreCursor, HandOn
<1>20. ASSUME NEW f \in Frames, SaveCursorFails(f) PROVE AtMostOnce'
  BY <1>20 DEF SaveCursorFails, StoreCursor
<1>21. ASSUME NEW f \in Frames, AckDone(f) PROVE AtMostOnce'
  BY <1>21 DEF AckDone, HandOn
<1>22. ASSUME NEW f \in Frames, AckFails(f) PROVE AtMostOnce'
  BY <1>22 DEF AckFails
<1>23. ASSUME NEW f \in Frames, AckErrorDone(f) PROVE AtMostOnce'
  BY <1>23 DEF AckErrorDone, HandOn
<1>24. ASSUME NEW f \in Frames, AckErrorCancelled(f) PROVE AtMostOnce'
  BY <1>24 DEF AckErrorCancelled
<1>25. CASE UNCHANGED vars
  BY <1>25 DEF vars
<1> QED
  BY <1>1, <1>2, <1>3, <1>4, <1>5, <1>6, <1>7, <1>8, <1>9, <1>10, <1>11, <1>12, <1>13, <1>14, <1>15, <1>16, <1>17, <1>18, <1>19, <1>20, <1>21, <1>22, <1>23, <1>24, <1>25
  DEF Next, Server, Calls, Connecting, Steps

\* Every step keeps account of the messages that are not handed on.
LEMMA MissedStep ==
    ASSUME IInv, [Next]_vars
    PROVE  MissedOnlyWhenCut'
<1> USE DeliveryAssumption, FrameFacts
    DEF IInv, TypeOK, FrameInv, StoreInv, MissedOnlyWhenCut, Offline, Handling, configVars, storeVars, linkVars, historyVars
<1>1. ASSUME NEW m \in Messages, Publish(m) PROVE MissedOnlyWhenCut'
  BY <1>1 DEF Publish
<1>2. ASSUME NEW m \in Own, ServerStores(m) PROVE MissedOnlyWhenCut'
  BY <1>2 DEF ServerStores
<1>3. ASSUME NEW m \in Messages, Push(m) PROVE MissedOnlyWhenCut'
  BY <1>3 DEF Push
<1>4. CASE Break
  BY <1>4 DEF Break
<1>5. ASSUME NEW m \in Own, SendMessage(m) PROVE MissedOnlyWhenCut'
  BY <1>5 DEF SendMessage
<1>6. ASSUME NEW m \in Own, SendMessageFails(m) PROVE MissedOnlyWhenCut'
  BY <1>6 DEF SendMessageFails
<1>7. CASE Close
  BY <1>7 DEF Close, FailCalls
<1>8. CASE NewClient
  BY <1>8 DEF NewClient
<1>9. CASE Crash
  BY <1>9 DEF Crash, FailCalls
<1>10. CASE Attempt
  BY <1>10 DEF Attempt
<1>11. CASE Loaded
  BY <1>11 DEF Loaded
<1>12. CASE LoginOk
  BY <1>12 DEF LoginOk
<1>13. CASE AttemptFails
  BY <1>13 DEF AttemptFails
<1>14. CASE ReadFails
  BY <1>14 DEF ReadFails, FailCalls
<1>15. CASE CallbackDone
  BY <1>15 DEF CallbackDone
<1>16. ASSUME NEW f \in Frames, Read(f) PROVE MissedOnlyWhenCut'
  BY <1>16 DEF Read
<1>17. ASSUME NEW f \in Frames, SaveMessage(f) PROVE MissedOnlyWhenCut'
  BY <1>17 DEF SaveMessage, StoreMessage
<1>18. ASSUME NEW f \in Frames, SaveMessageFails(f) PROVE MissedOnlyWhenCut'
  BY <1>18 DEF SaveMessageFails, StoreMessage
<1>19. ASSUME NEW f \in Frames, SaveCursor(f) PROVE MissedOnlyWhenCut'
  BY <1>19 DEF SaveCursor, StoreCursor, HandOn
<1>20. ASSUME NEW f \in Frames, SaveCursorFails(f) PROVE MissedOnlyWhenCut'
  BY <1>20 DEF SaveCursorFails, StoreCursor
<1>21. ASSUME NEW f \in Frames, AckDone(f) PROVE MissedOnlyWhenCut'
  BY <1>21 DEF AckDone, HandOn
<1>22. ASSUME NEW f \in Frames, AckFails(f) PROVE MissedOnlyWhenCut'
  BY <1>22 DEF AckFails
<1>23. ASSUME NEW f \in Frames, AckErrorDone(f) PROVE MissedOnlyWhenCut'
  BY <1>23 DEF AckErrorDone, HandOn
<1>24. ASSUME NEW f \in Frames, AckErrorCancelled(f) PROVE MissedOnlyWhenCut'
  BY <1>24 DEF AckErrorCancelled
<1>25. CASE UNCHANGED vars
  BY <1>25 DEF vars
<1> QED
  BY <1>1, <1>2, <1>3, <1>4, <1>5, <1>6, <1>7, <1>8, <1>9, <1>10, <1>11, <1>12, <1>13, <1>14, <1>15, <1>16, <1>17, <1>18, <1>19, <1>20, <1>21, <1>22, <1>23, <1>24, <1>25
  DEF Next, Server, Calls, Connecting, Steps

\* Every step keeps what send_message() returned stored.
LEMMA ReturnedStep ==
    ASSUME IInv, [Next]_vars
    PROVE  ReturnedIsStored'
<1> USE DeliveryAssumption, FrameFacts
    DEF IInv, TypeOK, FrameInv, StoreInv, CursorsHaveMessages, ReturnedIsStored, configVars, storeVars, linkVars, historyVars
<1>1. ASSUME NEW m \in Messages, Publish(m) PROVE ReturnedIsStored'
  BY <1>1 DEF Publish
<1>2. ASSUME NEW m \in Own, ServerStores(m) PROVE ReturnedIsStored'
  BY <1>2 DEF ServerStores
<1>3. ASSUME NEW m \in Messages, Push(m) PROVE ReturnedIsStored'
  BY <1>3 DEF Push
<1>4. CASE Break
  BY <1>4 DEF Break
<1>5. ASSUME NEW m \in Own, SendMessage(m) PROVE ReturnedIsStored'
  BY <1>5 DEF SendMessage
<1>6. ASSUME NEW m \in Own, SendMessageFails(m) PROVE ReturnedIsStored'
  BY <1>6 DEF SendMessageFails
<1>7. CASE Close
  BY <1>7 DEF Close, FailCalls
<1>8. CASE NewClient
  BY <1>8 DEF NewClient
<1>9. CASE Crash
  BY <1>9 DEF Crash, FailCalls
<1>10. CASE Attempt
  BY <1>10 DEF Attempt
<1>11. CASE Loaded
  BY <1>11 DEF Loaded
<1>12. CASE LoginOk
  BY <1>12 DEF LoginOk
<1>13. CASE AttemptFails
  BY <1>13 DEF AttemptFails
<1>14. CASE ReadFails
  BY <1>14 DEF ReadFails, FailCalls
<1>15. CASE CallbackDone
  BY <1>15 DEF CallbackDone
<1>16. ASSUME NEW f \in Frames, Read(f) PROVE ReturnedIsStored'
  BY <1>16 DEF Read
<1>17. ASSUME NEW f \in Frames, SaveMessage(f) PROVE ReturnedIsStored'
  BY <1>17 DEF SaveMessage, StoreMessage
<1>18. ASSUME NEW f \in Frames, SaveMessageFails(f) PROVE ReturnedIsStored'
  BY <1>18 DEF SaveMessageFails, StoreMessage
<1>19. ASSUME NEW f \in Frames, SaveCursor(f) PROVE ReturnedIsStored'
  BY <1>19 DEF SaveCursor, StoreCursor, HandOn
<1>20. ASSUME NEW f \in Frames, SaveCursorFails(f) PROVE ReturnedIsStored'
  BY <1>20 DEF SaveCursorFails, StoreCursor
<1>21. ASSUME NEW f \in Frames, AckDone(f) PROVE ReturnedIsStored'
  BY <1>21 DEF AckDone, HandOn
<1>22. ASSUME NEW f \in Frames, AckFails(f) PROVE ReturnedIsStored'
  BY <1>22 DEF AckFails
<1>23. ASSUME NEW f \in Frames, AckErrorDone(f) PROVE ReturnedIsStored'
  BY <1>23 DEF AckErrorDone, HandOn
<1>24. ASSUME NEW f \in Frames, AckErrorCancelled(f) PROVE ReturnedIsStored'
  BY <1>24 DEF AckErrorCancelled
<1>25. CASE UNCHANGED vars
  BY <1>25 DEF vars
<1> QED
  BY <1>1, <1>2, <1>3, <1>4, <1>5, <1>6, <1>7, <1>8, <1>9, <1>10, <1>11, <1>12, <1>13, <1>14, <1>15, <1>16, <1>17, <1>18, <1>19, <1>20, <1>21, <1>22, <1>23, <1>24, <1>25
  DEF Next, Server, Calls, Connecting, Steps

-----------------------------------------------------------------------------
(* The invariant                                                           *)

\* A client with an empty store that has not connected satisfies it.
LEMMA InitInv == Init => IInv
<1> SUFFICES ASSUME Init PROVE IInv
  OBVIOUS
<1> USE FrameFacts DEF Init
<1>1. TypeOK
  BY DEF TypeOK, Offline, Handling
<1>2. FrameInv /\ StoreInv /\ PushInv
  BY DEF FrameInv, StoreInv, PushInv, CursorsHaveMessages, Offline
<1>3. AtMostOnce /\ MissedOnlyWhenCut /\ ReturnedIsStored
  BY DeliveryAssumption DEF AtMostOnce, MissedOnlyWhenCut, ReturnedIsStored
<1> QED
  BY <1>1, <1>2, <1>3 DEF IInv

\* Every step keeps it.
LEMMA NextInv == IInv /\ [Next]_vars => IInv'
BY TypeStep, FrameStep, StoreStep, PushStep, OnceStep, MissedStep, ReturnedStep DEF IInv

\* It holds in every behaviour.
THEOREM Invariant == Spec => []IInv
<1>1. Init => IInv
  BY InitInv
<1>2. IInv /\ [Next]_vars => IInv'
  BY NextInv
<1> QED
  BY <1>1, <1>2, PTL DEF Spec

-----------------------------------------------------------------------------
(* The properties                                                          *)

\* Type correctness, for any messages.
THEOREM TypeCorrect == Spec => []TypeOK
<1>1. IInv => TypeOK
  BY DEF IInv
<1> QED
  BY <1>1, Invariant, PTL

\* The server, the application and the caller of send_message() hear only of
\* stored messages.
THEOREM KnownIsStored == Spec => []StoredBeforeKnown
<1>1. IInv => StoredBeforeKnown
  BY DEF IInv, TypeOK, StoreInv, CursorsHaveMessages, StoredBeforeKnown
<1> QED
  BY <1>1, Invariant, PTL

\* No message is handed on twice in the life of a store.
THEOREM HandedOnOnce == Spec => []AtMostOnce
<1>1. IInv => AtMostOnce
  BY DEF IInv
<1> QED
  BY <1>1, Invariant, PTL

\* A message that will not come again was handed on or interrupted.
THEOREM NothingIsMissed == Spec => []MissedOnlyWhenCut
<1>1. IInv => MissedOnlyWhenCut
  BY DEF IInv
<1> QED
  BY <1>1, Invariant, PTL

\* No cursor without its message.
THEOREM CursorsAreBacked == Spec => []CursorsHaveMessages
<1>1. IInv => CursorsHaveMessages
  BY DEF IInv, StoreInv
<1> QED
  BY <1>1, Invariant, PTL

-----------------------------------------------------------------------------
(* The refinement                                                          *)

\* Each step keeps, acknowledges and hands on as MessageLog allows: one stretch of
\* the client may do two of the three for its message, a crash may lose the store.
LEMMA LogStep ==
    ASSUME IInv, IInv', [Next]_vars
    PROVE  [Log!Next]_(Log!vars)
<1> USE DeliveryAssumption, FrameFacts
    DEF configVars, storeVars, linkVars, historyVars, Log!vars
<1>1. ASSUME NEW f \in Frames, SaveCursor(f) PROVE Log!Progress(f.msg)
  <2>1. f.msg \in Messages /\ handed[f.msg] \in Nat
    BY DEF IInv, TypeOK
  <2>2. acked \subseteq order
    BY DEF IInv, StoreInv
  <2>3. f.kind = "push" => handed[f.msg] = 0
    BY <1>1 DEF SaveCursor, IInv, PushInv
  <2>4. order' = order \cup {f.msg} /\ acked' = acked
    BY <1>1 DEF SaveCursor, StoreCursor
  <2>5. handed' \in {handed, [handed EXCEPT ![f.msg] = 1]}
    BY <1>1, <2>1, <2>3 DEF SaveCursor, HandOn
  <2> QED
    BY <2>1, <2>2, <2>4, <2>5 DEF Log!Progress
<1>2. ASSUME NEW f \in Frames, SaveCursorFails(f) PROVE Log!Next \/ UNCHANGED Log!vars
  <2>1. f.msg \in Messages /\ acked \subseteq order
    BY DEF IInv, TypeOK, StoreInv
  <2>2. order' \in {order, order \cup {f.msg}} /\ acked' = acked /\ handed' = handed
    BY <1>2 DEF SaveCursorFails, StoreCursor
  <2> QED
    BY <2>1, <2>2 DEF Log!Progress, Log!Next
<1>3. ASSUME NEW f \in Frames, AckDone(f) \/ AckErrorDone(f) PROVE Log!Progress(f.msg)
  <2>1. f.msg \in Messages /\ acked \subseteq order /\ f.msg \in order
    BY <1>3 DEF IInv, TypeOK, StoreInv, AckDone, AckErrorDone
  <2>2. handed[f.msg] = 0
    BY <1>3 DEF IInv, StoreInv, PushInv, AckDone, AckErrorDone
  <2>3. handed' = [handed EXCEPT ![f.msg] = 1]
    BY <1>3, <2>2 DEF AckDone, AckErrorDone, HandOn
  <2>4. order' = order /\ acked' \in {acked, acked \cup {f.msg}}
    BY <1>3 DEF AckDone, AckErrorDone
  <2> QED
    BY <2>1, <2>3, <2>4 DEF Log!Progress
<1>4. CASE Crash
  <2>1. CASE durable
    BY <1>4, <2>1 DEF Crash
  <2>2. CASE ~durable
    BY <1>4, <2>2 DEF Crash, Log!StoreIsLost, Log!Nothing, Log!Next
  <2> QED
    BY <2>1, <2>2
<1>5. CASE Server \/ Calls \/ Close \/ NewClient
  BY <1>5 DEF Server, Break, Publish, Push, Calls, SendMessage, SendMessageFails,
              ServerStores, Close, NewClient
<1>6. CASE Connecting \/ ReadFails \/ CallbackDone
  BY <1>6 DEF Connecting, Attempt, Loaded, LoginOk, AttemptFails, ReadFails, CallbackDone
<1>7. ASSUME NEW f \in Frames,
             \/ Read(f) \/ SaveMessage(f) \/ SaveMessageFails(f)
             \/ AckFails(f) \/ AckErrorCancelled(f)
      PROVE  UNCHANGED Log!vars
  BY <1>7 DEF Read, SaveMessage, SaveMessageFails, StoreMessage, AckFails,
              AckErrorCancelled
<1>8. CASE UNCHANGED vars
  BY <1>8 DEF vars
<1> QED
  BY <1>1, <1>2, <1>3, <1>4, <1>5, <1>6, <1>7, <1>8 DEF Next, Steps, Log!Next

\* The client implements the promise of MessageLog.
THEOREM Implements == Spec => ImplementsLog
<1>1. Init => Log!Init
  BY DEF Init, Log!Init, Log!Nothing
<1>2. IInv /\ IInv' /\ [Next]_vars => [Log!Next]_(Log!vars)
  BY LogStep
<1> QED
  BY <1>1, <1>2, Invariant, PTL DEF Spec, ImplementsLog, Log!Spec

=============================================================================
