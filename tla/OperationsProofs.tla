-------------------------- MODULE OperationsProofs --------------------------
(***************************************************************************)
(* What holds of Operations for any set of calls with any arguments: a     *)
(* result is that of the call it is returned by, and errors tell the truth.*)
(***************************************************************************)
EXTENDS Operations, TLAPS

Ws(c) == call[c].via = "ws"

\* What an answer says of the call it was sent for.
Truthful(c, answer) ==
    IF answer.body = "error" THEN performed[c] = 0
    ELSE /\ performed[c] = 1
         /\ answer.of = Command(call[c])
         /\ answer.body # Request(call[c]).expects => c \in misled

\* Nothing of a call is under way any more.
IsSettled(c) == \A x \in requests \cup answers : x.from # c

\* Calls do not change, and only those that pass are ever sent.
CallInv ==
    /\ call \in Scenarios
    /\ \A c \in Calls :
        /\ pc[c] = "idle" => c \notin asked
        /\ pc[c] \in {"waiting", "answered", "lost"} => c \in asked
        /\ c \in asked => Passes(call[c])
        /\ performed[c] \in {0, 1}
        /\ performed[c] = 1 => c \in asked

\* A call has one request or one answer on the way, and not both.
NetInv ==
    /\ \A r \in requests : performed[r.from] = 0
    /\ \A r, q \in requests : r.from = q.from => r = q
    /\ \A a, b \in answers : a.from = b.from => a = b
    /\ \A r \in requests, a \in answers : r.from # a.from
    /\ \A a \in answers : Truthful(a.from, a.answer)

\* An id belongs to one call: what is on the way with the id that a call waits for
\* is its own.
IdInv ==
    /\ \A c \in Calls : id[c] <= nextId
    /\ \A x \in requests \cup answers : Ws(x.from) =>
          /\ x.id <= nextId
          /\ \A c \in Calls : Ws(c) /\ pc[c] = "waiting" /\ id[c] = x.id => c = x.from
    /\ \A r \in requests : r.live /\ ~Ws(r.from) => pc[r.from] = "waiting"
    /\ \A a \in answers : ~Ws(a.from) => pc[a.from] = "waiting"

\* What a call holds, and how it ended.
EndOf(c) ==
    /\ pc[c] = "answered" => IsSettled(c) /\ Truthful(c, got[c])
    /\ end[c] = "value" => performed[c] = 1 /\ got[c].of = Command(call[c])
    /\ end[c] = "ProtocolError" =>
          c \in misled \/ (~Ws(c) /\ performed[c] = 0 /\ \A r \in requests : r.from # c)
    /\ TellsTheTruth(c)

EndInv == \A c \in Calls : EndOf(c)

IInv == TypeOK /\ CallInv /\ NetInv /\ IdInv /\ EndInv

-----------------------------------------------------------------------------
(* Frames                                                                  *)

\* Abandoning requests changes nothing of them but that nobody reads the answer.
LEMMA AbandonedFacts ==
    ASSUME TypeOK, NEW calls \in SUBSET Calls, Abandoned(calls)
    PROVE  /\ answers' \subseteq answers
           /\ \A a \in answers' : a.from \notin calls
           /\ \A q \in requests' : \E r \in requests :
                 /\ q.from = r.from /\ q.id = r.id
                 /\ q.live => r.live /\ q.from \notin calls
                 /\ q \in [from : asked, id : Nat, live : BOOLEAN]
           /\ \A r \in requests : \E q \in requests' : q.from = r.from
           /\ (\A r, q \in requests : r.from = q.from => r = q) =>
                 \A r, q \in requests' : r.from = q.from => r = q
<1>1. requests' = {[r EXCEPT !.live = @ /\ r.from \notin calls] : r \in requests}
  BY DEF Abandoned
<1>2. ASSUME NEW r \in requests
      PROVE  LET q == [r EXCEPT !.live = @ /\ r.from \notin calls] IN
             /\ q.from = r.from /\ q.id = r.id
             /\ q.live => r.live /\ q.from \notin calls
             /\ q \in [from : asked, id : Nat, live : BOOLEAN]
  <2>1. r \in [from : asked, id : Nat, live : BOOLEAN]
    BY DEF TypeOK
  <2> QED
    BY <2>1
<1>3. answers' \subseteq answers /\ \A a \in answers' : a.from \notin calls
  BY DEF Abandoned
<1>4. \A q \in requests' : \E r \in requests :
          /\ q = [r EXCEPT !.live = @ /\ r.from \notin calls]
          /\ q.from = r.from /\ q.id = r.id
          /\ q.live => r.live /\ q.from \notin calls
          /\ q \in [from : asked, id : Nat, live : BOOLEAN]
  BY <1>1, <1>2
<1>5. \A r \in requests : \E q \in requests' : q.from = r.from
  <2> TAKE r \in requests
  <2> DEFINE q == [r EXCEPT !.live = @ /\ r.from \notin calls]
  <2>1. q \in requests'
    BY <1>1
  <2> QED
    BY <1>2, <2>1
<1>6. ASSUME \A r, q \in requests : r.from = q.from => r = q,
             NEW r \in requests', NEW q \in requests', r.from = q.from
      PROVE  r = q
  BY <1>4, <1>6
<1> QED
  BY <1>3, <1>4, <1>5, <1>6

\* A request more, of a call that is now among those asked.
LEMMA RequestMore ==
    ASSUME TypeOK, NEW c \in Calls, asked' = asked \cup {c}, NEW i \in Nat, NEW live \in BOOLEAN
    PROVE  requests \cup {[from |-> c, id |-> i, live |-> live]}
              \subseteq [from : asked', id : Nat, live : BOOLEAN]
<1>1. ASSUME NEW r \in requests PROVE r \in [from : asked', id : Nat, live : BOOLEAN]
  <2>1. r \in [from : asked, id : Nat, live : BOOLEAN]
    BY DEF TypeOK
  <2> QED
    BY <2>1
<1> QED
  BY <1>1

AnswerTo(r, body, plain) ==
    [from |-> r.from, id |-> r.id,
     answer |-> [body |-> body, of |-> Command(call[r.from]), plain |-> plain]]

\* What serving a request with a body does.
ServedBy(r, body, plain) ==
    /\ requests' = requests \ {r}
    /\ performed' = [performed EXCEPT ![r.from] = 1]
    /\ \/ /\ r.live /\ answers' = answers \cup {AnswerTo(r, body, plain)}
          /\ misled' = IF body = Request(call[r.from]).expects THEN misled ELSE misled \cup {r.from}
       \/ ~r.live /\ UNCHANGED <<answers, misled>>
    /\ UNCHANGED <<up, nextId, call, pc, id, got, end, asked>>

LEMMA ServeFacts ==
    ASSUME NetInv, NEW r \in requests, Serve(r)
    PROVE  \E body \in Bodies(call[r.from]), plain \in Configs(call[r.from]) : ServedBy(r, body, plain)
<1>1. performed[r.from] = 0
  BY DEF NetInv
<1> QED
  BY <1>1 DEF Serve, ServedBy, AnswerTo

\* An object of another type is taken for the one expected, or it cannot be converted.
LEMMA OtherObjectEnds ==
    ASSUME NEW type
    PROVE  OtherObject(type) \in {"value", "ValueError", "ProtocolError"}
  BY DEF OtherObject

\* A command that was performed is not answered with an error.
LEMMA ErrorIsNoBody ==
    ASSUME TypeOK, CallInv, NEW c \in Calls, NEW body \in Bodies(call[c])
    PROVE  body # "error" /\ Request(call[c]).expects # "unreadable"
<1>1. Request(call[c]).expects \in AnswerTypes
  BY ScenariosAssumption DEF CallInv
<1> QED
  BY <1>1 DEF AnswerTypes, Bodies

\* Every step keeps the types.
LEMMA TypeStep ==
    ASSUME IInv, [Next]_vars
    PROVE  TypeOK'
<1> USE DEF IInv, TypeOK, Outcomes, netVars, history
<1>1. ASSUME NEW c \in Calls, Refused(c) \/ NotConnected(c) PROVE TypeOK'
  BY <1>1 DEF Refused, NotConnected, Fails, Calling, NextRequestId, EndsWith
<1>2. ASSUME NEW c \in Calls, Asks(c) PROVE TypeOK'
  <2>1. nextId' \in Nat /\ Id(c) \in Nat
    BY <1>2 DEF Asks, Calling, NextRequestId, Id
  <2>2. pc' = [pc EXCEPT ![c] = "waiting"] /\ id' = [id EXCEPT ![c] = Id(c)] /\ pc[c] = "idle"
    BY <1>2 DEF Asks, Calling
  <2>3. asked' = asked \cup {c} /\ asked' \subseteq Calls
    BY <1>2 DEF Asks
  <2>4. requests' = requests \cup {[from |-> c, id |-> Id(c), live |-> TRUE]}
    BY <1>2 DEF Asks
  <2>5. requests' \subseteq [from : asked', id : Nat, live : BOOLEAN]
    BY <2>1, <2>3, <2>4, RequestMore
  <2> QED
    BY <1>2, <2>1, <2>2, <2>3, <2>5 DEF Asks
<1>3. ASSUME NEW c \in Calls, WriteBreaks(c) PROVE TypeOK'
  <2>1. nextId' \in Nat /\ Id(c) \in Nat
    BY <1>3 DEF WriteBreaks, Calling, NextRequestId, Id
  <2>2. requests' \in {requests, requests \cup {[from |-> c, id |-> Id(c), live |-> FALSE]}}
    BY <1>3 DEF WriteBreaks
  <2>3. /\ EndsWith(c, "ConnectionError") /\ asked' = asked \cup {c}
        /\ UNCHANGED <<up, call, id, got, answers, performed, misled>>
    BY <1>3 DEF WriteBreaks
  <2>4. requests \cup {[from |-> c, id |-> Id(c), live |-> FALSE]}
            \subseteq [from : asked', id : Nat, live : BOOLEAN]
    BY <2>1, <2>3, RequestMore
  <2> QED
    BY <2>1, <2>2, <2>3, <2>4 DEF EndsWith
<1>4. ASSUME NEW r \in requests, Serve(r) PROVE TypeOK'
  <2>1. r.from \in Calls /\ r.from \in asked /\ r.id \in Nat
    OBVIOUS
  <2>2. performed' \in [Calls -> Nat] /\ misled' \subseteq Calls
    BY <1>4, <2>1 DEF Serve
  <2>3. \A a \in answers' : a.from \in asked /\ a.id \in Nat
    BY <1>4, <2>1 DEF Serve
  <2> QED
    BY <1>4, <2>2, <2>3 DEF Serve
<1>5. ASSUME NEW r \in requests, Reject(r) PROVE TypeOK'
  <2>1. r.from \in asked /\ r.id \in Nat
    OBVIOUS
  <2> QED
    BY <1>5, <2>1 DEF Reject
<1>6. ASSUME NEW a \in answers, Receive(a) \/ ReceiveHttp(a) PROVE TypeOK'
  <2>1. \/ got' = got /\ pc' = pc
        \/ \E c \in Calls : pc[c] = "waiting" /\ Arrives(a, c)
    BY <1>6 DEF Receive, ReceiveHttp, Resolves, IdInv, Ws
  <2>2. ASSUME NEW c \in Calls, pc[c] = "waiting", Arrives(a, c)
        PROVE  /\ pc' \in [Calls -> {"idle", "waiting", "answered", "lost", "done"}]
               /\ \A d \in Calls : pc'[d] = "done" <=> end[d] # "none"
               /\ DOMAIN got' = Calls
    BY <2>2 DEF Arrives
  <2> QED
    BY <1>6, <2>1, <2>2 DEF Receive, ReceiveHttp
<1>7. ASSUME NEW c \in Calls, Returns(c) PROVE TypeOK'
  BY <1>7, OtherObjectEnds DEF Returns, EndsWith, Ends, WsEnd, HttpEnd
<1>8. ASSUME NEW c \in Calls, ReturnsLost(c) \/ TimesOut(c) PROVE TypeOK'
  BY <1>8 DEF ReturnsLost, TimesOut, EndsWith
<1>9. ASSUME NEW c \in Calls, HttpFails(c) PROVE TypeOK'
  <2>1. /\ answers' \subseteq answers
        /\ requests' \subseteq [from : asked, id : Nat, live : BOOLEAN]
    BY <1>9, AbandonedFacts DEF HttpFails
  <2> QED
    BY <1>9, <2>1 DEF HttpFails, EndsWith
<1>10. CASE Disconnect
  <2>1. /\ answers' \subseteq answers
        /\ requests' \subseteq [from : asked, id : Nat, live : BOOLEAN]
    BY <1>10, AbandonedFacts DEF Disconnect, OverWs
  <2> QED
    BY <1>10, <2>1 DEF Disconnect
<1>11. CASE LogsIn \/ UNCHANGED vars
  BY <1>11 DEF LogsIn, vars
<1> QED
  BY <1>1, <1>2, <1>3, <1>4, <1>5, <1>6, <1>7, <1>8, <1>9, <1>10, <1>11 DEF Next, CallStep

\* Calls stay what they are, and only those that pass are sent and performed.
LEMMA CallInvStep ==
    ASSUME IInv, [Next]_vars
    PROVE  CallInv'
<1> USE DEF IInv, TypeOK, CallInv, netVars, history
<1>1. ASSUME NEW c \in Calls, Refused(c) \/ NotConnected(c) PROVE CallInv'
  BY <1>1 DEF Refused, NotConnected, Fails, Calling, EndsWith
<1>2. ASSUME NEW c \in Calls, Asks(c) PROVE CallInv'
  BY <1>2 DEF Asks, Calling
<1>3. ASSUME NEW c \in Calls, WriteBreaks(c) PROVE CallInv'
  BY <1>3 DEF WriteBreaks, Calling, EndsWith
<1>4. ASSUME NEW r \in requests, Serve(r) PROVE CallInv'
  <2>1. r.from \in asked /\ performed[r.from] = 0
    BY DEF NetInv
  <2>2. performed' = [performed EXCEPT ![r.from] = 1]
    BY <1>4, <2>1 DEF Serve
  <2> QED
    BY <1>4, <2>1, <2>2 DEF Serve
<1>5. ASSUME NEW r \in requests, Reject(r) PROVE CallInv'
  BY <1>5 DEF Reject
<1>6. ASSUME NEW a \in answers, Receive(a) \/ ReceiveHttp(a) PROVE CallInv'
  BY <1>6 DEF Receive, ReceiveHttp, Resolves, Arrives
<1>7. ASSUME NEW c \in Calls, Returns(c) \/ ReturnsLost(c) \/ TimesOut(c) PROVE CallInv'
  BY <1>7 DEF Returns, ReturnsLost, TimesOut, EndsWith
<1>8. ASSUME NEW c \in Calls, HttpFails(c) PROVE CallInv'
  BY <1>8 DEF HttpFails, EndsWith
<1>9. CASE Disconnect
  BY <1>9 DEF Disconnect
<1>10. CASE LogsIn \/ UNCHANGED vars
  BY <1>10 DEF LogsIn, vars
<1> QED
  BY <1>1, <1>2, <1>3, <1>4, <1>5, <1>6, <1>7, <1>8, <1>9, <1>10 DEF Next, CallStep

\* A call still has one request or one true answer on the way.
LEMMA NetInvStep ==
    ASSUME IInv, [Next]_vars
    PROVE  NetInv'
<1> USE DEF IInv, TypeOK, CallInv, NetInv, netVars, history
<1>1. ASSUME NEW c \in Calls, Refused(c) \/ NotConnected(c) PROVE NetInv'
  BY <1>1 DEF Refused, NotConnected, Fails, Truthful
<1>2. ASSUME NEW c \in Calls, Asks(c) \/ WriteBreaks(c) PROVE NetInv'
  <2>1. c \notin asked /\ performed[c] = 0
    BY <1>2 DEF Asks, WriteBreaks, Calling
  <2>2. /\ UNCHANGED <<call, answers, performed, misled>>
        /\ \E r : r.from = c /\ requests' \in {requests, requests \cup {r}}
    BY <1>2 DEF Asks, WriteBreaks
  <2> QED
    BY <2>1, <2>2 DEF Truthful
<1>3. ASSUME NEW r \in requests, Serve(r) PROVE NetInv'
  <2>1. PICK body \in Bodies(call[r.from]), plain \in Configs(call[r.from]) : ServedBy(r, body, plain)
    BY <1>3, ServeFacts
  <2>2. body # "error"
    BY ErrorIsNoBody
  <2> PICK a : a = AnswerTo(r, body, plain)
    OBVIOUS
  <2>3. a.from = r.from /\ a.answer.body = body /\ a.answer.of = Command(call[r.from])
    BY DEF AnswerTo
  <2>4. /\ answers' \in {answers, answers \cup {a}}
        /\ requests' = requests \ {r} /\ UNCHANGED call
        /\ performed' = [performed EXCEPT ![r.from] = 1]
        /\ misled \subseteq misled' /\ misled' \subseteq misled \cup {r.from}
        /\ a \in answers' => a \in answers \/ body = Request(call[r.from]).expects \/ r.from \in misled'
    BY <2>1 DEF ServedBy
  <2>5. performed'[r.from] = 1 /\ \A c \in Calls \ {r.from} : performed'[c] = performed[c]
    BY <2>4
  <2>6. \A r2 \in requests' : performed'[r2.from] = 0
    BY <2>4, <2>5
  <2>7. \A b \in answers \cap answers' : Truthful(b.from, b.answer)'
    BY <2>4, <2>5 DEF Truthful
  <2>8. a \in answers' => Truthful(r.from, a.answer)'
    BY <2>2, <2>3, <2>4, <2>5, <2>7 DEF Truthful
  <2> QED
    BY <2>3, <2>4, <2>6, <2>7, <2>8
<1>4. ASSUME NEW r \in requests, Reject(r) PROVE NetInv'
  <2> DEFINE a == [from |-> r.from, id |-> r.id, answer |-> [NoAnswer EXCEPT !.body = "error"]]
  <2>1. a.from = r.from /\ a.answer.body = "error"
    BY DEF NoAnswer
  <2>2. /\ answers' \in {answers, answers \cup {a}}
        /\ requests' = requests \ {r} /\ UNCHANGED <<call, performed, misled>>
    BY <1>4 DEF Reject
  <2> HIDE DEF a
  <2> QED
    BY <2>1, <2>2 DEF Truthful
<1>5. ASSUME NEW a \in answers, Receive(a) \/ ReceiveHttp(a) PROVE NetInv'
  BY <1>5 DEF Receive, ReceiveHttp, Truthful
<1>6. ASSUME NEW c \in Calls, Returns(c) \/ ReturnsLost(c) \/ TimesOut(c) PROVE NetInv'
  BY <1>6 DEF Returns, ReturnsLost, TimesOut, Truthful
<1>7. ASSUME NEW calls \in SUBSET Calls, Abandoned(calls), UNCHANGED <<call, history>>
      PROVE  NetInv'
  <2>1. /\ answers' \subseteq answers
        /\ \A q \in requests' : \E r \in requests : q.from = r.from
        /\ \A r, q \in requests' : r.from = q.from => r = q
    BY <1>7, AbandonedFacts
  <2> QED
    BY <1>7, <2>1 DEF Truthful
<1>8. ASSUME NEW c \in Calls, HttpFails(c) PROVE NetInv'
  BY <1>7, <1>8 DEF HttpFails
<1>9. CASE Disconnect
  BY <1>7, <1>9 DEF Disconnect, OverWs
<1>10. CASE LogsIn \/ UNCHANGED vars
  BY <1>10 DEF LogsIn, vars, Truthful
<1> QED
  BY <1>1, <1>2, <1>3, <1>4, <1>5, <1>6, <1>8, <1>9, <1>10 DEF Next, CallStep

\* A step that takes no id and lets nobody wait: what is on the way comes from what
\* was on the way.
LEMMA IdFrame ==
    ASSUME IInv, nextId <= nextId', nextId' \in Nat, UNCHANGED <<call, id>>,
           \A c \in Calls : pc'[c] = "waiting" => pc[c] = "waiting",
           \A x \in requests' \cup answers' :
              \E y \in requests \cup answers : x.from = y.from /\ x.id = y.id,
           \A r \in requests' : r.live /\ ~Ws(r.from) => pc'[r.from] = "waiting",
           \A a \in answers' : ~Ws(a.from) => pc'[a.from] = "waiting"
    PROVE  IdInv'
<1>1. \A x \in requests \cup answers : x.id \in Nat /\ x.from \in Calls
  BY DEF IInv, TypeOK
<1>2. \A c \in Calls : id'[c] <= nextId'
  BY DEF IInv, TypeOK, IdInv
<1>3. \A x \in requests' \cup answers' : Ws(x.from)' =>
          /\ x.id <= nextId'
          /\ \A c \in Calls : Ws(c)' /\ pc'[c] = "waiting" /\ id'[c] = x.id => c = x.from
  BY <1>1 DEF IInv, TypeOK, IdInv, Ws
<1> QED
  BY <1>2, <1>3 DEF IdInv, Ws

\* A request takes an id that nothing on the way has.
LEMMA IdAsk ==
    ASSUME IInv, NEW c \in Calls, Calling(c), Passes(call[c]), NEW live \in BOOLEAN,
           requests' \in {requests, requests \cup {[from |-> c, id |-> Id(c), live |-> live]}},
           UNCHANGED <<call, answers>>,
           \/ live /\ pc' = [pc EXCEPT ![c] = "waiting"] /\ id' = [id EXCEPT ![c] = Id(c)]
           \/ ~live /\ pc' = [pc EXCEPT ![c] = "done"] /\ UNCHANGED id
    PROVE  IdInv'
<1> USE DEF IInv, TypeOK, CallInv, IdInv
<1>1. /\ nextId' = (IF Ws(c) THEN nextId + 1 ELSE nextId)
      /\ Id(c) = (IF Ws(c) THEN nextId + 1 ELSE 0)
  BY DEF Calling, Passes, NextRequestId, Id, Ws
<1>2. \A x \in requests \cup answers : x.id \in Nat /\ x.from \in Calls /\ x.from # c
  BY DEF Calling
<1>3. \A d \in Calls : id'[d] <= nextId'
  BY <1>1
<1>4. ASSUME NEW x \in requests \cup answers, Ws(x.from)
      PROVE  /\ x.id <= nextId'
             /\ \A d \in Calls : Ws(d) /\ pc'[d] = "waiting" /\ id'[d] = x.id => d = x.from
  <2>1. x.id \in Nat /\ x.id <= nextId /\ x.from \in Calls
    BY <1>2, <1>4
  <2>2. \A d \in Calls \ {c} : Ws(d) /\ pc'[d] = "waiting" /\ id'[d] = x.id => d = x.from
    BY <1>4
  <2>3. Ws(c) /\ pc'[c] = "waiting" => id'[c] # x.id
    BY <1>1, <2>1
  <2> QED
    BY <1>1, <2>1, <2>2, <2>3
<1>5. \A d \in Calls : Ws(c) /\ Ws(d) /\ pc'[d] = "waiting" /\ id'[d] = Id(c) => d = c
  BY <1>1
<1>6. /\ \A r \in requests : r.live /\ ~Ws(r.from) => pc'[r.from] = "waiting"
      /\ \A a \in answers : ~Ws(a.from) => pc'[a.from] = "waiting"
  BY <1>2
<1>7. PICK n : n = [from |-> c, id |-> Id(c), live |-> live]
  OBVIOUS
<1>8. n.from = c /\ n.id = Id(c) /\ n.live = live /\ requests' \in {requests, requests \cup {n}}
  BY <1>7
<1>9. Id(c) <= nextId' /\ (live => pc'[c] = "waiting")
  BY <1>1
<1>10. \A x \in requests' \cup answers' : Ws(x.from) =>
          /\ x.id <= nextId'
          /\ \A d \in Calls : Ws(d) /\ pc'[d] = "waiting" /\ id'[d] = x.id => d = x.from
  BY <1>4, <1>5, <1>8, <1>9
<1>11. \A r \in requests' : r.live /\ ~Ws(r.from) => pc'[r.from] = "waiting"
  BY <1>6, <1>8, <1>9
<1> QED
  BY <1>3, <1>6, <1>10, <1>11 DEF Ws

\* Ids stay apart.
LEMMA IdInvStep ==
    ASSUME IInv, [Next]_vars
    PROVE  IdInv'
<1> USE DEF IInv, TypeOK, IdInv, netVars, history
<1>1. ASSUME NEW c \in Calls, Refused(c) \/ NotConnected(c) PROVE IdInv'
  <2>1. nextId <= nextId' /\ nextId' \in Nat
    BY <1>1 DEF Refused, NotConnected, Fails, Calling, NextRequestId
  <2>2. \A x \in requests \cup answers : x.from # c
    BY <1>1 DEF Refused, NotConnected, Fails, Calling, CallInv
  <2> QED
    BY <1>1, <2>1, <2>2, IdFrame DEF Refused, NotConnected, Fails, EndsWith
<1>2. ASSUME NEW c \in Calls, Asks(c) PROVE IdInv'
  BY <1>2, IdAsk DEF Asks
<1>3. ASSUME NEW c \in Calls, WriteBreaks(c) PROVE IdInv'
  BY <1>3, IdAsk DEF WriteBreaks, EndsWith
<1>4. ASSUME NEW r \in requests, Serve(r) PROVE IdInv'
  <2>1. PICK body \in Bodies(call[r.from]), plain \in Configs(call[r.from]) : ServedBy(r, body, plain)
    BY <1>4, ServeFacts
  <2>2. PICK a : a = AnswerTo(r, body, plain)
    OBVIOUS
  <2>3. a.from = r.from /\ a.id = r.id
    BY <2>2 DEF AnswerTo
  <2>4. /\ requests' \subseteq requests
        /\ (r.live /\ answers' = answers \cup {a}) \/ answers' = answers
        /\ UNCHANGED <<nextId, call, pc, id>>
    BY <2>1, <2>2 DEF ServedBy
  <2> QED
    BY <2>3, <2>4, IdFrame
<1>5. ASSUME NEW r \in requests, Reject(r) PROVE IdInv'
  <2>1. PICK a : a = [from |-> r.from, id |-> r.id, answer |-> [NoAnswer EXCEPT !.body = "error"]]
    OBVIOUS
  <2>2. a.from = r.from /\ a.id = r.id
    BY <2>1
  <2>3. /\ requests' \subseteq requests
        /\ (r.live /\ answers' = answers \cup {a}) \/ answers' = answers
        /\ UNCHANGED <<nextId, call, pc, id>>
    BY <1>5, <2>1 DEF Reject
  <2> QED
    BY <2>2, <2>3, IdFrame
<1>6. ASSUME NEW a \in answers, Receive(a) PROVE IdInv'
  <2>1. \/ pc' = pc
        \/ \E c \in Calls : Ws(c) /\ pc' = [pc EXCEPT ![c] = "answered"]
    BY <1>6 DEF Receive, Resolves, Arrives, Ws
  <2>2. answers' \subseteq answers /\ UNCHANGED <<nextId, call, id, requests>>
    BY <1>6 DEF Receive
  <2> QED
    BY <2>1, <2>2, IdFrame
<1>7. ASSUME NEW a \in answers, ReceiveHttp(a) PROVE IdInv'
  <2>1. answers' = answers \ {a} /\ UNCHANGED <<nextId, call, id, requests>>
    BY <1>7 DEF ReceiveHttp
  <2>2. pc' = [pc EXCEPT ![a.from] = "answered"]
    BY <1>7 DEF ReceiveHttp, Arrives
  <2>3. \A x \in requests' \cup answers' : x.from # a.from
    BY <2>1 DEF NetInv
  <2> QED
    BY <2>1, <2>2, <2>3, IdFrame
<1>8. ASSUME NEW c \in Calls, Returns(c) \/ ReturnsLost(c) \/ TimesOut(c) PROVE IdInv'
  <2>1. /\ UNCHANGED <<nextId, call, id, requests, answers>>
        /\ pc' = [pc EXCEPT ![c] = "done"] /\ (pc[c] = "waiting" => Ws(c))
    BY <1>8 DEF Returns, ReturnsLost, TimesOut, EndsWith, Ws
  <2> QED
    BY <2>1, IdFrame
<1>9. ASSUME NEW c \in Calls, HttpFails(c) PROVE IdInv'
  <2>1. /\ UNCHANGED <<nextId, call, id>> /\ pc' = [pc EXCEPT ![c] = "done"]
        /\ Abandoned({c})
    BY <1>9 DEF HttpFails, EndsWith
  <2> QED
    BY <2>1, AbandonedFacts, IdFrame
<1>10. CASE Disconnect
  <2>1. /\ UNCHANGED <<nextId, call, id>> /\ Abandoned(OverWs) /\ OverWs \in SUBSET Calls
        /\ \A c \in Calls : pc'[c] = "waiting" => pc[c] = "waiting"
        /\ \A c \in Calls : ~Ws(c) => pc'[c] = pc[c]
    BY <1>10 DEF Disconnect, OverWs, Ws
  <2> QED
    BY <2>1, AbandonedFacts, IdFrame
<1>11. CASE LogsIn \/ UNCHANGED vars
  BY <1>11, IdFrame DEF LogsIn, vars
<1> QED
  BY <1>1, <1>2, <1>3, <1>4, <1>5, <1>6, <1>7, <1>8, <1>9, <1>10, <1>11 DEF Next, CallStep

\* What a step must not touch of a call that has ended or has its answer.
LEMMA EndFrame ==
    ASSUME NEW c \in Calls, EndOf(c), UNCHANGED <<call, pc[c], got[c], end[c], performed[c]>>,
           misled \subseteq misled', c \in asked' => c \in asked,
           \A r \in requests' : r.from = c => \E q \in requests : q.from = c,
           \A a \in answers' : a.from = c => \E x \in requests \cup answers : x.from = c
    PROVE  EndOf(c)'
<1>1. IsSettled(c) => IsSettled(c)'
  BY DEF IsSettled
<1>2. pc'[c] = "answered" => IsSettled(c)' /\ Truthful(c, got[c])'
  BY <1>1 DEF EndOf, Truthful
<1>3. (\A r \in requests : r.from # c) => \A r \in requests' : r.from # c
  OBVIOUS
<1>4. TellsTheTruth(c)'
  BY <1>3 DEF EndOf, TellsTheTruth
<1> QED
  BY <1>2, <1>3, <1>4 DEF EndOf, Ws

\* What is returned or raised for a true answer is true.
LEMMA EndOfAnswer ==
    ASSUME TypeOK, CallInv, NEW c \in Calls, IsSettled(c), Truthful(c, got[c]),
           NEW outcome \in Ends(call[c], got[c]),
           end' = [end EXCEPT ![c] = outcome], pc' = [pc EXCEPT ![c] = "done"],
           UNCHANGED <<call, got, performed, misled, asked, requests, answers>>
    PROVE  EndOf(c)'
<1> USE DEF TypeOK
<1>1. end'[c] = outcome /\ pc'[c] = "done"
  OBVIOUS
<1>2. got[c].body # "error" => performed[c] = 1 /\ got[c].of = Command(call[c])
  BY DEF Truthful
<1>3. got[c].body = "error" => performed[c] = 0
  BY DEF Truthful
<1>4. \A r \in requests : r.from # c
  BY DEF IsSettled
<1>5. Request(call[c]).expects \notin {"error", "unreadable"}
  BY ScenariosAssumption DEF CallInv, AnswerTypes
<1>6. got[c].body # "error" /\ got[c].body # Request(call[c]).expects => c \in misled
  BY DEF Truthful
<1>7. CASE Ws(c)
  <2>1. outcome \in WsEnd(call[c], got[c])
    BY <1>7 DEF Ends, Ws
  <2>2. \/ outcome = "ServerError" /\ got[c].body = "error"
        \/ outcome = "value" /\ got[c].body # "error"
        \/ outcome = "ProtocolError" /\ got[c].body # "error" /\ c \in misled
    BY <2>1, <1>6 DEF WsEnd
  <2>3. TellsTheTruth(c)'
    BY <1>1, <1>3, <1>4, <2>2 DEF TellsTheTruth
  <2> QED
    BY <1>1, <1>2, <2>2, <2>3 DEF EndOf
<1>8. CASE ~Ws(c)
  <2>1. call[c].via = "http"
    BY <1>8, ScenariosAssumption DEF Ws, CallInv
  <2>2. outcome \in HttpEnd(call[c], got[c])
    BY <2>1 DEF Ends
  <2>3. \/ outcome = "ProtocolError" /\ got[c].body = "error"
        \/ outcome = "value" /\ got[c].body # "error"
        \/ outcome = "ValueError" /\ Converted(call[c])
        \/ outcome \in {"ProtocolError", "ValueError", "TypeError"} /\ c \in misled
    BY <2>2, <1>5, <1>6, OtherObjectEnds DEF HttpEnd
  <2>4. TellsTheTruth(c)'
    BY <1>1, <1>3, <1>4, <2>1, <2>3 DEF TellsTheTruth
  <2> QED
    BY <1>1, <1>2, <1>3, <1>4, <1>8, <2>3, <2>4 DEF EndOf, Ws
<1> QED
  BY <1>7, <1>8

\* Ends stay true.
LEMMA EndInvStep ==
    ASSUME IInv, [Next]_vars
    PROVE  EndInv'
<1> USE DEF IInv, TypeOK, netVars, history
<1>1. ASSUME NEW c \in Calls, Refused(c) \/ NotConnected(c) PROVE EndInv'
  <2>1. /\ c \notin asked /\ end'[c] \in {"ValueError", "NotConnectedError"} /\ pc'[c] = "done"
        /\ asked' = asked
    BY <1>1 DEF Refused, NotConnected, Fails, Calling, EndsWith, CallInv
  <2>2. EndOf(c)'
    BY <2>1 DEF EndOf, TellsTheTruth
  <2>3. \A d \in Calls \ {c} : EndOf(d)'
    BY <1>1, EndFrame DEF Refused, NotConnected, Fails, EndsWith, EndInv
  <2> QED
    BY <2>2, <2>3 DEF EndInv
<1>2. ASSUME NEW c \in Calls, Asks(c) \/ WriteBreaks(c) PROVE EndInv'
  <2>1. PICK n : n.from = c /\ requests' \in {requests, requests \cup {n}}
    BY <1>2 DEF Asks, WriteBreaks
  <2>2. pc'[c] # "answered" /\ end'[c] \in {"none", "ConnectionError"}
    BY <1>2 DEF Asks, WriteBreaks, Calling, EndsWith
  <2>3. EndOf(c)'
    BY <2>2 DEF EndOf, TellsTheTruth
  <2>4. ASSUME NEW d \in Calls \ {c} PROVE EndOf(d)'
    <3>1. /\ UNCHANGED <<call, pc[d], got[d], end[d], performed[d], misled, answers>>
          /\ asked' = asked \cup {c}
      BY <1>2 DEF Asks, WriteBreaks, EndsWith
    <3>2. EndOf(d)
      BY DEF EndInv
    <3> QED
      BY <2>1, <3>1, <3>2, EndFrame
  <2> QED
    BY <2>3, <2>4 DEF EndInv
<1>3. ASSUME NEW r \in requests, Serve(r) PROVE EndInv'
  <2>1. PICK body \in Bodies(call[r.from]), plain \in Configs(call[r.from]) : ServedBy(r, body, plain)
    BY <1>3, ServeFacts
  <2>2. PICK a : a = AnswerTo(r, body, plain)
    OBVIOUS
  <2>3. /\ a.from = r.from /\ requests' = requests \ {r}
        /\ answers' \in {answers, answers \cup {a}}
        /\ misled \subseteq misled' /\ performed' = [performed EXCEPT ![r.from] = 1]
        /\ UNCHANGED <<call, pc, got, end, asked>>
    BY <2>1, <2>2 DEF ServedBy, AnswerTo
  <2>4. ASSUME NEW c \in Calls, c # r.from PROVE EndOf(c)'
    <3>1. EndOf(c) /\ performed'[c] = performed[c]
      BY <2>3, <2>4 DEF EndInv
    <3>2. /\ \A q \in requests' : q \in requests
          /\ \A x \in answers' : x.from = c => x \in answers
      BY <2>3, <2>4
    <3> QED
      BY <2>3, <3>1, <3>2, EndFrame
  <2>5. r.from \in Calls /\ r.from \in asked /\ performed[r.from] = 0 /\ EndOf(r.from)
    BY DEF NetInv, EndInv
  <2>6. pc[r.from] # "answered" /\ end[r.from] \notin {"value", "ServerError"}
    BY <2>5 DEF EndOf, IsSettled, TellsTheTruth
  <2>7. end[r.from] = "ProtocolError" => r.from \in misled
    BY <2>5 DEF EndOf
  <2>8. EndOf(r.from)'
    BY <2>3, <2>5, <2>6, <2>7 DEF EndOf, TellsTheTruth
  <2> QED
    BY <2>4, <2>8 DEF EndInv
<1>4. ASSUME NEW r \in requests, Reject(r) PROVE EndInv'
  <2>1. PICK a : a = [from |-> r.from, id |-> r.id, answer |-> [NoAnswer EXCEPT !.body = "error"]]
    OBVIOUS
  <2>2. /\ a.from = r.from /\ requests' = requests \ {r}
        /\ answers' \in {answers, answers \cup {a}}
        /\ UNCHANGED <<call, pc, got, end, asked, performed, misled>>
    BY <1>4, <2>1 DEF Reject
  <2>3. ASSUME NEW c \in Calls PROVE EndOf(c)'
    <3>1. EndOf(c)
      BY DEF EndInv
    <3>2. /\ \A q \in requests' : q \in requests
          /\ \A x \in answers' : x \in answers \/ x.from = r.from
      BY <2>2
    <3> QED
      BY <2>2, <3>1, <3>2, EndFrame
  <2> QED
    BY <2>3 DEF EndInv
<1>5. ASSUME NEW a \in answers, Receive(a) \/ ReceiveHttp(a) PROVE EndInv'
  <2>1. /\ answers' = answers \ {a}
        /\ UNCHANGED <<call, end, requests, asked, performed, misled>>
    BY <1>5 DEF Receive, ReceiveHttp
  <2>2. UNCHANGED <<got, pc>> \/ (pc[a.from] = "waiting" /\ Arrives(a, a.from))
    BY <1>5 DEF Receive, ReceiveHttp, Resolves, IdInv, Ws
  <2>3. ASSUME NEW c \in Calls, pc'[c] = pc[c], got'[c] = got[c] PROVE EndOf(c)'
    BY <2>1, <2>3, EndFrame DEF EndInv
  <2>4. ASSUME pc[a.from] = "waiting", Arrives(a, a.from) PROVE EndInv'
    <3>1. /\ a.from \in Calls /\ got'[a.from] = a.answer /\ pc'[a.from] = "answered"
          /\ \A c \in Calls \ {a.from} : pc'[c] = pc[c] /\ got'[c] = got[c]
      BY <2>4 DEF Arrives
    <3>2. pc[a.from] = "waiting" /\ end[a.from] = "none"
      BY <2>4
    <3>3. IsSettled(a.from)' /\ Truthful(a.from, a.answer)'
      BY <2>1 DEF NetInv, IsSettled, Truthful
    <3>4. EndOf(a.from)'
      BY <2>1, <3>1, <3>2, <3>3 DEF EndOf, TellsTheTruth, Truthful
    <3> QED
      BY <2>3, <3>1, <3>4 DEF EndInv
  <2> QED
    BY <2>2, <2>3, <2>4 DEF EndInv
<1>6. ASSUME NEW c \in Calls, Returns(c) PROVE EndInv'
  <2>1. PICK outcome \in Ends(call[c], got[c]) : EndsWith(c, outcome)
    BY <1>6 DEF Returns
  <2>2. IsSettled(c) /\ Truthful(c, got[c])
    BY <1>6 DEF Returns, EndInv, EndOf
  <2>3. EndOf(c)'
    BY <1>6, <2>1, <2>2, EndOfAnswer DEF Returns, EndsWith
  <2>4. \A d \in Calls \ {c} : EndOf(d)'
    BY <1>6, <2>1, EndFrame DEF Returns, EndsWith, EndInv
  <2> QED
    BY <2>3, <2>4 DEF EndInv
<1>7. ASSUME NEW c \in Calls, ReturnsLost(c) \/ TimesOut(c) PROVE EndInv'
  <2>1. EndOf(c)'
    BY <1>7 DEF ReturnsLost, TimesOut, EndsWith, EndOf, TellsTheTruth
  <2>2. \A d \in Calls \ {c} : EndOf(d)'
    BY <1>7, EndFrame DEF ReturnsLost, TimesOut, EndsWith, EndInv
  <2> QED
    BY <2>1, <2>2 DEF EndInv
<1>8. ASSUME NEW c \in Calls, HttpFails(c) PROVE EndInv'
  <2>1. EndOf(c)'
    BY <1>8 DEF HttpFails, EndsWith, EndOf, TellsTheTruth
  <2>2. Abandoned({c}) /\ UNCHANGED <<call, got, asked, performed, misled>>
    BY <1>8 DEF HttpFails
  <2>3. \A d \in Calls \ {c} : pc'[d] = pc[d] /\ end'[d] = end[d]
    BY <1>8 DEF HttpFails, EndsWith
  <2>4. answers' \subseteq answers /\ \A q \in requests' : \E r \in requests : q.from = r.from
    BY <2>2, AbandonedFacts
  <2>5. \A d \in Calls \ {c} : EndOf(d)'
    BY <2>2, <2>3, <2>4, EndFrame DEF EndInv
  <2> QED
    BY <2>1, <2>5 DEF EndInv
<1>9. CASE Disconnect
  <2>1. Abandoned(OverWs) /\ UNCHANGED <<call, got, end, asked, performed, misled>>
    BY <1>9 DEF Disconnect
  <2>2. answers' \subseteq answers /\ \A q \in requests' : \E r \in requests : q.from = r.from
    BY <2>1, AbandonedFacts DEF OverWs
  <2>3. ASSUME NEW c \in Calls PROVE EndOf(c)'
    <3>1. pc'[c] = pc[c] \/ (pc[c] = "waiting" /\ pc'[c] = "lost")
      BY <1>9 DEF Disconnect
    <3>2. CASE pc'[c] = pc[c]
      BY <2>1, <2>2, <3>2, EndFrame DEF EndInv
    <3>3. CASE pc[c] = "waiting" /\ pc'[c] = "lost"
      BY <2>1, <3>3 DEF EndOf, TellsTheTruth
    <3> QED
      BY <3>1, <3>2, <3>3
  <2> QED
    BY <2>3 DEF EndInv
<1>10. CASE LogsIn \/ UNCHANGED vars
  BY <1>10, EndFrame DEF LogsIn, vars, EndInv
<1> QED
  BY <1>1, <1>2, <1>3, <1>4, <1>5, <1>6, <1>7, <1>8, <1>9, <1>10 DEF Next, CallStep

-----------------------------------------------------------------------------
(* Theorems                                                                *)

LEMMA InitInv == Init => IInv
<1> SUFFICES ASSUME Init PROVE IInv
  OBVIOUS
<1>1. TypeOK
  BY DEF Init, TypeOK
<1>2. CallInv /\ NetInv
  BY DEF Init, CallInv, NetInv
<1>3. IdInv
  BY DEF Init, IdInv
<1>4. EndInv
  BY DEF Init, EndInv, EndOf, TellsTheTruth
<1> QED
  BY <1>1, <1>2, <1>3, <1>4 DEF IInv

LEMMA NextInv == IInv /\ [Next]_vars => IInv'
BY TypeStep, CallInvStep, NetInvStep, IdInvStep, EndInvStep DEF IInv

\* Whatever the calls and their arguments, at any time: a call has one request or
\* one answer on the way, ids belong to one call, ends are true.
THEOREM Invariant == Spec => []IInv
BY InitInv, NextInv, PTL DEF Spec

\* _pending holds the calls that are not over, and no others.
THEOREM TypeCorrect == Spec => []TypeOK
<1>1. IInv => TypeOK
  BY DEF IInv
<1> QED
  BY <1>1, Invariant, PTL

\* No exception tells its caller what is not so.
THEOREM Truth == Spec => []ErrorsTellTheTruth
<1>1. IInv => ErrorsTellTheTruth
  BY DEF IInv, EndInv, EndOf, ErrorsTellTheTruth
<1> QED
  BY <1>1, Invariant, PTL

-----------------------------------------------------------------------------
(* CallService                                                             *)

ResultOf(c) == IF AbstractEnd(c) = "value" THEN got[c].of ELSE NoCommand

\* What a step must not touch of a call for CallService not to see it.
Unseen(c) ==
    /\ AbstractEnd(c)' = AbstractEnd(c)
    /\ ResultOf(c)' = ResultOf(c)

LEMMA UnseenFrame ==
    ASSUME NEW c \in Calls, end'[c] = end[c],
           end[c] # "none" => got'[c] = got[c] /\ (c \in asked' <=> c \in asked),
           end[c] = "value" => (c \in misled' <=> c \in misled)
    PROVE  Unseen(c)
BY DEF Unseen, AbstractEnd, ResultOf

\* A step that CallService sees of one call, or of none.
LEMMA SeenOf ==
    ASSUME NEW c \in Calls, \A d \in Calls \ {c} : Unseen(d)
    PROVE  /\ [d \in Calls |-> AbstractEnd(d)]' =
                 [[d \in Calls |-> AbstractEnd(d)] EXCEPT ![c] = AbstractEnd(c)']
           /\ [d \in Calls |-> ResultOf(d)]' =
                 [[d \in Calls |-> ResultOf(d)] EXCEPT ![c] = ResultOf(c)']
BY DEF Unseen

LEMMA SeenOfNone ==
    ASSUME UNCHANGED <<call, asked, performed>>, \A c \in Calls : Unseen(c)
    PROVE  UNCHANGED Service!vars
<1>1. UNCHANGED [c \in Calls |-> AbstractEnd(c)] /\ UNCHANGED [c \in Calls |-> ResultOf(c)]
  BY DEF Unseen
<1> QED
  BY <1>1 DEF Service!vars, ResultOf

\* A call that has not ended ends without a value.
LEMMA EndSeen ==
    ASSUME NEW c \in Calls, AbstractEnd(c) = "none", AbstractEnd(c)' # "value",
           UNCHANGED call, \A d \in Calls \ {c} : Unseen(d)
    PROVE  /\ [d \in Calls |-> AbstractEnd(d)]' =
                 [[d \in Calls |-> AbstractEnd(d)] EXCEPT ![c] = AbstractEnd(c)']
           /\ UNCHANGED [d \in Calls |-> IF AbstractEnd(d) = "value" THEN got[d].of ELSE NoCommand]
           /\ UNCHANGED [d \in Calls |-> IF Passes(call[d]) THEN Command(call[d]) ELSE NoCommand]
<1>1. ResultOf(c)' = ResultOf(c)
  BY DEF ResultOf
<1>2. UNCHANGED [d \in Calls |-> ResultOf(d)]
  BY <1>1 DEF Unseen
<1> QED
  BY <1>2, SeenOf DEF ResultOf

\* A call that gives up an unknown fate is CallService's GiveUp.
LEMMA GivesUp ==
    ASSUME TypeOK, NEW c \in Calls, c \in asked, end[c] = "none",
           NEW outcome \in Outcomes, outcome # "ServerError", outcome # "value" \/ c \in misled,
           end' = [end EXCEPT ![c] = outcome],
           UNCHANGED <<call, got, asked, performed, misled>>
    PROVE  Service!GiveUp(c)
<1>1. end'[c] = outcome /\ outcome # "none" /\ \A d \in Calls \ {c} : end'[d] = end[d]
  BY DEF TypeOK, Outcomes
<1>2. AbstractEnd(c) = "none" /\ AbstractEnd(c)' = "unknown"
  BY <1>1 DEF AbstractEnd
<1>3. \A d \in Calls \ {c} : Unseen(d)
  BY <1>1, UnseenFrame
<1> QED
  BY <1>2, <1>3, EndSeen DEF Service!GiveUp

\* Every step is one of CallService, or none.
LEMMA ServiceStep ==
    ASSUME IInv, IInv', [Next]_vars
    PROVE  [Service!Next]_(Service!vars)
<1> USE DEF netVars, history
<1>0. TypeOK /\ TypeOK' /\ CallInv /\ NetInv
  BY DEF IInv
<1>1. ASSUME NEW c \in Calls, Refused(c) \/ NotConnected(c) PROVE Service!Refuse(c)
  <2>1. /\ c \notin asked /\ end[c] = "none"
        /\ end'[c] # "none" /\ \A d \in Calls \ {c} : end'[d] = end[d]
        /\ UNCHANGED <<call, got, asked, performed, misled>>
    BY <1>0, <1>1 DEF Refused, NotConnected, Fails, Calling, EndsWith, CallInv, TypeOK
  <2>2. AbstractEnd(c) = "none" /\ AbstractEnd(c)' = "refused"
    BY <2>1 DEF AbstractEnd
  <2>3. \A d \in Calls \ {c} : Unseen(d)
    BY <2>1, UnseenFrame
  <2> QED
    BY <2>1, <2>2, <2>3, EndSeen DEF Service!Refuse
<1>2. ASSUME NEW c \in Calls, Asks(c) \/ WriteBreaks(c) PROVE Service!Ask(c)
  <2>1. /\ c \notin asked /\ end[c] = "none" /\ asked' = asked \cup {c}
        /\ end'[c] \in {"none", "ConnectionError"} /\ \A d \in Calls \ {c} : end'[d] = end[d]
        /\ UNCHANGED <<call, got, performed, misled>>
    BY <1>0, <1>2 DEF Asks, WriteBreaks, Calling, EndsWith, CallInv, TypeOK
  <2>2. AbstractEnd(c) = "none" /\ AbstractEnd(c)' \in {"none", "unknown"}
    BY <2>1 DEF AbstractEnd
  <2>3. \A d \in Calls \ {c} : Unseen(d)
    BY <2>1, UnseenFrame
  <2>4. AbstractEnd(c)' = "none" =>
            [d \in Calls |-> AbstractEnd(d)]' = [d \in Calls |-> AbstractEnd(d)]
    BY <2>2, <2>3 DEF Unseen
  <2> QED
    BY <2>1, <2>2, <2>3, <2>4, EndSeen DEF Service!Ask
<1>3. ASSUME NEW r \in requests, Serve(r) PROVE Service!Perform(r.from)
  <2>1. PICK body \in Bodies(call[r.from]), plain \in Configs(call[r.from]) : ServedBy(r, body, plain)
    BY <1>0, <1>3, ServeFacts
  <2>2. /\ r.from \in asked /\ r.from \in Calls /\ performed[r.from] = 0
        /\ end[r.from] \notin {"value", "ServerError"}
    BY <1>0 DEF TypeOK, NetInv, IInv, EndInv, EndOf, TellsTheTruth
  <2>3. /\ performed' = [performed EXCEPT ![r.from] = 1]
        /\ UNCHANGED <<call, got, end, asked>> /\ misled' \cup {r.from} = misled \cup {r.from}
    BY <2>1 DEF ServedBy
  <2>4. \A c \in Calls : Unseen(c)
    BY <2>2, <2>3, UnseenFrame
  <2>5. AbstractEnd(r.from) # "rejected"
    BY <2>2 DEF AbstractEnd
  <2>6. UNCHANGED [c \in Calls |-> AbstractEnd(c)] /\ UNCHANGED [c \in Calls |-> ResultOf(c)]
    BY <2>4 DEF Unseen
  <2> QED
    BY <2>2, <2>3, <2>5, <2>6 DEF Service!Perform, ResultOf
<1>4. ASSUME NEW r \in requests, Reject(r) PROVE UNCHANGED Service!vars
  BY <1>4, UnseenFrame, SeenOfNone DEF Reject
<1>5. ASSUME NEW a \in answers, Receive(a) \/ ReceiveHttp(a) PROVE UNCHANGED Service!vars
  <2>1. UNCHANGED <<call, end, asked, performed, misled>>
    BY <1>5 DEF Receive, ReceiveHttp
  <2>2. got' = got \/ \E c \in Calls : pc[c] = "waiting" /\ got' = [got EXCEPT ![c] = a.answer]
    BY <1>0, <1>5 DEF Receive, ReceiveHttp, Resolves, Arrives, IInv, IdInv, TypeOK, Ws
  <2>3. \A c \in Calls : end[c] # "none" => got'[c] = got[c]
    BY <1>0, <2>2 DEF TypeOK
  <2> QED
    BY <2>1, <2>3, UnseenFrame, SeenOfNone
<1>6. ASSUME NEW c \in Calls, Returns(c)
      PROVE  Service!Return(c) \/ Service!Reject(c) \/ Service!GiveUp(c)
  <2>1. PICK outcome \in Ends(call[c], got[c]) : EndsWith(c, outcome)
    BY <1>6 DEF Returns
  <2>2. outcome \in Outcomes
    BY OtherObjectEnds DEF Ends, WsEnd, HttpEnd, Outcomes
  <2>3. /\ c \in asked /\ Passes(call[c]) /\ end[c] = "none"
        /\ UNCHANGED <<call, got, asked, performed, misled>>
        /\ end' = [end EXCEPT ![c] = outcome]
    BY <1>0, <1>6, <2>1 DEF Returns, CallInv, TypeOK, EndsWith
  <2>4. end'[c] = outcome /\ outcome # "none" /\ \A d \in Calls \ {c} : end'[d] = end[d]
    BY <1>0, <2>2, <2>3 DEF TypeOK, Outcomes
  <2>5. \A d \in Calls \ {c} : Unseen(d)
    BY <2>3, <2>4, UnseenFrame
  <2>6. EndOf(c)'
    BY DEF IInv, EndInv
  <2>7. CASE outcome = "ServerError"
    <3>1. AbstractEnd(c) = "none" /\ AbstractEnd(c)' = "rejected"
      BY <2>3, <2>4, <2>7 DEF AbstractEnd
    <3>2. performed[c] = 0
      BY <2>3, <2>4, <2>6, <2>7 DEF EndOf, TellsTheTruth
    <3> QED
      BY <2>3, <2>5, <3>1, <3>2, EndSeen DEF Service!Reject
  <2>8. CASE outcome = "value" /\ c \notin misled
    <3>1. AbstractEnd(c) = "none" /\ AbstractEnd(c)' = "value"
      BY <2>3, <2>4, <2>8 DEF AbstractEnd
    <3>2. performed[c] = 1 /\ got'[c].of = Command(call[c])
      BY <2>3, <2>4, <2>6, <2>8 DEF EndOf
    <3>3. ResultOf(c)' = Command(call[c])
      BY <3>1, <3>2 DEF ResultOf
    <3> QED
      BY <2>3, <2>5, <3>1, <3>2, <3>3, SeenOf DEF Service!Return, ResultOf
  <2>9. CASE outcome # "ServerError" /\ (outcome # "value" \/ c \in misled)
    BY <1>0, <2>2, <2>3, <2>9, GivesUp
  <2> QED
    BY <2>7, <2>8, <2>9
<1>7. ASSUME NEW c \in Calls, ReturnsLost(c) \/ TimesOut(c) \/ HttpFails(c) PROVE Service!GiveUp(c)
  <2>1. PICK outcome \in {"DisconnectedError", "TimeoutError", "ConnectionError"} : EndsWith(c, outcome)
    BY <1>7 DEF ReturnsLost, TimesOut, HttpFails
  <2>2. /\ c \in asked /\ end[c] = "none"
        /\ UNCHANGED <<call, got, asked, performed, misled>>
    BY <1>0, <1>7 DEF ReturnsLost, TimesOut, HttpFails, CallInv, TypeOK
  <2> QED
    BY <1>0, <2>1, <2>2, GivesUp DEF Outcomes, EndsWith
<1>8. CASE Disconnect \/ LogsIn \/ UNCHANGED vars
  BY <1>8, UnseenFrame, SeenOfNone DEF Disconnect, LogsIn, vars
<1> QED
  BY <1>0, <1>1, <1>2, <1>3, <1>4, <1>5, <1>6, <1>7, <1>8 DEF Next, CallStep, Service!Next, TypeOK

\* However answers are delayed, dropped or confused, a value that is returned is the
\* result of the call's own command, performed once.
THEOREM Implements == Spec => ImplementsService
<1>1. Init => Service!Init
  BY DEF Init, Service!Init, AbstractEnd
<1>2. IInv /\ IInv' /\ [Next]_vars => [Service!Next]_(Service!vars)
  BY ServiceStep
<1> QED
  BY <1>1, <1>2, Invariant, PTL DEF Spec, ImplementsService, Service!Spec

=============================================================================
