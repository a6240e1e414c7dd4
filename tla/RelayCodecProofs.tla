-------------------------- MODULE RelayCodecProofs --------------------------
(***************************************************************************)
(* An envelope comes back from its encoding: the fields take the empty     *)
(* envelope to the envelope one after the other, a field that is not known *)
(* changes nothing, and of an encoding that was cut a part is left.        *)
(***************************************************************************)
EXTENDS RelayFrames, RelayWireProofs

-----------------------------------------------------------------------------
(* Sessions                                                                *)

SessionChange == [p \in Session \X Fields |-> SessionField(p[1], p[2])]
SessionDecoder == [data \in Seq(Byte) |-> FieldsFrom(SessionField, Session, data)]

\* The sign of a word.
LEMMA SignedType == ASSUME NEW n \in Nat PROVE Signed(n) \in Int
BY Widths DEF Signed

\* Bytes are numbers.
LEMMA BytesAreNumbers == ASSUME NEW s \in Seq(Byte) PROVE s \in Seq(Nat)
<1>1. Byte \subseteq Nat
  BY Widths DEF Byte
<1> QED
  BY <1>1, SeqMonotonic

\* A field makes a session of a session, or is refused.
LEMMA SessionFieldType ==
    ASSUME NEW s \in Session, NEW f \in Fields
    PROVE  SessionField(s, f) \in Results(Session)
<1>1. CASE Is(f, 1, 0)
  <2>1. Signed(f.value) \in Int
    BY <1>1, SignedType DEF Fields, Is
  <2>2. [s EXCEPT !.serving_node_id = Signed(f.value)] \in Session
    BY <2>1 DEF Session
  <2>3. ~Is(f, 2, 2)
    BY <1>1 DEF Is
  <2>4. SessionField(s, f) = [s EXCEPT !.serving_node_id = Signed(f.value)]
    BY <1>1, <2>3 DEF SessionField
  <2> QED
    BY <2>2, <2>4 DEF Results
<1>2. CASE ~Is(f, 1, 0) /\ Is(f, 2, 2)
  <2>1. f.value \in Seq(Nat)
    BY <1>2, BytesAreNumbers DEF Fields, Is
  <2>2. [s EXCEPT !.session_id = f.value] \in Session
    BY <2>1 DEF Session
  <2> QED
    BY <1>2, <2>2 DEF SessionField, Results
<1>3. CASE ~Is(f, 1, 0) /\ ~Is(f, 2, 2)
  BY <1>3 DEF SessionField, Results
<1> QED
  BY <1>1, <1>2, <1>3

\* DecodeSession is a decoder of sessions.
LEMMA SessionDecodes == Decodes(SessionDecoder, SessionChange, Session)
<1>1. Changes(SessionChange, Session)
  <2>1. \A m \in Session : m.ok
    BY DEF Session
  <2>2. \A m \in Session, f \in Fields : SessionChange[<<m, f>>] = SessionField(m, f)
    BY DEF SessionChange
  <2> QED
    BY <2>1, <2>2, SessionFieldType DEF Changes
<1>2. ASSUME NEW data \in Seq(Byte)
      PROVE  LET g == FieldsFrom(SessionField, Session, data)
             IN  g = [s \in [at : Nat, m : Session] |-> Rule(SessionChange, data, g, s)]
  <2> DEFINE D == [at : Nat, m : Session]
             Def(g) == g = [s \in D |->
                 IF s.at >= Len(data) THEN s.m
                 ELSE LET f == ReadField(data, s.at)
                          m == IF f.ok THEN SessionField(s.m, f) ELSE Refused
                      IN  IF m.ok THEN g[[at |-> f.next, m |-> m]] ELSE Refused]
             Ruled(g) == g = [s \in D |-> Rule(SessionChange, data, g, s)]
  <2>1. ASSUME NEW s \in D, ReadField(data, s.at).ok
        PROVE  SessionChange[<<s.m, ReadField(data, s.at)>>] = SessionField(s.m, ReadField(data, s.at))
    <3>1. ReadField(data, s.at) \in Fields
      BY <2>1, ReadFieldType DEF Refused
    <3> QED
      BY <3>1 DEF SessionChange
  <2>2. ASSUME NEW g, NEW s \in D
        PROVE  Rule(SessionChange, data, g, s) =
                 IF s.at >= Len(data) THEN s.m
                 ELSE LET f == ReadField(data, s.at)
                          m == IF f.ok THEN SessionField(s.m, f) ELSE Refused
                      IN  IF m.ok THEN g[[at |-> f.next, m |-> m]] ELSE Refused
    BY <2>1 DEF Rule
  <2>3. ASSUME NEW g PROVE Def(g) <=> Ruled(g)
    <3> HIDE DEF D
    <3> QED
      BY <2>2
  <2>4. FieldsFrom(SessionField, Session, data) = CHOOSE g : Def(g)
    BY Zenon DEF FieldsFrom
  <2>5. \E g : Ruled(g)
    BY <1>1, RuleHasFunction
  <2>6. Def(FieldsFrom(SessionField, Session, data))
    <3> HIDE DEF Def, Ruled
    <3> QED
      BY <2>3, <2>4, <2>5
  <2>7. Ruled(FieldsFrom(SessionField, Session, data))
    <3> HIDE DEF Def, Ruled
    <3> QED
      BY <2>3, <2>6
  <2> QED
    BY <2>7
<1>3. \A data \in Seq(Byte) : SessionDecoder[data] = FieldsFrom(SessionField, Session, data)
  BY DEF SessionDecoder
<1> QED
  BY <1>1, <1>2, <1>3 DEF Decodes

\* DecodeSession starts with the empty session.
LEMMA DecodeSessionFrom ==
    ASSUME NEW data \in Seq(Byte)
    PROVE  DecodeSession(data) = From(SessionDecoder, data, 0, EmptySession)
<1>1. SessionDecoder[data] = FieldsFrom(SessionField, Session, data)
  BY DEF SessionDecoder
<1> QED
  BY <1>1 DEF DecodeSession, From

\* What a session that was cut can be read as.
PartSession(t, s) ==
    /\ t.serving_node_id \in {0, s.serving_node_id}
    /\ t.session_id \in {<<>>, s.session_id}

SessionParts(s) == {t \in Session : PartSession(t, s)} \cup {Refused}

\* A whole text is accepted.
LEMMA TextIsText ==
    ASSUME NEW t, TextBytes(t)
    PROVE  /\ t \in Seq(Byte) /\ t \in Seq(Nat) /\ Len(t) < Word
           /\ \A f : f.value = t /\ f.whole => IsText(f)
<1>1. t \in Seq(Byte \ {NotText}) /\ Len(t) < Word
  BY DEF TextBytes
<1>2. t \in Seq(Byte)
  BY <1>1
<1>3. \A i \in DOMAIN t : t[i] # NotText
  BY <1>1
<1> QED
  BY <1>1, <1>2, <1>3, BytesAreNumbers DEF IsText

\* A session is its number and its name.
LEMMA SessionEqual ==
    ASSUME NEW s \in Session, NEW t \in Session,
           s.serving_node_id = t.serving_node_id, s.session_id = t.session_id
    PROVE  s = t
<1> DEFINE made(i, b) == [ok |-> TRUE, serving_node_id |-> i, session_id |-> b]
<1>1. ASSUME NEW r \in Session PROVE r = made(r.serving_node_id, r.session_id)
  BY DEF Session
<1> HIDE DEF made
<1> QED
  BY <1>1

\* The session with its first field.
LEMMA SessionWithNode ==
    ASSUME NEW s \in Session, NEW n \in Int
    PROVE  LET t == [s EXCEPT !.serving_node_id = n]
           IN  t \in Session /\ t.serving_node_id = n /\ t.session_id = s.session_id
BY DEF Session

\* The session with both fields.
LEMMA SessionWithId ==
    ASSUME NEW s \in Session, NEW b \in Seq(Nat)
    PROVE  LET t == [s EXCEPT !.session_id = b]
           IN  t \in Session /\ t.serving_node_id = s.serving_node_id /\ t.session_id = b
BY DEF Session

\* The two fields take the empty session to the session.
LEMMA SessionSteps ==
    ASSUME NEW s, SessionInRange(s)
    PROVE  LET dec == SessionDecoder
               s1 == [EmptySession EXCEPT !.serving_node_id = s.serving_node_id]
               p == VarintField(1, s.serving_node_id)
               q == BytesField(2, s.session_id)
           IN  /\ p \in Seq(Byte) /\ q \in Seq(Byte)
               /\ Takes(dec, p, EmptySession, s1) /\ Takes(dec, q, s1, s)
               /\ EndsIn(dec, p, EmptySession, SessionParts(s))
               /\ EndsIn(dec, q, s1, SessionParts(s))
<1> DEFINE n == s.serving_node_id
           b == s.session_id
           s1 == [EmptySession EXCEPT !.serving_node_id = n]
<1>1. /\ s \in Session /\ n \in Signable /\ n \in Int
      /\ b \in Seq(Byte) /\ Len(b) < Word /\ \A f : f.value = b /\ f.whole => IsText(f)
  <2>1. s \in Session /\ n \in Signable /\ TextBytes(b)
    BY DEF SessionInRange
  <2>2. n \in Int
    BY <2>1 DEF Session
  <2> HIDE DEF n, b
  <2> QED
    BY <2>1, <2>2, TextIsText
<1>2. /\ EmptySession \in Session /\ EmptySession.serving_node_id = 0
      /\ EmptySession.session_id = <<>>
  BY DEF EmptySession, Session
<1>3. s1 \in Session /\ s1.serving_node_id = n /\ s1.session_id = <<>>
  <2> HIDE DEF n
  <2> QED
    BY <1>1, <1>2, SessionWithNode
<1>4. (n = 0 => s1 = EmptySession) /\ (b = <<>> => s = s1)
  <2> HIDE DEF s1
  <2> QED
    BY <1>1, <1>2, <1>3, SessionEqual
<1>5. ASSUME NEW f \in Fields, Is(f, 1, 0), f.value = n % Word
      PROVE  SessionChange[<<EmptySession, f>>] = s1
  <2>1. Signed(f.value) = n
    BY <1>1, <1>5, SignedRead
  <2>2. ~Is(f, 2, 2)
    BY <1>5 DEF Is
  <2>3. SessionField(EmptySession, f) = [EmptySession EXCEPT !.serving_node_id = Signed(f.value)]
    BY <1>5, <2>2 DEF SessionField
  <2> QED
    BY <1>2, <2>1, <2>3 DEF SessionChange
<1>6. ASSUME NEW f \in Fields, Is(f, 2, 2), f.value = b, f.whole
      PROVE  SessionChange[<<s1, f>>] = s
  <2>1. IsText(f) /\ ~Is(f, 1, 0)
    BY <1>1, <1>6 DEF Is
  <2>2. SessionField(s1, f) = [s1 EXCEPT !.session_id = b]
    BY <1>6, <2>1 DEF SessionField
  <2>3. [s1 EXCEPT !.session_id = b] = s
    <3> DEFINE t == [s1 EXCEPT !.session_id = b]
    <3> HIDE DEF s1
    <3>1. b \in Seq(Nat)
      BY <1>1, BytesAreNumbers
    <3>2. t \in Session /\ t.serving_node_id = n /\ t.session_id = b
      BY <1>3, <3>1, SessionWithId
    <3> HIDE DEF t
    <3>3. t = s
      BY <1>1, <3>2, SessionEqual
    <3> QED
      BY <3>3 DEF t
  <2> QED
    BY <1>3, <2>2, <2>3 DEF SessionChange
<1>7. ASSUME NEW f \in Fields, Is(f, 2, 2), ~f.whole
      PROVE  SessionChange[<<s1, f>>] = Refused
  <2>1. ~IsText(f) /\ ~Is(f, 1, 0)
    BY <1>7 DEF Is, IsText
  <2>2. SessionField(s1, f) = Refused
    BY <1>7, <2>1 DEF SessionField
  <2> QED
    BY <1>3, <2>2 DEF SessionChange
<1>8. EmptySession \in SessionParts(s) /\ s1 \in SessionParts(s) /\ Refused \in SessionParts(s)
  BY <1>2, <1>3 DEF SessionParts, PartSession
<1> HIDE DEF n, b, s1
<1>9. VarintField(1, n) \in Seq(Byte) /\ Takes(SessionDecoder, VarintField(1, n), EmptySession, s1)
  BY <1>1, <1>2, <1>3, <1>4, <1>5, SessionDecodes, TakesVarintField
<1>10. BytesField(2, b) \in Seq(Byte) /\ Takes(SessionDecoder, BytesField(2, b), s1, s)
  BY <1>1, <1>3, <1>4, <1>6, SessionDecodes, TakesBytesField
<1>11. EndsIn(SessionDecoder, VarintField(1, n), EmptySession, SessionParts(s))
  BY <1>1, <1>2, <1>8, SessionDecodes, EndsInVarintField
<1>12. EndsIn(SessionDecoder, BytesField(2, b), s1, SessionParts(s))
  <2>1. \A f \in Fields, i \in 0 .. Len(b) - 1 :
           Is(f, 2, 2) /\ f.value = SubSeq(b, 1, i) /\ ~f.whole
              => SessionChange[<<s1, f>>] \in SessionParts(s)
    BY <1>7, <1>8
  <2> QED
    BY <1>1, <1>3, <1>8, <2>1, SessionDecodes, EndsInBytesField
<1> QED
  BY <1>9, <1>10, <1>11, <1>12 DEF n, b, s1

\* A session comes back from its encoding.
LEMMA SessionRead ==
    ASSUME NEW s, SessionInRange(s)
    PROVE  /\ EncodeSession(s) \in Seq(Byte) /\ Len(EncodeSession(s)) < Word
           /\ DecodeSession(EncodeSession(s)) = s
           /\ EncodeSession(s) = <<>> => s = EmptySession
<1> DEFINE p == VarintField(1, s.serving_node_id)
           q == BytesField(2, s.session_id)
<1>1. PICK s1 : /\ p \in Seq(Byte) /\ q \in Seq(Byte)
                /\ Takes(SessionDecoder, p, EmptySession, s1) /\ Takes(SessionDecoder, q, s1, s)
  BY SessionSteps
<1>2. EncodeSession(s) = p \o q
  BY DEF EncodeSession
<1> HIDE DEF p, q
<1>3. EncodeSession(s) \in Seq(Byte) /\ Takes(SessionDecoder, EncodeSession(s), EmptySession, s)
  BY <1>1, <1>2, TakesBoth
<1>4. s \in Session /\ Len(EncodeSession(s)) < Word
  BY DEF SessionInRange
<1>5. From(SessionDecoder, EncodeSession(s), 0, EmptySession) = s
  BY <1>3, <1>4, SessionDecodes, TakesAll
<1>6. DecodeSession(EncodeSession(s)) = s
  BY <1>3, <1>5, DecodeSessionFrom
<1>7. DecodeSession(<<>>) = EmptySession
  <2>1. <<>> \in Seq(Byte) /\ EmptySession \in Session
    BY DEF Session, EmptySession
  <2>2. Takes(SessionDecoder, <<>>, EmptySession, EmptySession)
    BY TakesNothing
  <2> QED
    BY <2>1, <2>2, SessionDecodes, TakesAll, DecodeSessionFrom
<1> QED
  BY <1>3, <1>4, <1>6, <1>7

\* A session that was cut is refused or part of the session.
LEMMA SessionCut ==
    ASSUME NEW s, SessionInRange(s), NEW n \in 0 .. Len(EncodeSession(s)) - 1
    PROVE  DecodeSession(SubSeq(EncodeSession(s), 1, n)) \in SessionParts(s)
<1> DEFINE p == VarintField(1, s.serving_node_id)
           q == BytesField(2, s.session_id)
           d == EncodeSession(s)
           c == SubSeq(d, 1, n)
<1>1. PICK s1 : /\ p \in Seq(Byte) /\ q \in Seq(Byte)
                /\ Takes(SessionDecoder, p, EmptySession, s1)
                /\ EndsIn(SessionDecoder, p, EmptySession, SessionParts(s))
                /\ EndsIn(SessionDecoder, q, s1, SessionParts(s))
  BY SessionSteps
<1>2. d = p \o q
  BY DEF EncodeSession
<1> HIDE DEF p, q, d
<1>3. d \in Seq(Byte) /\ EndsIn(SessionDecoder, d, EmptySession, SessionParts(s))
  BY <1>1, <1>2, EndsInOne, LenConcat
<1>4. n \in 0 .. Len(d) /\ n # Len(d)
  BY <1>3 DEF d
<1>5. c \in Seq(Byte) /\ Cut(c, 0, d)
  BY <1>3, <1>4, PrefixCut
<1> HIDE DEF c
<1>6. From(SessionDecoder, c, 0, EmptySession) \in SessionParts(s)
  BY <1>3, <1>5 DEF EndsIn
<1> QED
  BY <1>5, <1>6, DecodeSessionFrom DEF c, d

-----------------------------------------------------------------------------
(* Envelopes                                                               *)

EnvelopeChange == [p \in Envelope \X Fields |-> EnvelopeField(p[1], p[2])]
EnvelopeDecoder == [data \in Seq(Byte) |-> FieldsFrom(EnvelopeField, Envelope, data)]

\* DecodeSession gives a session or Refused.
LEMMA DecodeSessionType ==
    ASSUME NEW data \in Seq(Byte)
    PROVE  \/ DecodeSession(data) = Refused /\ ~DecodeSession(data).ok
           \/ DecodeSession(data) \in Session /\ DecodeSession(data).ok
<1>1. EmptySession \in Session /\ 0 \in Nat
  BY DEF Session, EmptySession
<1>2. DecodeSession(data) \in Results(Session)
  <2>1. From(SessionDecoder, data, 0, EmptySession) \in Results(Session)
    BY <1>1, SessionDecodes, FromType
  <2> QED
    BY <2>1, DecodeSessionFrom
<1>3. ~Refused.ok /\ \A s \in Session : s.ok
  BY DEF Refused, Session
<1> QED
  BY <1>2, <1>3 DEF Results

\* The field that each branch is about.
LEMMA EnvelopeFieldIs ==
    ASSUME NEW e, NEW f
    PROVE  /\ Is(f, 1, 2) => EnvelopeField(e, f) =
                IF IsText(f) THEN [e EXCEPT !.relay_id = f.value] ELSE Refused
           /\ Is(f, 2, 0) => EnvelopeField(e, f) =
                IF f.value \in Kinds THEN [e EXCEPT !.kind = f.value] ELSE Refused
           /\ Is(f, 3, 2) => EnvelopeField(e, f) =
                IF DecodeSession(f.value).ok
                THEN [e EXCEPT !.sender_session = DecodeSession(f.value)] ELSE Refused
           /\ Is(f, 4, 2) => EnvelopeField(e, f) =
                IF DecodeSession(f.value).ok
                THEN [e EXCEPT !.target_session = DecodeSession(f.value)] ELSE Refused
           /\ Is(f, 5, 0) => EnvelopeField(e, f) = [e EXCEPT !.seq = f.value]
           /\ Is(f, 6, 0) => EnvelopeField(e, f) = [e EXCEPT !.ack_seq = f.value]
           /\ Is(f, 7, 2) => EnvelopeField(e, f) =
                IF f.whole THEN [e EXCEPT !.payload = f.value] ELSE Refused
           /\ Is(f, 8, 0) => EnvelopeField(e, f) = [e EXCEPT !.sent_at_ms = Signed(f.value)]
           /\ <<f.field, f.wire>> \notin {<<1, 2>>, <<2, 0>>, <<3, 2>>, <<4, 2>>, <<5, 0>>,
                                          <<6, 0>>, <<7, 2>>, <<8, 0>>} => EnvelopeField(e, f) = e
<1>1. CASE Is(f, 1, 2)
  BY <1>1 DEF EnvelopeField, Is
<1>2. CASE Is(f, 2, 0)
  BY <1>2 DEF EnvelopeField, Is
<1>3. CASE Is(f, 3, 2)
  BY <1>3 DEF EnvelopeField, Is, Embed
<1>4. CASE Is(f, 4, 2)
  BY <1>4 DEF EnvelopeField, Is, Embed
<1>5. CASE Is(f, 5, 0)
  BY <1>5 DEF EnvelopeField, Is
<1>6. CASE Is(f, 6, 0)
  BY <1>6 DEF EnvelopeField, Is
<1>7. CASE Is(f, 7, 2)
  BY <1>7 DEF EnvelopeField, Is
<1>8. CASE Is(f, 8, 0)
  BY <1>8 DEF EnvelopeField, Is
<1>9. CASE <<f.field, f.wire>> \notin {<<1, 2>>, <<2, 0>>, <<3, 2>>, <<4, 2>>, <<5, 0>>,
                                       <<6, 0>>, <<7, 2>>, <<8, 0>>}
  BY <1>9 DEF EnvelopeField, Is
<1> QED
  BY <1>1, <1>2, <1>3, <1>4, <1>5, <1>6, <1>7, <1>8, <1>9 DEF Is

\* A field makes an envelope of an envelope, or is refused.
LEMMA EnvelopeFieldType ==
    ASSUME NEW e \in Envelope, NEW f \in Fields
    PROVE  EnvelopeField(e, f) \in Results(Envelope)
<1>1. CASE Is(f, 1, 2)
  <2>1. f.value \in Seq(Nat)
    BY <1>1, BytesAreNumbers DEF Fields, Is
  <2>2. [e EXCEPT !.relay_id = f.value] \in Envelope
    BY <2>1 DEF Envelope
  <2> QED
    BY <1>1, <2>2, EnvelopeFieldIs DEF Results
<1>2. CASE Is(f, 2, 0)
  <2>1. f.value \in Kinds => [e EXCEPT !.kind = f.value] \in Envelope
    BY DEF Envelope
  <2> QED
    BY <1>2, <2>1, EnvelopeFieldIs DEF Results
<1>3. CASE Is(f, 3, 2)
  <2> DEFINE s == DecodeSession(f.value)
  <2>1. s.ok => s \in Session
    BY <1>3, DecodeSessionType DEF Fields, Is
  <2> HIDE DEF s
  <2>2. s.ok => [e EXCEPT !.sender_session = s] \in Envelope
    BY <2>1 DEF Envelope
  <2> QED
    BY <1>3, <2>2, EnvelopeFieldIs DEF Results, s
<1>4. CASE Is(f, 4, 2)
  <2> DEFINE s == DecodeSession(f.value)
  <2>1. s.ok => s \in Session
    BY <1>4, DecodeSessionType DEF Fields, Is
  <2> HIDE DEF s
  <2>2. s.ok => [e EXCEPT !.target_session = s] \in Envelope
    BY <2>1 DEF Envelope
  <2> QED
    BY <1>4, <2>2, EnvelopeFieldIs DEF Results, s
<1>5. CASE Is(f, 5, 0)
  <2>1. f.value \in Nat
    BY <1>5 DEF Fields, Is
  <2>2. [e EXCEPT !.seq = f.value] \in Envelope
    BY <2>1 DEF Envelope
  <2> QED
    BY <1>5, <2>2, EnvelopeFieldIs DEF Results
<1>6. CASE Is(f, 6, 0)
  <2>1. f.value \in Nat
    BY <1>6 DEF Fields, Is
  <2>2. [e EXCEPT !.ack_seq = f.value] \in Envelope
    BY <2>1 DEF Envelope
  <2> QED
    BY <1>6, <2>2, EnvelopeFieldIs DEF Results
<1>7. CASE Is(f, 7, 2)
  <2>1. f.value \in Seq(Nat)
    BY <1>7, BytesAreNumbers DEF Fields, Is
  <2>2. [e EXCEPT !.payload = f.value] \in Envelope
    BY <2>1 DEF Envelope
  <2> QED
    BY <1>7, <2>2, EnvelopeFieldIs DEF Results
<1>8. CASE Is(f, 8, 0)
  <2>1. Signed(f.value) \in Int
    BY <1>8, SignedType DEF Fields, Is
  <2>2. [e EXCEPT !.sent_at_ms = Signed(f.value)] \in Envelope
    BY <2>1 DEF Envelope
  <2> QED
    BY <1>8, <2>2, EnvelopeFieldIs DEF Results
<1>9. CASE <<f.field, f.wire>> \notin {<<1, 2>>, <<2, 0>>, <<3, 2>>, <<4, 2>>, <<5, 0>>,
                                       <<6, 0>>, <<7, 2>>, <<8, 0>>}
  BY <1>9, EnvelopeFieldIs DEF Results
<1> QED
  BY <1>1, <1>2, <1>3, <1>4, <1>5, <1>6, <1>7, <1>8, <1>9 DEF Is

\* Decode is a decoder of envelopes.
LEMMA EnvelopeDecodes == Decodes(EnvelopeDecoder, EnvelopeChange, Envelope)
<1>1. Changes(EnvelopeChange, Envelope)
  <2>1. \A m \in Envelope : m.ok
    BY DEF Envelope
  <2>2. \A m \in Envelope, f \in Fields : EnvelopeChange[<<m, f>>] = EnvelopeField(m, f)
    BY DEF EnvelopeChange
  <2> QED
    BY <2>1, <2>2, EnvelopeFieldType DEF Changes
<1>2. ASSUME NEW data \in Seq(Byte)
      PROVE  LET g == FieldsFrom(EnvelopeField, Envelope, data)
             IN  g = [s \in [at : Nat, m : Envelope] |-> Rule(EnvelopeChange, data, g, s)]
  <2> DEFINE D == [at : Nat, m : Envelope]
             Def(g) == g = [s \in D |->
                 IF s.at >= Len(data) THEN s.m
                 ELSE LET f == ReadField(data, s.at)
                          m == IF f.ok THEN EnvelopeField(s.m, f) ELSE Refused
                      IN  IF m.ok THEN g[[at |-> f.next, m |-> m]] ELSE Refused]
             Ruled(g) == g = [s \in D |-> Rule(EnvelopeChange, data, g, s)]
  <2>1. ASSUME NEW s \in D, ReadField(data, s.at).ok
        PROVE  EnvelopeChange[<<s.m, ReadField(data, s.at)>>] = EnvelopeField(s.m, ReadField(data, s.at))
    <3>1. ReadField(data, s.at) \in Fields
      BY <2>1, ReadFieldType DEF Refused
    <3> QED
      BY <3>1 DEF EnvelopeChange
  <2>2. ASSUME NEW g, NEW s \in D
        PROVE  Rule(EnvelopeChange, data, g, s) =
                 IF s.at >= Len(data) THEN s.m
                 ELSE LET f == ReadField(data, s.at)
                          m == IF f.ok THEN EnvelopeField(s.m, f) ELSE Refused
                      IN  IF m.ok THEN g[[at |-> f.next, m |-> m]] ELSE Refused
    BY <2>1 DEF Rule
  <2>3. ASSUME NEW g PROVE Def(g) <=> Ruled(g)
    <3> HIDE DEF D
    <3> QED
      BY <2>2
  <2>4. FieldsFrom(EnvelopeField, Envelope, data) = CHOOSE g : Def(g)
    BY Zenon DEF FieldsFrom
  <2>5. \E g : Ruled(g)
    BY <1>1, RuleHasFunction
  <2>6. Def(FieldsFrom(EnvelopeField, Envelope, data))
    <3> HIDE DEF Def, Ruled
    <3> QED
      BY <2>3, <2>4, <2>5
  <2>7. Ruled(FieldsFrom(EnvelopeField, Envelope, data))
    <3> HIDE DEF Def, Ruled
    <3> QED
      BY <2>3, <2>6
  <2> QED
    BY <2>7
<1>3. \A data \in Seq(Byte) : EnvelopeDecoder[data] = FieldsFrom(EnvelopeField, Envelope, data)
  BY DEF EnvelopeDecoder
<1> QED
  BY <1>1, <1>2, <1>3 DEF Decodes

\* Decode starts with the empty envelope.
LEMMA DecodeFrom ==
    ASSUME NEW data \in Seq(Byte)
    PROVE  Decode(data) = From(EnvelopeDecoder, data, 0, EmptyEnvelope)
<1>1. EnvelopeDecoder[data] = FieldsFrom(EnvelopeField, Envelope, data)
  BY DEF EnvelopeDecoder
<1> QED
  BY <1>1 DEF Decode, From

\* The envelope with its first n fields.
FirstFields(env, n) ==
    [ok |-> TRUE,
     relay_id |-> IF n >= 1 THEN env.relay_id ELSE <<>>,
     kind |-> IF n >= 2 THEN env.kind ELSE 0,
     sender_session |-> IF n >= 3 THEN env.sender_session ELSE EmptySession,
     target_session |-> IF n >= 4 THEN env.target_session ELSE EmptySession,
     seq |-> IF n >= 5 THEN env.seq ELSE 0,
     ack_seq |-> IF n >= 6 THEN env.ack_seq ELSE 0,
     payload |-> IF n >= 7 THEN env.payload ELSE <<>>,
     sent_at_ms |-> IF n >= 8 THEN env.sent_at_ms ELSE 0]

EnvelopeParts(env) == {e \in Envelope : PartOf(e, env)} \cup {Refused}

\* An envelope is its fields.
LEMMA EnvelopeEqual ==
    ASSUME NEW d \in Envelope, NEW e \in Envelope,
           d.relay_id = e.relay_id, d.kind = e.kind, d.sender_session = e.sender_session,
           d.target_session = e.target_session, d.seq = e.seq, d.ack_seq = e.ack_seq,
           d.payload = e.payload, d.sent_at_ms = e.sent_at_ms
    PROVE  d = e
<1> DEFINE made(a, b, f, g, h, i, j, k) ==
      [ok |-> TRUE, relay_id |-> a, kind |-> b, sender_session |-> f, target_session |-> g,
       seq |-> h, ack_seq |-> i, payload |-> j, sent_at_ms |-> k]
<1>1. ASSUME NEW r \in Envelope
      PROVE  r = made(r.relay_id, r.kind, r.sender_session, r.target_session, r.seq, r.ack_seq,
                      r.payload, r.sent_at_ms)
  BY DEF Envelope
<1> HIDE DEF made
<1> QED
  BY <1>1

\* The fields of an envelope in range.
LEMMA EnvelopeTypes ==
    ASSUME NEW env, InRange(env)
    PROVE  /\ env \in Envelope
           /\ TextBytes(env.relay_id) /\ env.relay_id \in Seq(Nat)
           /\ env.kind \in Kinds /\ env.kind \in Nat /\ env.kind < Word
           /\ SessionInRange(env.sender_session) /\ env.sender_session \in Session
           /\ SessionInRange(env.target_session) /\ env.target_session \in Session
           /\ env.seq \in Nat /\ env.seq < Word
           /\ env.ack_seq \in Nat /\ env.ack_seq < Word
           /\ env.payload \in Seq(Byte) /\ env.payload \in Seq(Nat) /\ Len(env.payload) < Word
           /\ env.sent_at_ms \in Signable /\ env.sent_at_ms \in Int
<1>1. /\ env \in Envelope /\ env.relay_id \in Seq(Nat) /\ env.kind \in Kinds
      /\ env.sender_session \in Session /\ env.target_session \in Session
      /\ env.seq \in Nat /\ env.ack_seq \in Nat /\ env.payload \in Seq(Nat)
      /\ env.sent_at_ms \in Int
  BY DEF InRange, Envelope
<1>2. \A k \in Kinds : k \in Nat /\ k < Word
  BY Widths DEF Kinds
<1> QED
  BY <1>1, <1>2 DEF InRange

\* The fields of FirstFields.
LEMMA FirstFieldsAre ==
    ASSUME NEW env, NEW n
    PROVE  LET e == FirstFields(env, n)
           IN  /\ e.relay_id = IF n >= 1 THEN env.relay_id ELSE <<>>
               /\ e.kind = IF n >= 2 THEN env.kind ELSE 0
               /\ e.sender_session = IF n >= 3 THEN env.sender_session ELSE EmptySession
               /\ e.target_session = IF n >= 4 THEN env.target_session ELSE EmptySession
               /\ e.seq = IF n >= 5 THEN env.seq ELSE 0
               /\ e.ack_seq = IF n >= 6 THEN env.ack_seq ELSE 0
               /\ e.payload = IF n >= 7 THEN env.payload ELSE <<>>
               /\ e.sent_at_ms = IF n >= 8 THEN env.sent_at_ms ELSE 0
BY DEF FirstFields

\* It is an envelope, and part of the whole one.
LEMMA FirstFieldsType ==
    ASSUME NEW env, InRange(env), NEW n \in 0 .. 8
    PROVE  FirstFields(env, n) \in Envelope /\ PartOf(FirstFields(env, n), env)
<1>1. FirstFields(env, n) \in Envelope
  <2>1. <<>> \in Seq(Nat) /\ 0 \in Nat /\ 0 \in Int /\ 0 \in Kinds /\ EmptySession \in Session
    BY DEF EmptySession, Session, Kinds
  <2> QED
    BY <2>1, EnvelopeTypes DEF FirstFields, Envelope
<1>2. EmptySession.serving_node_id = 0 /\ EmptySession.session_id = <<>>
  BY DEF EmptySession
<1>3. PartOf(FirstFields(env, n), env)
  BY <1>2, FirstFieldsAre DEF PartOf
<1> QED
  BY <1>1, <1>3

\* The first one is empty, the last one is the envelope.
LEMMA FirstFieldsEnds ==
    ASSUME NEW env, InRange(env)
    PROVE  FirstFields(env, 0) = EmptyEnvelope /\ FirstFields(env, 8) = env
<1>1. FirstFields(env, 0) = EmptyEnvelope
  BY DEF FirstFields, EmptyEnvelope
<1>2. FirstFields(env, 8) \in Envelope /\ env \in Envelope
  BY FirstFieldsType, EnvelopeTypes
<1>3. FirstFields(env, 8) = env
  BY <1>2, FirstFieldsAre, EnvelopeEqual
<1> QED
  BY <1>1, <1>3

\* One more field.
LEMMA FirstFieldsNext ==
    ASSUME NEW env, InRange(env)
    PROVE  /\ [FirstFields(env, 0) EXCEPT !.relay_id = env.relay_id] = FirstFields(env, 1)
           /\ [FirstFields(env, 1) EXCEPT !.kind = env.kind] = FirstFields(env, 2)
           /\ [FirstFields(env, 2) EXCEPT !.sender_session = env.sender_session] = FirstFields(env, 3)
           /\ [FirstFields(env, 3) EXCEPT !.target_session = env.target_session] = FirstFields(env, 4)
           /\ [FirstFields(env, 4) EXCEPT !.seq = env.seq] = FirstFields(env, 5)
           /\ [FirstFields(env, 5) EXCEPT !.ack_seq = env.ack_seq] = FirstFields(env, 6)
           /\ [FirstFields(env, 6) EXCEPT !.payload = env.payload] = FirstFields(env, 7)
           /\ [FirstFields(env, 7) EXCEPT !.sent_at_ms = env.sent_at_ms] = FirstFields(env, 8)
<1>1. [FirstFields(env, 0) EXCEPT !.relay_id = env.relay_id] = FirstFields(env, 1)
  <2> DEFINE e == FirstFields(env, 0)
             d == [e EXCEPT !.relay_id = env.relay_id]
  <2>1. e \in Envelope /\ FirstFields(env, 1) \in Envelope
    BY FirstFieldsType
  <2>2. /\ d \in Envelope /\ d.relay_id = env.relay_id
        /\ d.kind = e.kind /\ d.sender_session = e.sender_session /\ d.target_session = e.target_session
        /\ d.seq = e.seq /\ d.ack_seq = e.ack_seq /\ d.payload = e.payload /\ d.sent_at_ms = e.sent_at_ms
    <3> HIDE DEF e
    <3> QED
      BY <2>1, EnvelopeTypes DEF Envelope
  <2> HIDE DEF d
  <2>3. d = FirstFields(env, 1)
    BY <2>1, <2>2, FirstFieldsAre, EnvelopeEqual
  <2> QED
    BY <2>3 DEF d
<1>2. [FirstFields(env, 1) EXCEPT !.kind = env.kind] = FirstFields(env, 2)
  <2> DEFINE e == FirstFields(env, 1)
             d == [e EXCEPT !.kind = env.kind]
  <2>1. e \in Envelope /\ FirstFields(env, 2) \in Envelope
    BY FirstFieldsType
  <2>2. /\ d \in Envelope /\ d.kind = env.kind
        /\ d.relay_id = e.relay_id /\ d.sender_session = e.sender_session /\ d.target_session = e.target_session
        /\ d.seq = e.seq /\ d.ack_seq = e.ack_seq /\ d.payload = e.payload /\ d.sent_at_ms = e.sent_at_ms
    <3> HIDE DEF e
    <3> QED
      BY <2>1, EnvelopeTypes DEF Envelope
  <2> HIDE DEF d
  <2>3. d = FirstFields(env, 2)
    BY <2>1, <2>2, FirstFieldsAre, EnvelopeEqual
  <2> QED
    BY <2>3 DEF d
<1>3. [FirstFields(env, 2) EXCEPT !.sender_session = env.sender_session] = FirstFields(env, 3)
  <2> DEFINE e == FirstFields(env, 2)
             d == [e EXCEPT !.sender_session = env.sender_session]
  <2>1. e \in Envelope /\ FirstFields(env, 3) \in Envelope
    BY FirstFieldsType
  <2>2. /\ d \in Envelope /\ d.sender_session = env.sender_session
        /\ d.relay_id = e.relay_id /\ d.kind = e.kind /\ d.target_session = e.target_session
        /\ d.seq = e.seq /\ d.ack_seq = e.ack_seq /\ d.payload = e.payload /\ d.sent_at_ms = e.sent_at_ms
    <3> HIDE DEF e
    <3> QED
      BY <2>1, EnvelopeTypes DEF Envelope
  <2> HIDE DEF d
  <2>3. d = FirstFields(env, 3)
    BY <2>1, <2>2, FirstFieldsAre, EnvelopeEqual
  <2> QED
    BY <2>3 DEF d
<1>4. [FirstFields(env, 3) EXCEPT !.target_session = env.target_session] = FirstFields(env, 4)
  <2> DEFINE e == FirstFields(env, 3)
             d == [e EXCEPT !.target_session = env.target_session]
  <2>1. e \in Envelope /\ FirstFields(env, 4) \in Envelope
    BY FirstFieldsType
  <2>2. /\ d \in Envelope /\ d.target_session = env.target_session
        /\ d.relay_id = e.relay_id /\ d.kind = e.kind /\ d.sender_session = e.sender_session
        /\ d.seq = e.seq /\ d.ack_seq = e.ack_seq /\ d.payload = e.payload /\ d.sent_at_ms = e.sent_at_ms
    <3> HIDE DEF e
    <3> QED
      BY <2>1, EnvelopeTypes DEF Envelope
  <2> HIDE DEF d
  <2>3. d = FirstFields(env, 4)
    BY <2>1, <2>2, FirstFieldsAre, EnvelopeEqual
  <2> QED
    BY <2>3 DEF d
<1>5. [FirstFields(env, 4) EXCEPT !.seq = env.seq] = FirstFields(env, 5)
  <2> DEFINE e == FirstFields(env, 4)
             d == [e EXCEPT !.seq = env.seq]
  <2>1. e \in Envelope /\ FirstFields(env, 5) \in Envelope
    BY FirstFieldsType
  <2>2. /\ d \in Envelope /\ d.seq = env.seq
        /\ d.relay_id = e.relay_id /\ d.kind = e.kind /\ d.sender_session = e.sender_session /\ d.target_session = e.target_session
        /\ d.ack_seq = e.ack_seq /\ d.payload = e.payload /\ d.sent_at_ms = e.sent_at_ms
    <3> HIDE DEF e
    <3> QED
      BY <2>1, EnvelopeTypes DEF Envelope
  <2> HIDE DEF d
  <2>3. d = FirstFields(env, 5)
    BY <2>1, <2>2, FirstFieldsAre, EnvelopeEqual
  <2> QED
    BY <2>3 DEF d
<1>6. [FirstFields(env, 5) EXCEPT !.ack_seq = env.ack_seq] = FirstFields(env, 6)
  <2> DEFINE e == FirstFields(env, 5)
             d == [e EXCEPT !.ack_seq = env.ack_seq]
  <2>1. e \in Envelope /\ FirstFields(env, 6) \in Envelope
    BY FirstFieldsType
  <2>2. /\ d \in Envelope /\ d.ack_seq = env.ack_seq
        /\ d.relay_id = e.relay_id /\ d.kind = e.kind /\ d.sender_session = e.sender_session /\ d.target_session = e.target_session
        /\ d.seq = e.seq /\ d.payload = e.payload /\ d.sent_at_ms = e.sent_at_ms
    <3> HIDE DEF e
    <3> QED
      BY <2>1, EnvelopeTypes DEF Envelope
  <2> HIDE DEF d
  <2>3. d = FirstFields(env, 6)
    BY <2>1, <2>2, FirstFieldsAre, EnvelopeEqual
  <2> QED
    BY <2>3 DEF d
<1>7. [FirstFields(env, 6) EXCEPT !.payload = env.payload] = FirstFields(env, 7)
  <2> DEFINE e == FirstFields(env, 6)
             d == [e EXCEPT !.payload = env.payload]
  <2>1. e \in Envelope /\ FirstFields(env, 7) \in Envelope
    BY FirstFieldsType
  <2>2. /\ d \in Envelope /\ d.payload = env.payload
        /\ d.relay_id = e.relay_id /\ d.kind = e.kind /\ d.sender_session = e.sender_session /\ d.target_session = e.target_session
        /\ d.seq = e.seq /\ d.ack_seq = e.ack_seq /\ d.sent_at_ms = e.sent_at_ms
    <3> HIDE DEF e
    <3> QED
      BY <2>1, EnvelopeTypes DEF Envelope
  <2> HIDE DEF d
  <2>3. d = FirstFields(env, 7)
    BY <2>1, <2>2, FirstFieldsAre, EnvelopeEqual
  <2> QED
    BY <2>3 DEF d
<1>8. [FirstFields(env, 7) EXCEPT !.sent_at_ms = env.sent_at_ms] = FirstFields(env, 8)
  <2> DEFINE e == FirstFields(env, 7)
             d == [e EXCEPT !.sent_at_ms = env.sent_at_ms]
  <2>1. e \in Envelope /\ FirstFields(env, 8) \in Envelope
    BY FirstFieldsType
  <2>2. /\ d \in Envelope /\ d.sent_at_ms = env.sent_at_ms
        /\ d.relay_id = e.relay_id /\ d.kind = e.kind /\ d.sender_session = e.sender_session /\ d.target_session = e.target_session
        /\ d.seq = e.seq /\ d.ack_seq = e.ack_seq /\ d.payload = e.payload
    <3> HIDE DEF e
    <3> QED
      BY <2>1, EnvelopeTypes DEF Envelope
  <2> HIDE DEF d
  <2>3. d = FirstFields(env, 8)
    BY <2>1, <2>2, FirstFieldsAre, EnvelopeEqual
  <2> QED
    BY <2>3 DEF d
<1> QED
  BY <1>1, <1>2, <1>3, <1>4, <1>5, <1>6, <1>7, <1>8

\* A field with its default value is none.
LEMMA FirstFieldsSame ==
    ASSUME NEW env, InRange(env)
    PROVE  /\ env.relay_id = <<>> => FirstFields(env, 1) = FirstFields(env, 0)
           /\ env.kind = 0 => FirstFields(env, 2) = FirstFields(env, 1)
           /\ env.sender_session = EmptySession => FirstFields(env, 3) = FirstFields(env, 2)
           /\ env.target_session = EmptySession => FirstFields(env, 4) = FirstFields(env, 3)
           /\ env.seq = 0 => FirstFields(env, 5) = FirstFields(env, 4)
           /\ env.ack_seq = 0 => FirstFields(env, 6) = FirstFields(env, 5)
           /\ env.payload = <<>> => FirstFields(env, 7) = FirstFields(env, 6)
           /\ env.sent_at_ms = 0 => FirstFields(env, 8) = FirstFields(env, 7)
<1>1. \A n \in 0 .. 8 : FirstFields(env, n) \in Envelope
  BY FirstFieldsType
<1>2. env.relay_id = <<>> => FirstFields(env, 1) = FirstFields(env, 0)
  BY <1>1, FirstFieldsAre, EnvelopeEqual
<1>3. env.kind = 0 => FirstFields(env, 2) = FirstFields(env, 1)
  BY <1>1, FirstFieldsAre, EnvelopeEqual
<1>4. env.sender_session = EmptySession => FirstFields(env, 3) = FirstFields(env, 2)
  BY <1>1, FirstFieldsAre, EnvelopeEqual
<1>5. env.target_session = EmptySession => FirstFields(env, 4) = FirstFields(env, 3)
  BY <1>1, FirstFieldsAre, EnvelopeEqual
<1>6. env.seq = 0 => FirstFields(env, 5) = FirstFields(env, 4)
  BY <1>1, FirstFieldsAre, EnvelopeEqual
<1>7. env.ack_seq = 0 => FirstFields(env, 6) = FirstFields(env, 5)
  BY <1>1, FirstFieldsAre, EnvelopeEqual
<1>8. env.payload = <<>> => FirstFields(env, 7) = FirstFields(env, 6)
  BY <1>1, FirstFieldsAre, EnvelopeEqual
<1>9. env.sent_at_ms = 0 => FirstFields(env, 8) = FirstFields(env, 7)
  BY <1>1, FirstFieldsAre, EnvelopeEqual
<1> QED
  BY <1>2, <1>3, <1>4, <1>5, <1>6, <1>7, <1>8, <1>9

\* A piece of an encoding: it takes e to d, and to part of the envelope when it is cut.
Taken(env, p, e, d) ==
    /\ p \in Seq(Byte) /\ Takes(EnvelopeDecoder, p, e, d)
    /\ EndsIn(EnvelopeDecoder, p, e, EnvelopeParts(env))

\* FirstFields are parts of the envelope.
LEMMA PartsOfEnvelope ==
    ASSUME NEW env, InRange(env)
    PROVE  /\ \A n \in 0 .. 8 : FirstFields(env, n) \in Envelope /\ FirstFields(env, n) \in EnvelopeParts(env)
           /\ Refused \in EnvelopeParts(env)
BY FirstFieldsType DEF EnvelopeParts

\* What a field makes of an envelope.
LEMMA ChangeOf ==
    ASSUME NEW e \in Envelope, NEW f \in Fields
    PROVE  EnvelopeChange[<<e, f>>] = EnvelopeField(e, f)
BY DEF EnvelopeChange

\* The relay_id, written and read.
LEMMA RelayIdTaken ==
    ASSUME NEW env, InRange(env)
    PROVE  Taken(env, BytesField(1, env.relay_id), FirstFields(env, 0), FirstFields(env, 1))
<1> DEFINE b == env.relay_id
           e == FirstFields(env, 0)
           d == FirstFields(env, 1)
<1>1. b \in Seq(Byte) /\ Len(b) < Word /\ \A f : f.value = b /\ f.whole => IsText(f)
  BY EnvelopeTypes, TextIsText
<1>2. /\ e \in Envelope /\ d \in Envelope /\ e \in EnvelopeParts(env)
      /\ Refused \in EnvelopeParts(env)
  BY PartsOfEnvelope
<1>3. (b = <<>> => d = e) /\ [e EXCEPT !.relay_id = b] = d
  BY FirstFieldsSame, FirstFieldsNext
<1> HIDE DEF b, e, d
<1>4. ASSUME NEW f \in Fields, Is(f, 1, 2), f.value = b, f.whole
      PROVE  EnvelopeChange[<<e, f>>] = d
  <2>1. EnvelopeField(e, f) = [e EXCEPT !.relay_id = f.value]
    BY <1>1, <1>4, EnvelopeFieldIs
  <2> QED
    BY <1>2, <1>3, <1>4, <2>1, ChangeOf
<1>5. \A f \in Fields, i \in 0 .. Len(b) - 1 :
         Is(f, 1, 2) /\ f.value = SubSeq(b, 1, i) /\ ~f.whole
            => EnvelopeChange[<<e, f>>] \in EnvelopeParts(env)
  <2>1. ASSUME NEW f \in Fields, Is(f, 1, 2), ~f.whole PROVE EnvelopeChange[<<e, f>>] = Refused
    <3>1. EnvelopeField(e, f) = Refused
      BY <2>1, EnvelopeFieldIs DEF IsText
    <3> QED
      BY <1>2, <3>1, ChangeOf
  <2> QED
    BY <1>2, <2>1
<1>6. BytesField(1, b) \in Seq(Byte) /\ Takes(EnvelopeDecoder, BytesField(1, b), e, d)
  BY <1>1, <1>2, <1>3, <1>4, EnvelopeDecodes, TakesBytesField
<1>7. EndsIn(EnvelopeDecoder, BytesField(1, b), e, EnvelopeParts(env))
  BY <1>1, <1>2, <1>5, EnvelopeDecodes, EndsInBytesField
<1> QED
  BY <1>6, <1>7 DEF Taken, b, e, d

\* The kind, written and read.
LEMMA KindTaken ==
    ASSUME NEW env, InRange(env)
    PROVE  Taken(env, VarintField(2, env.kind), FirstFields(env, 1), FirstFields(env, 2))
<1> DEFINE n == env.kind
           e == FirstFields(env, 1)
           d == FirstFields(env, 2)
<1>1. n \in Int /\ n \in Nat /\ n < Word /\ n \in Kinds
  BY EnvelopeTypes
<1>2. /\ e \in Envelope /\ d \in Envelope /\ e \in EnvelopeParts(env)
      /\ Refused \in EnvelopeParts(env)
  BY PartsOfEnvelope
<1>3. (n = 0 => d = e) /\ [e EXCEPT !.kind = n] = d
  BY FirstFieldsSame, FirstFieldsNext
<1> HIDE DEF n, e, d
<1>4. ASSUME NEW f \in Fields, Is(f, 2, 0), f.value = n % Word
      PROVE  EnvelopeChange[<<e, f>>] = d
  <2>1. f.value = n
    BY <1>1, <1>4, SmallMod
  <2>2. EnvelopeField(e, f) = [e EXCEPT !.kind = f.value]
    BY <1>1, <1>4, <2>1, EnvelopeFieldIs
  <2> QED
    BY <1>2, <1>3, <2>1, <2>2, ChangeOf
<1>5. VarintField(2, n) \in Seq(Byte) /\ Takes(EnvelopeDecoder, VarintField(2, n), e, d)
  BY <1>1, <1>2, <1>3, <1>4, EnvelopeDecodes, TakesVarintField
<1>6. EndsIn(EnvelopeDecoder, VarintField(2, n), e, EnvelopeParts(env))
  BY <1>1, <1>2, EnvelopeDecodes, EndsInVarintField
<1> QED
  BY <1>5, <1>6 DEF Taken, n, e, d

\* The sender_session, written and read.
LEMMA SenderSessionTaken ==
    ASSUME NEW env, InRange(env)
    PROVE  Taken(env, BytesField(3, EncodeSession(env.sender_session)), FirstFields(env, 2), FirstFields(env, 3))
<1> DEFINE s == env.sender_session
           b == EncodeSession(s)
           e == FirstFields(env, 2)
           d == FirstFields(env, 3)
<1>1. /\ SessionInRange(s) /\ s \in Session /\ b \in Seq(Byte) /\ Len(b) < Word
      /\ DecodeSession(b) = s /\ (b = <<>> => s = EmptySession)
  BY EnvelopeTypes, SessionRead
<1>2. /\ e \in Envelope /\ d \in Envelope /\ e \in EnvelopeParts(env)
      /\ Refused \in EnvelopeParts(env)
  BY PartsOfEnvelope
<1>3. (s = EmptySession => d = e) /\ [e EXCEPT !.sender_session = s] = d
  BY FirstFieldsSame, FirstFieldsNext
<1>4. ASSUME NEW t \in SessionParts(s), t.ok
      PROVE  [e EXCEPT !.sender_session = t] \in EnvelopeParts(env)
  <2>1. t \in Session /\ PartSession(t, s)
    BY <1>4 DEF SessionParts, Refused
  <2>2. e \in Envelope /\ PartOf(e, env)
    BY FirstFieldsType
  <2> DEFINE c == [e EXCEPT !.sender_session = t]
  <2> HIDE DEF e
  <2>3. /\ c \in Envelope /\ c.sender_session = t
        /\ c.relay_id = e.relay_id /\ c.kind = e.kind /\ c.target_session = e.target_session
        /\ c.seq = e.seq /\ c.ack_seq = e.ack_seq /\ c.payload = e.payload
        /\ c.sent_at_ms = e.sent_at_ms
    BY <2>1, <2>2 DEF Envelope
  <2> HIDE DEF c
  <2>4. PartOf(c, env)
    BY <2>1, <2>2, <2>3 DEF PartOf, PartSession, s
  <2> QED
    BY <2>3, <2>4 DEF EnvelopeParts, c
<1> HIDE DEF b, e, d
<1>5. ASSUME NEW f \in Fields, Is(f, 3, 2), f.value = b, f.whole
      PROVE  EnvelopeChange[<<e, f>>] = d
  <2>1. DecodeSession(f.value) = s /\ s.ok
    BY <1>1, <1>5 DEF Session
  <2> HIDE DEF s
  <2>2. EnvelopeField(e, f) = [e EXCEPT !.sender_session = s]
    BY <1>5, <2>1, EnvelopeFieldIs
  <2> QED
    BY <1>2, <1>3, <2>2, ChangeOf
<1>6. \A f \in Fields, i \in 0 .. Len(b) - 1 :
         Is(f, 3, 2) /\ f.value = SubSeq(b, 1, i) /\ ~f.whole
            => EnvelopeChange[<<e, f>>] \in EnvelopeParts(env)
  <2>1. ASSUME NEW f \in Fields, NEW i \in 0 .. Len(b) - 1, Is(f, 3, 2), f.value = SubSeq(b, 1, i)
        PROVE  EnvelopeChange[<<e, f>>] \in EnvelopeParts(env)
    <3> DEFINE t == DecodeSession(f.value)
    <3>1. t \in SessionParts(s)
      BY <1>1, <2>1, SessionCut DEF b
    <3> HIDE DEF t, s
    <3>2. EnvelopeField(e, f) = IF t.ok THEN [e EXCEPT !.sender_session = t] ELSE Refused
      BY <2>1, EnvelopeFieldIs DEF t
    <3>3. EnvelopeField(e, f) \in EnvelopeParts(env)
      BY <1>2, <1>4, <3>1, <3>2
    <3> QED
      BY <1>2, <3>3, ChangeOf
  <2> QED
    BY <2>1
<1>7. BytesField(3, b) \in Seq(Byte) /\ Takes(EnvelopeDecoder, BytesField(3, b), e, d)
  BY <1>1, <1>2, <1>3, <1>5, EnvelopeDecodes, TakesBytesField
<1>8. EndsIn(EnvelopeDecoder, BytesField(3, b), e, EnvelopeParts(env))
  BY <1>1, <1>2, <1>6, EnvelopeDecodes, EndsInBytesField
<1> QED
  BY <1>7, <1>8 DEF Taken, b, e, d, s

\* The target_session, written and read.
LEMMA TargetSessionTaken ==
    ASSUME NEW env, InRange(env)
    PROVE  Taken(env, BytesField(4, EncodeSession(env.target_session)), FirstFields(env, 3), FirstFields(env, 4))
<1> DEFINE s == env.target_session
           b == EncodeSession(s)
           e == FirstFields(env, 3)
           d == FirstFields(env, 4)
<1>1. /\ SessionInRange(s) /\ s \in Session /\ b \in Seq(Byte) /\ Len(b) < Word
      /\ DecodeSession(b) = s /\ (b = <<>> => s = EmptySession)
  BY EnvelopeTypes, SessionRead
<1>2. /\ e \in Envelope /\ d \in Envelope /\ e \in EnvelopeParts(env)
      /\ Refused \in EnvelopeParts(env)
  BY PartsOfEnvelope
<1>3. (s = EmptySession => d = e) /\ [e EXCEPT !.target_session = s] = d
  BY FirstFieldsSame, FirstFieldsNext
<1>4. ASSUME NEW t \in SessionParts(s), t.ok
      PROVE  [e EXCEPT !.target_session = t] \in EnvelopeParts(env)
  <2>1. t \in Session /\ PartSession(t, s)
    BY <1>4 DEF SessionParts, Refused
  <2>2. e \in Envelope /\ PartOf(e, env)
    BY FirstFieldsType
  <2> DEFINE c == [e EXCEPT !.target_session = t]
  <2> HIDE DEF e
  <2>3. /\ c \in Envelope /\ c.target_session = t
        /\ c.relay_id = e.relay_id /\ c.kind = e.kind /\ c.sender_session = e.sender_session
        /\ c.seq = e.seq /\ c.ack_seq = e.ack_seq /\ c.payload = e.payload
        /\ c.sent_at_ms = e.sent_at_ms
    BY <2>1, <2>2 DEF Envelope
  <2> HIDE DEF c
  <2>4. PartOf(c, env)
    BY <2>1, <2>2, <2>3 DEF PartOf, PartSession, s
  <2> QED
    BY <2>3, <2>4 DEF EnvelopeParts, c
<1> HIDE DEF b, e, d
<1>5. ASSUME NEW f \in Fields, Is(f, 4, 2), f.value = b, f.whole
      PROVE  EnvelopeChange[<<e, f>>] = d
  <2>1. DecodeSession(f.value) = s /\ s.ok
    BY <1>1, <1>5 DEF Session
  <2> HIDE DEF s
  <2>2. EnvelopeField(e, f) = [e EXCEPT !.target_session = s]
    BY <1>5, <2>1, EnvelopeFieldIs
  <2> QED
    BY <1>2, <1>3, <2>2, ChangeOf
<1>6. \A f \in Fields, i \in 0 .. Len(b) - 1 :
         Is(f, 4, 2) /\ f.value = SubSeq(b, 1, i) /\ ~f.whole
            => EnvelopeChange[<<e, f>>] \in EnvelopeParts(env)
  <2>1. ASSUME NEW f \in Fields, NEW i \in 0 .. Len(b) - 1, Is(f, 4, 2), f.value = SubSeq(b, 1, i)
        PROVE  EnvelopeChange[<<e, f>>] \in EnvelopeParts(env)
    <3> DEFINE t == DecodeSession(f.value)
    <3>1. t \in SessionParts(s)
      BY <1>1, <2>1, SessionCut DEF b
    <3> HIDE DEF t, s
    <3>2. EnvelopeField(e, f) = IF t.ok THEN [e EXCEPT !.target_session = t] ELSE Refused
      BY <2>1, EnvelopeFieldIs DEF t
    <3>3. EnvelopeField(e, f) \in EnvelopeParts(env)
      BY <1>2, <1>4, <3>1, <3>2
    <3> QED
      BY <1>2, <3>3, ChangeOf
  <2> QED
    BY <2>1
<1>7. BytesField(4, b) \in Seq(Byte) /\ Takes(EnvelopeDecoder, BytesField(4, b), e, d)
  BY <1>1, <1>2, <1>3, <1>5, EnvelopeDecodes, TakesBytesField
<1>8. EndsIn(EnvelopeDecoder, BytesField(4, b), e, EnvelopeParts(env))
  BY <1>1, <1>2, <1>6, EnvelopeDecodes, EndsInBytesField
<1> QED
  BY <1>7, <1>8 DEF Taken, b, e, d, s

\* The seq, written and read.
LEMMA SeqTaken ==
    ASSUME NEW env, InRange(env)
    PROVE  Taken(env, VarintField(5, env.seq), FirstFields(env, 4), FirstFields(env, 5))
<1> DEFINE n == env.seq
           e == FirstFields(env, 4)
           d == FirstFields(env, 5)
<1>1. n \in Int /\ n \in Nat /\ n < Word
  BY EnvelopeTypes
<1>2. /\ e \in Envelope /\ d \in Envelope /\ e \in EnvelopeParts(env)
      /\ Refused \in EnvelopeParts(env)
  BY PartsOfEnvelope
<1>3. (n = 0 => d = e) /\ [e EXCEPT !.seq = n] = d
  BY FirstFieldsSame, FirstFieldsNext
<1> HIDE DEF n, e, d
<1>4. ASSUME NEW f \in Fields, Is(f, 5, 0), f.value = n % Word
      PROVE  EnvelopeChange[<<e, f>>] = d
  <2>1. f.value = n
    BY <1>1, <1>4, SmallMod
  <2>2. EnvelopeField(e, f) = [e EXCEPT !.seq = f.value]
    BY <1>1, <1>4, <2>1, EnvelopeFieldIs
  <2> QED
    BY <1>2, <1>3, <2>1, <2>2, ChangeOf
<1>5. VarintField(5, n) \in Seq(Byte) /\ Takes(EnvelopeDecoder, VarintField(5, n), e, d)
  BY <1>1, <1>2, <1>3, <1>4, EnvelopeDecodes, TakesVarintField
<1>6. EndsIn(EnvelopeDecoder, VarintField(5, n), e, EnvelopeParts(env))
  BY <1>1, <1>2, EnvelopeDecodes, EndsInVarintField
<1> QED
  BY <1>5, <1>6 DEF Taken, n, e, d

\* The ack_seq, written and read.
LEMMA AckSeqTaken ==
    ASSUME NEW env, InRange(env)
    PROVE  Taken(env, VarintField(6, env.ack_seq), FirstFields(env, 5), FirstFields(env, 6))
<1> DEFINE n == env.ack_seq
           e == FirstFields(env, 5)
           d == FirstFields(env, 6)
<1>1. n \in Int /\ n \in Nat /\ n < Word
  BY EnvelopeTypes
<1>2. /\ e \in Envelope /\ d \in Envelope /\ e \in EnvelopeParts(env)
      /\ Refused \in EnvelopeParts(env)
  BY PartsOfEnvelope
<1>3. (n = 0 => d = e) /\ [e EXCEPT !.ack_seq = n] = d
  BY FirstFieldsSame, FirstFieldsNext
<1> HIDE DEF n, e, d
<1>4. ASSUME NEW f \in Fields, Is(f, 6, 0), f.value = n % Word
      PROVE  EnvelopeChange[<<e, f>>] = d
  <2>1. f.value = n
    BY <1>1, <1>4, SmallMod
  <2>2. EnvelopeField(e, f) = [e EXCEPT !.ack_seq = f.value]
    BY <1>1, <1>4, <2>1, EnvelopeFieldIs
  <2> QED
    BY <1>2, <1>3, <2>1, <2>2, ChangeOf
<1>5. VarintField(6, n) \in Seq(Byte) /\ Takes(EnvelopeDecoder, VarintField(6, n), e, d)
  BY <1>1, <1>2, <1>3, <1>4, EnvelopeDecodes, TakesVarintField
<1>6. EndsIn(EnvelopeDecoder, VarintField(6, n), e, EnvelopeParts(env))
  BY <1>1, <1>2, EnvelopeDecodes, EndsInVarintField
<1> QED
  BY <1>5, <1>6 DEF Taken, n, e, d

\* The payload, written and read.
LEMMA PayloadTaken ==
    ASSUME NEW env, InRange(env)
    PROVE  Taken(env, BytesField(7, env.payload), FirstFields(env, 6), FirstFields(env, 7))
<1> DEFINE b == env.payload
           e == FirstFields(env, 6)
           d == FirstFields(env, 7)
<1>1. b \in Seq(Byte) /\ Len(b) < Word
  BY EnvelopeTypes
<1>2. /\ e \in Envelope /\ d \in Envelope /\ e \in EnvelopeParts(env)
      /\ Refused \in EnvelopeParts(env)
  BY PartsOfEnvelope
<1>3. (b = <<>> => d = e) /\ [e EXCEPT !.payload = b] = d
  BY FirstFieldsSame, FirstFieldsNext
<1> HIDE DEF b, e, d
<1>4. ASSUME NEW f \in Fields, Is(f, 7, 2), f.value = b, f.whole
      PROVE  EnvelopeChange[<<e, f>>] = d
  <2>1. EnvelopeField(e, f) = [e EXCEPT !.payload = f.value]
    BY <1>1, <1>4, EnvelopeFieldIs
  <2> QED
    BY <1>2, <1>3, <1>4, <2>1, ChangeOf
<1>5. \A f \in Fields, i \in 0 .. Len(b) - 1 :
         Is(f, 7, 2) /\ f.value = SubSeq(b, 1, i) /\ ~f.whole
            => EnvelopeChange[<<e, f>>] \in EnvelopeParts(env)
  <2>1. ASSUME NEW f \in Fields, Is(f, 7, 2), ~f.whole PROVE EnvelopeChange[<<e, f>>] = Refused
    <3>1. EnvelopeField(e, f) = Refused
      BY <2>1, EnvelopeFieldIs
    <3> QED
      BY <1>2, <3>1, ChangeOf
  <2> QED
    BY <1>2, <2>1
<1>6. BytesField(7, b) \in Seq(Byte) /\ Takes(EnvelopeDecoder, BytesField(7, b), e, d)
  BY <1>1, <1>2, <1>3, <1>4, EnvelopeDecodes, TakesBytesField
<1>7. EndsIn(EnvelopeDecoder, BytesField(7, b), e, EnvelopeParts(env))
  BY <1>1, <1>2, <1>5, EnvelopeDecodes, EndsInBytesField
<1> QED
  BY <1>6, <1>7 DEF Taken, b, e, d

\* The sent_at_ms, written and read with its sign.
LEMMA SentAtMsTaken ==
    ASSUME NEW env, InRange(env)
    PROVE  Taken(env, VarintField(8, env.sent_at_ms), FirstFields(env, 7), FirstFields(env, 8))
<1> DEFINE n == env.sent_at_ms
           e == FirstFields(env, 7)
           d == FirstFields(env, 8)
<1>1. n \in Int /\ n \in Signable
  BY EnvelopeTypes
<1>2. /\ e \in Envelope /\ d \in Envelope /\ e \in EnvelopeParts(env)
      /\ Refused \in EnvelopeParts(env)
  BY PartsOfEnvelope
<1>3. (n = 0 => d = e) /\ [e EXCEPT !.sent_at_ms = n] = d
  BY FirstFieldsSame, FirstFieldsNext
<1> HIDE DEF n, e, d
<1>4. ASSUME NEW f \in Fields, Is(f, 8, 0), f.value = n % Word
      PROVE  EnvelopeChange[<<e, f>>] = d
  <2>1. Signed(f.value) = n
    BY <1>1, <1>4, SignedRead
  <2>2. EnvelopeField(e, f) = [e EXCEPT !.sent_at_ms = Signed(f.value)]
    BY <1>1, <1>4, <2>1, EnvelopeFieldIs
  <2> QED
    BY <1>2, <1>3, <2>1, <2>2, ChangeOf
<1>5. VarintField(8, n) \in Seq(Byte) /\ Takes(EnvelopeDecoder, VarintField(8, n), e, d)
  BY <1>1, <1>2, <1>3, <1>4, EnvelopeDecodes, TakesVarintField
<1>6. EndsIn(EnvelopeDecoder, VarintField(8, n), e, EnvelopeParts(env))
  BY <1>1, <1>2, EnvelopeDecodes, EndsInVarintField
<1> QED
  BY <1>5, <1>6 DEF Taken, n, e, d

\* A field that the decoder of envelopes does not know.
LEMMA UnknownTaken ==
    ASSUME NEW k \in 0 .. 15, NEW w \in 0 .. 7, NEW v, NEW p \in Seq(Byte), Len(p) >= 1,
           ReadsAs(p, k, w, v), NEW m \in Envelope,
           <<k, w>> \notin {<<1, 2>>, <<2, 0>>, <<3, 2>>, <<4, 2>>, <<5, 0>>, <<6, 0>>, <<7, 2>>,
                            <<8, 0>>}
    PROVE  Takes(EnvelopeDecoder, p, m, m)
<1>1. ASSUME NEW f \in Fields, Is(f, k, w) PROVE EnvelopeChange[<<m, f>>] = m
  <2>1. <<f.field, f.wire>> = <<k, w>>
    BY <1>1 DEF Is
  <2>2. EnvelopeField(m, f) = m
    BY <2>1, EnvelopeFieldIs
  <2> QED
    BY <2>2, ChangeOf
<1>2. Makes(EnvelopeChange, m, k, w, v, m)
  BY <1>1 DEF Makes
<1> QED
  BY <1>2, EnvelopeDecodes, TakesField

\* Two bytes in a row.
LEMMA TwoBytes == ASSUME NEW a \in Byte, NEW b \in Byte PROVE <<a>> \o <<b>> = <<a, b>>
<1> DEFINE s == <<a>>
           t == <<b>>
<1>1. s \in Seq(Byte) /\ t \in Seq(Byte) /\ Len(s) = 1 /\ Len(t) = 1 /\ s[1] = a /\ t[1] = b
  OBVIOUS
<1> HIDE DEF s, t
<1>2. s \o t \in Seq(Byte) /\ Len(s \o t) = 2
  <2>1. s \o t \in Seq(Byte) /\ Len(s \o t) = Len(s) + Len(t)
    BY <1>1, LenConcat
  <2> QED
    BY <1>1, <2>1
<1>3. (s \o t)[1] = s[1] /\ (s \o t)[2] = t[2 - 1]
  BY <1>1, <1>2
<1> DEFINE u == s \o t
<1>4. u \in Seq(Byte) /\ Len(u) = 2 /\ u[1] = a /\ u[2] = b
  BY <1>1, <1>2, <1>3
<1> HIDE DEF u
<1>5. u = <<a, b>>
  BY <1>4
<1> QED
  BY <1>5 DEF u, s, t

\* The bytes that the unknown fields have after their tags.
LEMMA UnknownBytes ==
    /\ Group \in Nat /\ Group < Word /\ <<Group, 1>> = Varint[Group]
    /\ <<Group, NotText>> \in Seq(Byte) /\ <<2, Group, NotText>> = Varint[2] \o <<Group, NotText>>
    /\ <<1>> \in Seq(Byte) /\ <<1, 1>> = Varint[1] \o <<1>>
    /\ [i \in 1 .. 8 |-> NotText] \in Seq(Byte) /\ Len([i \in 1 .. 8 |-> NotText]) = 8
    /\ [i \in 1 .. 4 |-> NotText] \in Seq(Byte) /\ Len([i \in 1 .. 4 |-> NotText]) = 4
<1>1. Group \in Nat /\ Group >= 4
  BY Widths
<1>2. Group < Word
  <2>1. TwoTo[GroupBits + 1] = 2 * Group /\ GroupBits \in Nat /\ GroupBits + 1 \in Nat
    BY WidthAssumption, TwoToDef DEF Group
  <2>2. TwoTo[GroupBits + 1] <= Word
    BY <2>1, WidthAssumption, TwoToGrows DEF Word
  <2>3. Word \in Nat
    BY Widths
  <2> QED
    BY <1>1, <2>1, <2>2, <2>3
<1>3. Varint[1] = <<1>> /\ Varint[2] = <<2>>
  BY <1>1, ShortVarint
<1>4. Varint[Group] = <<Group, 1>>
  <2>1. Group % Group = 0 /\ Group \div Group = 1
    BY <1>1
  <2>2. ~(Group < Group)
    BY <1>1
  <2>3. Varint[Group] = <<Group + (Group % Group)>> \o Varint[Group \div Group]
    BY <1>1, <2>2, VarintDef
  <2>4. Group + 0 = Group
    BY <1>1
  <2>5. <<Group>> \o <<1>> = <<Group, 1>>
    <3>1. Group \in Byte /\ 1 \in Byte
      BY <1>1 DEF Byte
    <3> QED
      BY <3>1, TwoBytes
  <2> QED
    BY <1>3, <2>1, <2>3, <2>4, <2>5, Zenon
<1>5. NotText \in Byte /\ Group \in Byte /\ 1 \in Byte
  BY <1>1 DEF NotText, Byte
<1> QED
  BY <1>1, <1>2, <1>3, <1>4, <1>5

\* The tags of the fields of an envelope are bytes.
LEMMA TagOf ==
    ASSUME NEW k \in 0 .. 15, NEW w \in 0 .. 7, NEW n, n = 8 * k + w
    PROVE  EncodeVarint(n) = Tag(k, w) /\ Tag(k, w) \in Seq(Byte) /\ Len(Tag(k, w)) >= 1 /\ n < Word
BY Zenon, SmallTag

\* Bytes with their head are read as a field.
LEMMA BytesReadAs ==
    ASSUME NEW k \in Nat, 8 * k + 2 < Word, NEW b \in Seq(Byte), Len(b) < Word,
           NEW p, p = FieldHead(k, b) \o b
    PROVE  ReadsAs(p, k, 2, b)
BY BytesFieldRead DEF ReadsAs

\* Four or eight bytes with their tag are read as a field.
LEMMA FixedReadAs ==
    ASSUME NEW k \in Nat, NEW w \in {1, 5}, 8 * k + w < Word,
           NEW b \in Seq(Byte), Len(b) = IF w = 1 THEN 8 ELSE 4, NEW p, p = Tag(k, w) \o b
    PROVE  ReadsAs(p, k, w, 0)
BY FixedFieldRead DEF ReadsAs

\* Pieces in a row can be grouped.
LEMMA ConcatRegrouped ==
    ASSUME NEW s \in Seq(Byte), NEW t \in Seq(Byte), NEW b \in Seq(Byte)
    PROVE  s \o (t \o b) = (s \o t) \o b
OBVIOUS

\* None of the unknown fields changes an envelope.
LEMMA UnknownFieldTaken ==
    ASSUME NEW u \in UnknownFields, NEW m \in Envelope
    PROVE  u \in Seq(Byte) /\ Takes(EnvelopeDecoder, u, m, m)
<1>0. /\ 72 = 8 * 9 + 0 /\ 73 = 8 * 9 + 1 /\ 74 = 8 * 9 + 2 /\ 77 = 8 * 9 + 5 /\ 42 = 8 * 5 + 2
      /\ 9 \in 0 .. 15 /\ 5 \in 0 .. 15 /\ 0 \in 0 .. 7 /\ 1 \in 0 .. 7 /\ 2 \in 0 .. 7 /\ 5 \in 0 .. 7
  OBVIOUS
<1> DEFINE fixed(n) == [i \in 1 .. n |-> NotText]
<1>1. ASSUME u = EncodeVarint(72) \o <<Group, 1>>
      PROVE  u \in Seq(Byte) /\ Takes(EnvelopeDecoder, u, m, m)
  <2>1. EncodeVarint(72) = Tag(9, 0) /\ Tag(9, 0) \in Seq(Byte) /\ Len(Tag(9, 0)) >= 1 /\ 72 < Word
    BY <1>0, TagOf
  <2> DEFINE t == Tag(9, 0)
             s == Varint[Group]
  <2>2. Group \in Nat /\ Group < Word /\ s \in Seq(Byte) /\ u = t \o s
    BY <1>1, <2>1, UnknownBytes, VarintDef
  <2> HIDE DEF t, s
  <2>3. u \in Seq(Byte) /\ Len(u) >= 1
    BY <2>1, <2>2, LenConcat, LenType DEF t
  <2>4. ReadsAs(u, 9, 0, Group)
    BY <2>1, <2>2, VarintFieldRead DEF ReadsAs, t, s
  <2> QED
    BY <1>0, <2>3, <2>4, UnknownTaken
<1>2. ASSUME NEW w \in {1, 5}, NEW n, n = IF w = 1 THEN 8 ELSE 4,
             u = EncodeVarint(72 + w) \o fixed(n)
      PROVE  u \in Seq(Byte) /\ Takes(EnvelopeDecoder, u, m, m)
  <2>0. w \in 0 .. 7 /\ 72 + w = 8 * 9 + w
    OBVIOUS
  <2>1. EncodeVarint(72 + w) = Tag(9, w) /\ Tag(9, w) \in Seq(Byte) /\ Len(Tag(9, w)) >= 1
        /\ 72 + w < Word
    BY <1>0, <2>0, TagOf
  <2> DEFINE t == Tag(9, w)
             s == fixed(n)
  <2>2. s \in Seq(Byte) /\ Len(s) = n /\ u = t \o s
    BY <1>2, <2>1, UnknownBytes
  <2> HIDE DEF t, s
  <2>3. u \in Seq(Byte) /\ Len(u) >= 1
    BY <2>1, <2>2, LenConcat, LenType DEF t
  <2>4. 8 * 9 + w < Word /\ Len(s) = IF w = 1 THEN 8 ELSE 4
    BY <1>2, <2>0, <2>1, <2>2
  <2>6. ReadsAs(u, 9, w, 0)
    BY <2>2, <2>4, FixedReadAs DEF t
  <2>5. <<9, w>> \notin {<<1, 2>>, <<2, 0>>, <<3, 2>>, <<4, 2>>, <<5, 0>>, <<6, 0>>, <<7, 2>>, <<8, 0>>}
    OBVIOUS
  <2> QED
    BY <1>0, <2>0, <2>3, <2>5, <2>6, UnknownTaken
<1>3. ASSUME NEW k \in {5, 9}, NEW b \in Seq(Byte), Len(b) < Word,
             NEW n, n = 8 * k + 2, u = (EncodeVarint(n) \o Varint[Len(b)]) \o b
      PROVE  u \in Seq(Byte) /\ Takes(EnvelopeDecoder, u, m, m)
  <2>0. k \in 0 .. 15 /\ k \in Nat
    OBVIOUS
  <2>1. EncodeVarint(n) = Tag(k, 2) /\ Len(Tag(k, 2)) >= 1 /\ 8 * k + 2 < Word
    BY <1>0, <1>3, <2>0, TagOf
  <2>2. u = FieldHead(k, b) \o b /\ FieldHead(k, b) \in Seq(Byte)
    BY <1>3, <2>0, <2>1, HeadType DEF FieldHead
  <2>3. Len(FieldHead(k, b)) >= 1
    <3>1. Tag(k, 2) \in Seq(Byte) /\ Varint[Len(b)] \in Seq(Byte)
      BY <2>0, HeadType
    <3> DEFINE t == Tag(k, 2)
               s == Varint[Len(b)]
    <3> HIDE DEF t, s
    <3>2. Len(t \o s) = Len(t) + Len(s) /\ Len(t) \in Nat /\ Len(s) \in Nat
      BY <3>1, LenConcat, LenType DEF t, s
    <3> QED
      BY <2>1, <3>2 DEF FieldHead, t, s
  <2>4. u \in Seq(Byte) /\ Len(u) >= 1
    <3> DEFINE h == FieldHead(k, b)
    <3> HIDE DEF h
    <3> QED
      BY <2>2, <2>3, LenConcat, LenType DEF h
  <2>5. ReadsAs(u, k, 2, b)
    BY <1>3, <2>0, <2>1, <2>2, BytesReadAs
  <2>6. <<k, 2>> \notin {<<1, 2>>, <<2, 0>>, <<3, 2>>, <<4, 2>>, <<5, 0>>, <<6, 0>>, <<7, 2>>, <<8, 0>>}
    OBVIOUS
  <2> QED
    BY <1>0, <2>0, <2>4, <2>5, <2>6, UnknownTaken
<1>4. 2 < Word /\ 1 < Word
  BY Widths
<1>5. CASE u = EncodeVarint(8 * 9 + 2) \o <<2, Group, NotText>>
  <2> DEFINE b == <<Group, NotText>>
             t == EncodeVarint(74)
             s == Varint[2]
  <2>1. Len(b) = 2 /\ b \in Seq(Byte) /\ <<2, Group, NotText>> = s \o b
    BY UnknownBytes
  <2>2. t \in Seq(Byte) /\ s \in Seq(Byte)
    BY <1>0, TagOf, VarintDef
  <2>3. u = t \o (s \o b)
    <3>1. 8 * 9 + 2 = 74
      OBVIOUS
    <3>2. u = EncodeVarint(74) \o (s \o b)
      BY <1>5, <2>1, <3>1, Zenon
    <3> QED
      BY <3>2
  <2> HIDE DEF b, t, s
  <2>4. u = (t \o s) \o b
    BY <2>1, <2>2, <2>3, ConcatRegrouped
  <2> QED
    BY <1>0, <1>3, <1>4, <2>1, <2>4 DEF t, s
<1>6. CASE u = EncodeVarint(8 * 5 + 2) \o <<1, 1>>
  <2> DEFINE b == <<1>>
             t == EncodeVarint(42)
             s == Varint[1]
  <2>1. Len(b) = 1 /\ b \in Seq(Byte) /\ <<1, 1>> = s \o b
    BY UnknownBytes
  <2>2. t \in Seq(Byte) /\ s \in Seq(Byte)
    BY <1>0, TagOf, VarintDef
  <2>3. u = t \o (s \o b)
    <3>1. 8 * 5 + 2 = 42
      OBVIOUS
    <3>2. u = EncodeVarint(42) \o (s \o b)
      BY <1>6, <2>1, <3>1, Zenon
    <3> QED
      BY <3>2
  <2> HIDE DEF b, t, s
  <2>4. u = (t \o s) \o b
    BY <2>1, <2>2, <2>3, ConcatRegrouped
  <2> QED
    BY <1>0, <1>3, <1>4, <2>1, <2>4 DEF t, s
<1>7. CASE u = EncodeVarint(8 * 9) \o <<Group, 1>>
  BY <1>1, <1>7
<1>8. CASE u = EncodeVarint(8 * 9 + 1) \o fixed(8)
  <2>1. 8 * 9 + 1 = 72 + 1
    OBVIOUS
  <2> QED
    BY <1>2, <1>8, <2>1
<1>9. CASE u = EncodeVarint(8 * 9 + 5) \o fixed(4)
  <2>1. 8 * 9 + 5 = 72 + 5
    OBVIOUS
  <2> QED
    BY <1>2, <1>9, <2>1
<1> QED
  BY <1>5, <1>6, <1>7, <1>8, <1>9 DEF UnknownFields

\* The function that FlattenSeq chooses exists.
LEMMA FlattenDef ==
    ASSUME NEW ps \in Seq(Seq(Byte)), Len(ps) # 0
    PROVE  \E f \in [1 .. Len(ps) -> Seq(Byte)] :
              /\ FlattenSeq(ps) = f[Len(ps)]
              /\ \A i \in 1 .. Len(ps) : f[i] = IF i = 1 THEN ps[i] ELSE f[i - 1] \o ps[i]
<1> DEFINE n == Len(ps)
           D == 1 .. n
           X == Seq(Byte)
           Def(f) == f = [i \in D |-> IF i = 1 THEN ps[i] ELSE f[i - 1] \o ps[i]]
           Eq(f, i) == f[i] = IF i = 1 THEN ps[i] ELSE f[i - 1] \o ps[i]
           size == [i \in D |-> i]
           stop == {1}
           next == [i \in D |-> IF i = 1 THEN i ELSE i - 1]
           base == [i \in D |-> ps[i]]
           step == [p \in D \X X |-> p[2] \o ps[p[1]]]
<1>1. n \in Nat /\ 1 \in D /\ \A i \in D : i \in Nat /\ ps[i] \in X
  OBVIOUS
<1>2. ASSUME NEW i \in D, i # 1 PROVE i - 1 \in D /\ i - 1 < i
  BY <1>1, <1>2
<1>3. \A s, t \in X : s \o t \in X
  OBVIOUS
<1> HIDE DEF n, X
<1>4. Descends(D, X, size, stop, next, base, step)
  <2>1. size \in [D -> Nat] /\ base \in [D -> X]
    BY <1>1
  <2>2. next \in [D -> D]
    BY <1>2
  <2>3. step \in [D \X X -> X]
    BY <1>1, <1>3
  <2>4. \A i \in D \ stop : size[next[i]] < size[i]
    BY <1>2
  <2> HIDE DEF D, size, stop, next, base, step
  <2> QED
    BY <2>1, <2>2, <2>3, <2>4 DEF Descends
<1>5. PICK f : Solves(f, D, X, stop, next, base, step)
  <2> HIDE DEF D, size, stop, next, base, step
  <2> QED
    BY <1>4, Recursion
<1>6. f \in [D -> X]
  BY <1>5 DEF Solves
<1>7. ASSUME NEW i \in D PROVE Eq(f, i)
  <2>1. f[i] = IF i \in stop THEN base[i] ELSE step[<<i, f[next[i]]>>]
    <3> HIDE DEF D, stop, next, base, step
    <3> QED
      BY <1>5 DEF Solves
  <2>2. CASE i = 1
    BY <2>1, <2>2
  <2>3. CASE i # 1
    <3>1. next[i] = i - 1 /\ f[i - 1] \in X
      BY <1>2, <1>6, <2>3
    <3>2. step[<<i, f[i - 1]>>] = f[i - 1] \o ps[i]
      BY <3>1
    <3>3. i \notin stop
      BY <2>3
    <3> HIDE DEF D, stop, next, base, step
    <3> QED
      BY <2>1, <2>3, <3>1, <3>2, <3>3
  <2> QED
    BY <2>2, <2>3
<1>8. Def(f)
  <2>1. f = [i \in D |-> f[i]]
    BY <1>6
  <2> HIDE DEF D, stop, next, base, step
  <2> QED
    BY <1>7, <2>1
<1> DEFINE g == CHOOSE h : Def(h)
<1>9. FlattenSeq(ps) = g[n]
  <2>1. n # 0
    BY DEF n
  <2> QED
    BY Zenon, <2>1 DEF FlattenSeq, n
<1>10. Def(g)
  <2> HIDE DEF Def
  <2> QED
    BY <1>8
<1> HIDE DEF g
<1>11. \A i \in D : Eq(g, i)
  BY <1>10
<1>12. g \in [D -> X]
  <2> DEFINE S == {i \in D : g[i] \in X}
  <2>1. ASSUME NEW i \in D, i # 1 => i - 1 \in S PROVE i \in S
    <3>1. g[i] = IF i = 1 THEN ps[i] ELSE g[i - 1] \o ps[i]
      BY <1>11
    <3>2. i # 1 => g[i - 1] \in X
      BY <2>1
    <3> QED
      BY <1>1, <1>3, <3>1, <3>2
  <2>4. S = D
    <3> HIDE DEF S
    <3>1. S \in SUBSET D
      BY DEF S
    <3> QED
      BY <1>1, <2>1, <3>1, IndexInduction
  <2>5. DOMAIN g = D /\ g = [i \in D |-> g[i]]
    BY <1>10
  <2> QED
    BY <2>4, <2>5
<1> QED
  BY <1>9, <1>11, <1>12 DEF n, X

\* Pieces that take a message from one to the next, as one piece.
Chain(dec, ps, ms, S) ==
    \A i \in 1 .. Len(ps) : Takes(dec, ps[i], ms[i - 1], ms[i]) /\ EndsIn(dec, ps[i], ms[i - 1], S)

\* A chain of pieces takes the first message to the last one.
LEMMA FlattenTakes ==
    ASSUME NEW ps \in Seq(Seq(Byte)), Len(ps) # 0, NEW dec, NEW ms, NEW S, Chain(dec, ps, ms, S)
    PROVE  /\ FlattenSeq(ps) \in Seq(Byte) /\ Takes(dec, FlattenSeq(ps), ms[0], ms[Len(ps)])
           /\ EndsIn(dec, FlattenSeq(ps), ms[0], S)
<1> DEFINE n == Len(ps)
           D == 1 .. n
<1>1. n \in Nat /\ n \in D /\ \A i \in D : i \in Nat /\ ps[i] \in Seq(Byte)
  OBVIOUS
<1>2. PICK f \in [D -> Seq(Byte)] :
         /\ FlattenSeq(ps) = f[n]
         /\ \A i \in D : f[i] = IF i = 1 THEN ps[i] ELSE f[i - 1] \o ps[i]
  BY FlattenDef
<1> DEFINE Good(i) == Takes(dec, f[i], ms[0], ms[i]) /\ EndsIn(dec, f[i], ms[0], S)
           T == {i \in D : Good(i)}
<1>3. \A i \in D : Takes(dec, ps[i], ms[i - 1], ms[i]) /\ EndsIn(dec, ps[i], ms[i - 1], S)
  BY DEF Chain
<1>4. ASSUME NEW i \in D, i # 1 => i - 1 \in T PROVE i \in T
  <2>1. CASE i = 1
    <3>1. f[i] = ps[i]
      BY <1>2, <2>1
    <3>2. i - 1 = 0
      BY <2>1
    <3> QED
      BY <1>3, <3>1, <3>2
  <2>2. CASE i # 1
    <3>1. i - 1 \in D /\ Good(i - 1)
      BY <1>4, <2>2
    <3>2. f[i] = f[i - 1] \o ps[i] /\ f[i - 1] \in Seq(Byte) /\ ps[i] \in Seq(Byte)
      BY <1>1, <1>2, <2>2, <3>1
    <3>3. Good(i)
      BY <1>3, <3>1, <3>2, TakesBoth, EndsInOne
    <3> QED
      BY <3>3
  <2> QED
    BY <2>1, <2>2
<1>7. T = D
  <2> HIDE DEF T
  <2>1. T \in SUBSET D
    BY DEF T
  <2> QED
    BY <1>1, <1>4, <2>1, IndexInduction
<1>8. Good(n)
  BY <1>1, <1>7
<1> QED
  BY <1>1, <1>2, <1>8

\* The elements of a sequence with one more.
LEMMA Inserted ==
    ASSUME NEW X, NEW ps \in Seq(X), NEW k \in 0 .. Len(ps), NEW u \in X
    PROVE  LET q == InsertAt(ps, k + 1, u)
           IN  /\ q \in Seq(X) /\ Len(q) = Len(ps) + 1
               /\ \A i \in 1 .. Len(ps) + 1 :
                     q[i] = IF i <= k THEN ps[i] ELSE IF i = k + 1 THEN u ELSE ps[i - 1]
<1> DEFINE n == Len(ps)
           a == SubSeq(ps, 1, k)
           b == <<u>>
           c == SubSeq(ps, k + 1, n)
<1>1. n \in Nat /\ k \in Nat /\ k <= n
  OBVIOUS
<1>2. a \in Seq(X) /\ Len(a) = k /\ \A i \in 1 .. k : a[i] = ps[i]
  OBVIOUS
<1>3. b \in Seq(X) /\ Len(b) = 1 /\ b[1] = u
  OBVIOUS
<1>4. c \in Seq(X) /\ Len(c) = n - k /\ \A i \in 1 .. n - k : c[i] = ps[k + i]
  OBVIOUS
<1>5. InsertAt(ps, k + 1, u) = (a \o b) \o c
  <2>1. (k + 1) - 1 = k
    BY <1>1
  <2> QED
    BY <2>1, Zenon DEF InsertAt
<1> HIDE DEF n, a, b, c
<1> DEFINE d == a \o b
<1>6. d \in Seq(X) /\ Len(d) = k + 1
  <2>1. d \in Seq(X) /\ Len(d) = Len(a) + Len(b)
    BY <1>2, <1>3, ConcatProperties
  <2> QED
    BY <1>2, <1>3, <2>1
<1>7. \A i \in 1 .. k + 1 : d[i] = IF i <= k THEN ps[i] ELSE u
  <2>1. ASSUME NEW i \in 1 .. k + 1 PROVE d[i] = IF i <= k THEN a[i] ELSE b[i - k]
    BY <1>1, <1>2, <1>3, <1>6
  <2>2. \A i \in 1 .. k + 1 : ~(i <= k) => i - k = 1
    BY <1>1
  <2>3. \A i \in 1 .. k + 1 : i <= k => i \in 1 .. k
    BY <1>1
  <2> HIDE DEF d
  <2> QED
    BY <1>2, <1>3, <2>1, <2>2, <2>3
<1> HIDE DEF d
<1> DEFINE q == d \o c
<1>8. q \in Seq(X) /\ Len(q) = n + 1
  <2>1. q \in Seq(X) /\ Len(q) = Len(d) + Len(c)
    BY <1>4, <1>6, ConcatProperties
  <2> QED
    BY <1>1, <1>4, <1>6, <2>1
<1>9. ASSUME NEW i \in 1 .. n + 1
      PROVE  q[i] = IF i <= k THEN ps[i] ELSE IF i = k + 1 THEN u ELSE ps[i - 1]
  <2>1. CASE i <= k + 1
    <3>1. q[i] = d[i]
      BY <1>1, <1>4, <1>6, <1>8, <2>1
    <3>2. i \in 1 .. k + 1 /\ (~(i <= k) => i = k + 1)
      BY <1>1, <2>1
    <3> HIDE DEF q
    <3> QED
      BY <1>7, <3>1, <3>2
  <2>2. CASE ~(i <= k + 1)
    <3>1. q[i] = c[i - (k + 1)]
      BY <1>1, <1>4, <1>6, <1>8, <2>2
    <3>2. i - (k + 1) \in 1 .. n - k /\ k + (i - (k + 1)) = i - 1 /\ ~(i <= k) /\ i # k + 1
      BY <1>1, <2>2
    <3> HIDE DEF q
    <3> QED
      BY <1>4, <3>1, <3>2
  <2> QED
    BY <2>1, <2>2
<1> HIDE DEF q
<1>10. InsertAt(ps, k + 1, u) = q
  BY <1>5 DEF d, q
<1> QED
  BY <1>8, <1>9, <1>10 DEF n

\* The fields of an envelope take the empty envelope to it.
LEMMA FieldsTaken ==
    ASSUME NEW env, InRange(env)
    PROVE  LET ps == EnvelopeFields(env)
           IN  /\ ps \in Seq(Seq(Byte)) /\ Len(ps) = 8
               /\ \A i \in 1 .. 8 : Taken(env, ps[i], FirstFields(env, i - 1), FirstFields(env, i))
<1> DEFINE ps == EnvelopeFields(env)
<1>1. Len(ps) = 8
  BY DEF EnvelopeFields
<1>2. /\ Taken(env, ps[1], FirstFields(env, 0), FirstFields(env, 1))
      /\ Taken(env, ps[2], FirstFields(env, 1), FirstFields(env, 2))
      /\ Taken(env, ps[3], FirstFields(env, 2), FirstFields(env, 3))
      /\ Taken(env, ps[4], FirstFields(env, 3), FirstFields(env, 4))
      /\ Taken(env, ps[5], FirstFields(env, 4), FirstFields(env, 5))
      /\ Taken(env, ps[6], FirstFields(env, 5), FirstFields(env, 6))
      /\ Taken(env, ps[7], FirstFields(env, 6), FirstFields(env, 7))
      /\ Taken(env, ps[8], FirstFields(env, 7), FirstFields(env, 8))
  BY RelayIdTaken, KindTaken, SenderSessionTaken, TargetSessionTaken, SeqTaken, AckSeqTaken,
     PayloadTaken, SentAtMsTaken DEF EnvelopeFields
<1>3. ps \in Seq(Seq(Byte))
  BY <1>2 DEF Taken, EnvelopeFields
<1> HIDE DEF ps
<1>4. ASSUME NEW i \in 1 .. 8 PROVE Taken(env, ps[i], FirstFields(env, i - 1), FirstFields(env, i))
  <2>1. i \in {1, 2, 3, 4, 5, 6, 7, 8}
    OBVIOUS
  <2>2. /\ 1 - 1 = 0 /\ 2 - 1 = 1 /\ 3 - 1 = 2 /\ 4 - 1 = 3 /\ 5 - 1 = 4 /\ 6 - 1 = 5
        /\ 7 - 1 = 6 /\ 8 - 1 = 7
    OBVIOUS
  <2> QED
    BY <1>2, <2>1, <2>2, Zenon
<1> QED
  BY <1>1, <1>3, <1>4 DEF ps

\* The encoding takes the empty envelope to the envelope.
LEMMA EncodeTaken ==
    ASSUME NEW env, InRange(env)
    PROVE  Taken(env, Encode(env), EmptyEnvelope, env)
<1> DEFINE ps == EnvelopeFields(env)
           ms == [i \in 0 .. 8 |-> FirstFields(env, i)]
<1>1. ps \in Seq(Seq(Byte)) /\ Len(ps) = 8
  BY FieldsTaken
<1>2. \A i \in 1 .. 8 : i \in 0 .. 8 /\ i - 1 \in 0 .. 8
  OBVIOUS
<1>3. Chain(EnvelopeDecoder, ps, ms, EnvelopeParts(env))
  BY <1>1, <1>2, FieldsTaken DEF Chain, Taken
<1>4. ms[0] = EmptyEnvelope /\ ms[8] = env
  BY FirstFieldsEnds
<1> HIDE DEF ps, ms
<1>5. /\ FlattenSeq(ps) \in Seq(Byte) /\ Takes(EnvelopeDecoder, FlattenSeq(ps), ms[0], ms[8])
      /\ EndsIn(EnvelopeDecoder, FlattenSeq(ps), ms[0], EnvelopeParts(env))
  <2>1. Len(ps) # 0
    BY <1>1
  <2> QED
    BY <1>1, <1>3, <2>1, FlattenTakes
<1> QED
  BY <1>4, <1>5 DEF Taken, Encode, ps

\* A piece that takes the empty envelope to another is decoded as that one.
LEMMA DecodeWhole ==
    ASSUME NEW data \in Seq(Byte), NEW env \in Envelope,
           Takes(EnvelopeDecoder, data, EmptyEnvelope, env)
    PROVE  Decode(data) = env
BY EnvelopeDecodes, DecodeFrom, TakesAll

\* An unknown field between the fields changes nothing.
LEMMA WithTaken ==
    ASSUME NEW env, InRange(env), NEW u \in UnknownFields, NEW k \in 0 .. 8
    PROVE  Decode(With(env, u, k)) = env
<1> DEFINE ps == EnvelopeFields(env)
           q == InsertAt(ps, k + 1, u)
           ms == [i \in 0 .. 9 |-> IF i <= k THEN FirstFields(env, i) ELSE FirstFields(env, i - 1)]
           S == Results(Envelope)
<1>1. ps \in Seq(Seq(Byte)) /\ Len(ps) = 8
  BY FieldsTaken
<1>2. u \in Seq(Byte) /\ \A m \in Envelope : Takes(EnvelopeDecoder, u, m, m)
  <2>1. EmptyEnvelope \in Envelope
    BY PartsOfEnvelope, FirstFieldsEnds
  <2> QED
    BY <2>1, UnknownFieldTaken
<1>3. /\ q \in Seq(Seq(Byte)) /\ Len(q) = 9
      /\ \A i \in 1 .. 9 : q[i] = IF i <= k THEN ps[i] ELSE IF i = k + 1 THEN u ELSE ps[i - 1]
  <2>1. k \in 0 .. Len(ps) /\ Len(ps) + 1 = 9
    BY <1>1
  <2> HIDE DEF ps
  <2> DEFINE X == Seq(Byte)
             r == InsertAt(ps, k + 1, u)
  <2>2. ps \in Seq(X) /\ u \in X
    BY <1>1, <1>2
  <2> HIDE DEF X, r
  <2>3. /\ r \in Seq(X) /\ Len(r) = Len(ps) + 1
        /\ \A i \in 1 .. Len(ps) + 1 :
              r[i] = IF i <= k THEN ps[i] ELSE IF i = k + 1 THEN u ELSE ps[i - 1]
    BY <2>1, <2>2, Inserted DEF r
  <2>4. r \in Seq(X) /\ Len(r) = 9
        /\ \A i \in 1 .. 9 : r[i] = IF i <= k THEN ps[i] ELSE IF i = k + 1 THEN u ELSE ps[i - 1]
    BY <2>1, <2>3
  <2> QED
    BY <2>4 DEF r, X
<1>4. \A i \in 1 .. 8 : Takes(EnvelopeDecoder, ps[i], FirstFields(env, i - 1), FirstFields(env, i))
  BY FieldsTaken DEF Taken
<1>5. \A i \in 0 .. 8 : FirstFields(env, i) \in Envelope
  BY PartsOfEnvelope
<1>6. ASSUME NEW p \in Seq(Byte), NEW m \in Envelope PROVE EndsIn(EnvelopeDecoder, p, m, S)
  BY EnvelopeDecodes, FromType DEF EndsIn
<1> HIDE DEF q, ps, S
<1>7. ASSUME NEW i \in 1 .. 9
      PROVE  Takes(EnvelopeDecoder, q[i], ms[i - 1], ms[i]) /\ EndsIn(EnvelopeDecoder, q[i], ms[i - 1], S)
  <2>1. i \in 0 .. 9 /\ i - 1 \in 0 .. 9
    OBVIOUS
  <2>2. ms[i - 1] \in Envelope /\ q[i] \in Seq(Byte)
    <3>1. ms[i - 1] = IF i - 1 <= k THEN FirstFields(env, i - 1) ELSE FirstFields(env, (i - 1) - 1)
      BY <2>1
    <3>2. i - 1 \in 0 .. 8 /\ (~(i - 1 <= k) => (i - 1) - 1 \in 0 .. 8)
      OBVIOUS
    <3>3. ms[i - 1] \in Envelope
      <4> HIDE DEF ms
      <4> QED
        BY <1>5, <3>1, <3>2
    <3>4. q[i] \in Seq(Byte)
      <4> DEFINE X == Seq(Byte)
      <4>1. q \in Seq(X) /\ Len(q) = 9
        BY <1>3
      <4> HIDE DEF X, ms
      <4>2. i \in 1 .. Len(q)
        BY <4>1
      <4>3. q[i] \in X
        BY <4>1, <4>2, ElementOfSeq
      <4> QED
        BY <4>3 DEF X
    <3> QED
      BY <3>3, <3>4
  <2>3. CASE i <= k
    <3>1. i \in 1 .. 8 /\ i - 1 <= k
      BY <2>3
    <3>2. q[i] = ps[i] /\ ms[i - 1] = FirstFields(env, i - 1) /\ ms[i] = FirstFields(env, i)
      BY <1>3, <2>1, <2>3, <3>1
    <3> QED
      BY <1>4, <1>6, <2>2, <3>1, <3>2
  <2>4. CASE i = k + 1
    <3>1. i - 1 = k /\ ~(i <= k) /\ i - 1 <= k
      BY <2>4
    <3>2. q[i] = u /\ ms[i - 1] = FirstFields(env, k) /\ ms[i] = FirstFields(env, k)
      BY <1>3, <2>1, <2>4, <3>1
    <3> QED
      BY <1>2, <1>5, <1>6, <2>2, <3>2
  <2>5. CASE ~(i <= k) /\ i # k + 1
    <3>1. i - 1 \in 1 .. 8 /\ ~(i - 1 <= k)
      BY <2>5
    <3>2. q[i] = ps[i - 1] /\ ms[i - 1] = FirstFields(env, (i - 1) - 1) /\ ms[i] = FirstFields(env, i - 1)
      BY <1>3, <2>1, <2>5, <3>1
    <3> QED
      BY <1>4, <1>6, <2>2, <3>1, <3>2
  <2> QED
    BY <2>3, <2>4, <2>5
<1>8. ms[0] = EmptyEnvelope /\ ms[9] = env
  <2>1. ms[0] = FirstFields(env, 0) /\ ms[9] = FirstFields(env, 8)
    OBVIOUS
  <2> QED
    BY <2>1, FirstFieldsEnds
<1> HIDE DEF ms
<1>9. FlattenSeq(q) \in Seq(Byte) /\ Takes(EnvelopeDecoder, FlattenSeq(q), ms[0], ms[9])
  <2>1. Chain(EnvelopeDecoder, q, ms, S) /\ Len(q) # 0
    BY <1>3, <1>7 DEF Chain
  <2> QED
    BY <1>3, <2>1, FlattenTakes
<1>10. Decode(FlattenSeq(q)) = env
  <2>1. env \in Envelope
    BY EnvelopeTypes
  <2> QED
    BY <1>8, <1>9, <2>1, DecodeWhole
<1> QED
  BY <1>10 DEF With, q, ps

\* Every envelope in range comes back from its encoding, whatever the width of bytes
\* and words: alone, with an unknown field before, between or after its fields, and
\* never as another one when its encoding was cut (_encode_relay_envelope and
\* _decode_relay_envelope of mapping.py).
THEOREM EnvelopeSurvives == \A env : InRange(env) => SurvivesTheWire(env)
<1> SUFFICES ASSUME NEW env, InRange(env) PROVE SurvivesTheWire(env)
  OBVIOUS
<1> DEFINE d == Encode(env)
<1>1. /\ d \in Seq(Byte) /\ Takes(EnvelopeDecoder, d, EmptyEnvelope, env)
      /\ EndsIn(EnvelopeDecoder, d, EmptyEnvelope, EnvelopeParts(env))
  BY EncodeTaken DEF Taken
<1>2. env \in Envelope /\ env \in EnvelopeParts(env)
  BY PartsOfEnvelope, FirstFieldsEnds
<1>3. Decode(d) = env
  BY <1>1, <1>2, DecodeWhole
<1>4. ASSUME NEW n \in 0 .. Len(d), Decode(SubSeq(d, 1, n)).ok
      PROVE  PartOf(Decode(SubSeq(d, 1, n)), env)
  <2> DEFINE c == SubSeq(d, 1, n)
  <2>1. CASE n = Len(d)
    <3>1. c = d
      <4> HIDE DEF d
      <4> QED
        BY <1>1, <2>1
    <3>2. env.ok /\ ~Refused.ok
      BY <1>2 DEF Envelope, Refused
    <3>3. env \in {e \in Envelope : PartOf(e, env)} \/ env = Refused
      BY <1>2 DEF EnvelopeParts
    <3>4. PartOf(env, env)
      BY <3>2, <3>3
    <3> QED
      BY <1>3, <3>1, <3>4
  <2>2. CASE n # Len(d)
    <3>1. c \in Seq(Byte) /\ Cut(c, 0, d)
      <4> HIDE DEF d
      <4> QED
        BY <1>1, <2>2, PrefixCut
    <3>2. From(EnvelopeDecoder, c, 0, EmptyEnvelope) \in EnvelopeParts(env)
      BY <1>1, <3>1 DEF EndsIn
    <3>3. Decode(c) \in EnvelopeParts(env)
      BY <3>1, <3>2, DecodeFrom
    <3> QED
      BY <1>4, <3>3 DEF EnvelopeParts, Refused
  <2> QED
    BY <2>1, <2>2
<1>5. \A data \in {Encode(env)} \cup {With(env, u, i) : u \in UnknownFields, i \in 0 .. 8} :
         Decode(data) = env
  BY <1>3, WithTaken
<1>6. \A e \in {Decode(data) : data \in {SubSeq(Encode(env), 1, n) : n \in 0 .. Len(Encode(env))}} :
         e.ok => PartOf(e, env)
  BY <1>4
<1> QED
  BY <1>5, <1>6 DEF SurvivesTheWire

\* The first frame, and every other, is read as it was written.
THEOREM FramesComeBack == Spec => []FramesSurviveTheWire
<1>1. FramesSurvive
  BY EnvelopeSurvives, FramesAssumption DEF FramesSurvive
<1>2. FramesSurviveTheWire
  BY <1>1 DEF FramesSurviveTheWire
<1> QED
  BY <1>2, PTL

=============================================================================
