---------------------------- MODULE RelayCodec ----------------------------
(***************************************************************************)
(* The hand-written protobuf of relay frames in turntf/mapping.py, byte by *)
(* byte.  A byte carries GroupBits bits and a continuation mark (7 in the  *)
(* code), a word WordBits (64 in the code), so that every branch about     *)
(* width is reached with short words too.  Offsets count from 0.           *)
(***************************************************************************)
EXTENDS Integers, Sequences, SequencesExt

CONSTANTS
    GroupBits,  \* bits in a byte, without the mark
    WordBits,   \* bits in a word
    Frames      \* the envelopes that are sent

\* As in the code: two bytes are never too long for a varint, a byte counts beyond 2,
\* and the tag of every field below fits a word.
ASSUME WidthAssumption ==
    /\ GroupBits \in Nat /\ GroupBits >= 2
    /\ WordBits \in Nat /\ WordBits >= 7 /\ WordBits > GroupBits

TwoTo[n \in Nat] == IF n = 0 THEN 1 ELSE 2 * TwoTo[n - 1]

Group == TwoTo[GroupBits]
Word == TwoTo[WordBits]
Byte == 0 .. 2 * Group - 1

\* The most bytes a varint has: the last one may reach beyond the word.
MaxBytes == (WordBits + GroupBits - 1) \div GroupBits

Refused == [ok |-> FALSE]

-----------------------------------------------------------------------------
(* Encoding: a field that has its default value is left out.               *)

Varint[n \in Nat] ==
    IF n < Group THEN <<n>> ELSE <<Group + (n % Group)>> \o Varint[n \div Group]

EncodeVarint(n) == Varint[n % Word]

VarintField(field, n) ==
    IF n = 0 THEN <<>> ELSE EncodeVarint(8 * field) \o EncodeVarint(n)

BytesField(field, bytes) ==
    IF bytes = <<>> THEN <<>>
    ELSE EncodeVarint(8 * field + 2) \o EncodeVarint(Len(bytes)) \o bytes

EncodeSession(s) == VarintField(1, s.serving_node_id) \o BytesField(2, s.session_id)

EnvelopeFields(env) ==
    <<BytesField(1, env.relay_id), VarintField(2, env.kind),
      BytesField(3, EncodeSession(env.sender_session)),
      BytesField(4, EncodeSession(env.target_session)),
      VarintField(5, env.seq), VarintField(6, env.ack_seq),
      BytesField(7, env.payload), VarintField(8, env.sent_at_ms)>>

Encode(env) == FlattenSeq(EnvelopeFields(env))

-----------------------------------------------------------------------------
(* Decoding                                                                *)

\* The bytes of a varint at an offset, from the i-th on, as a number that is not
\* cut to the word; refused if it does not end in the data or is too long.
VarintFrom(data, at) ==
    LET from[i \in Nat] ==
            IF i >= MaxBytes \/ at + i >= Len(data) THEN Refused
            ELSE LET byte == data[at + i + 1]
                     more == from[i + 1]
                 IN  IF byte < Group THEN [ok |-> TRUE, value |-> byte, next |-> at + i + 1]
                     ELSE IF more.ok THEN [more EXCEPT !.value = (byte - Group) + Group * @]
                     ELSE Refused
    IN  from

DecodeVarint(data, at) == VarintFrom(data, at)[0]

\* Mutant of Signed: the sign is not extended.
Unsigned(n) == n

\* A word as an int64.
Signed(n) == IF n < Word \div 2 THEN n ELSE n - Word

\* One field: its number, its wire type, its value, where the next one starts,
\* and whether the data held all of it.  Only varints are checked here.
Field(data, tag, value, next) ==
    [ok |-> TRUE, field |-> tag.value \div 8, wire |-> tag.value % 8,
     value |-> value, next |-> next, whole |-> next <= Len(data)]

\* The bytes of a field, as many as there are.
Slice(data, from, length) ==
    SubSeq(data, from + 1, IF from + length <= Len(data) THEN from + length ELSE Len(data))

\* The field that starts with tag, and its value or its length if it has one.
FieldOf(data, tag, number) ==
    IF ~tag.ok THEN Refused
    ELSE CASE tag.value % 8 = 1 -> Field(data, tag, 0, tag.next + 8)
           [] tag.value % 8 = 5 -> Field(data, tag, 0, tag.next + 4)
           [] tag.value % 8 = 0 /\ number.ok -> Field(data, tag, number.value, number.next)
           [] tag.value % 8 = 2 /\ number.ok ->
                Field(data, tag, Slice(data, number.next, number.value),
                      number.next + number.value)
           [] OTHER -> Refused

ReadField(data, at) ==
    LET tag == DecodeVarint(data, at)
    IN  FieldOf(data, tag, DecodeVarint(data, tag.next))

\* A message field by field: what the fields from an offset on make of it.
FieldsFrom(Change(_, _), Messages, data) ==
    LET from[s \in [at : Nat, m : Messages]] ==
            IF s.at >= Len(data) THEN s.m
            ELSE LET f == ReadField(data, s.at)
                     m == IF f.ok THEN Change(s.m, f) ELSE Refused
                 IN  IF m.ok THEN from[[at |-> f.next, m |-> m]] ELSE Refused
    IN  from

\* Text is refused where it is not UTF-8; one byte stands for all that is not.
NotText == 2 * Group - 1
IsText(f) == f.whole /\ \A i \in DOMAIN f.value : f.value[i] # NotText
Is(f, field, wire) == f.field = field /\ f.wire = wire

Session == [ok : {TRUE}, serving_node_id : Int, session_id : Seq(Nat)]
EmptySession == [ok |-> TRUE, serving_node_id |-> 0, session_id |-> <<>>]

SessionField(s, f) ==
    CASE Is(f, 1, 0) -> [s EXCEPT !.serving_node_id = Signed(f.value)]
      [] Is(f, 2, 2) -> IF IsText(f) THEN [s EXCEPT !.session_id = f.value] ELSE Refused
      [] OTHER -> s

\* The bytes may have been cut short, which nobody looks at.
DecodeSession(data) ==
    FieldsFrom(SessionField, Session, data)[[at |-> 0, m |-> EmptySession]]

Kinds == 0 .. 7

Envelope ==
    [ok : {TRUE}, relay_id : Seq(Nat), kind : Kinds, sender_session : Session,
     target_session : Session, seq : Nat, ack_seq : Nat, payload : Seq(Nat),
     sent_at_ms : Int]
EmptyEnvelope ==
    [ok |-> TRUE, relay_id |-> <<>>, kind |-> 0, sender_session |-> EmptySession,
     target_session |-> EmptySession, seq |-> 0, ack_seq |-> 0, payload |-> <<>>,
     sent_at_ms |-> 0]

Embed(s, Change(_)) == IF s.ok THEN Change(s) ELSE Refused

EnvelopeField(e, f) ==
    CASE Is(f, 1, 2) -> IF IsText(f) THEN [e EXCEPT !.relay_id = f.value] ELSE Refused
      [] Is(f, 2, 0) -> IF f.value \in Kinds THEN [e EXCEPT !.kind = f.value] ELSE Refused
      [] Is(f, 3, 2) -> Embed(DecodeSession(f.value), LAMBDA t : [e EXCEPT !.sender_session = t])
      [] Is(f, 4, 2) -> Embed(DecodeSession(f.value), LAMBDA t : [e EXCEPT !.target_session = t])
      [] Is(f, 5, 0) -> [e EXCEPT !.seq = f.value]
      [] Is(f, 6, 0) -> [e EXCEPT !.ack_seq = f.value]
      [] Is(f, 7, 2) -> IF f.whole THEN [e EXCEPT !.payload = f.value] ELSE Refused
      [] Is(f, 8, 0) -> [e EXCEPT !.sent_at_ms = Signed(f.value)]
      [] OTHER -> e

Decode(data) == FieldsFrom(EnvelopeField, Envelope, data)[[at |-> 0, m |-> EmptyEnvelope]]

-----------------------------------------------------------------------------
(* What a reader of the wire format expects of an envelope in range        *)

\* Numbers fit a word, texts are texts, and lengths fit a word too.
Signable == -(Word \div 2) .. Word \div 2 - 1
TextBytes(t) == t \in Seq(Byte \ {NotText}) /\ Len(t) < Word

SessionInRange(s) ==
    /\ s \in Session /\ s.serving_node_id \in Signable
    /\ TextBytes(s.session_id) /\ Len(EncodeSession(s)) < Word

InRange(env) ==
    /\ env \in Envelope
    /\ TextBytes(env.relay_id)
    /\ SessionInRange(env.sender_session) /\ SessionInRange(env.target_session)
    /\ env.seq < Word /\ env.ack_seq < Word
    /\ env.payload \in Seq(Byte) /\ Len(env.payload) < Word
    /\ env.sent_at_ms \in Signable

ASSUME FramesAssumption == \A env \in Frames : InRange(env)

\* What a newer peer might add: a field of every wire type with an unknown
\* number, and a known number with another wire type.
UnknownFields ==
    {EncodeVarint(8 * 9) \o <<Group, 1>>,
     EncodeVarint(8 * 9 + 1) \o [i \in 1 .. 8 |-> NotText],
     EncodeVarint(8 * 9 + 2) \o <<2, Group, NotText>>,
     EncodeVarint(8 * 9 + 5) \o [i \in 1 .. 4 |-> NotText],
     EncodeVarint(8 * 5 + 2) \o <<1, 1>>}

\* The encoding with something put between its fields.
With(env, unknown, after) ==
    FlattenSeq(InsertAt(EnvelopeFields(env), after + 1, unknown))

\* Nothing has a value it had not in the frame that was cut.
PartOf(e, env) ==
    LET Part(s, t) == /\ s.serving_node_id \in {0, t.serving_node_id}
                      /\ s.session_id \in {<<>>, t.session_id}
    IN  /\ e.relay_id \in {<<>>, env.relay_id} /\ e.kind \in {0, env.kind}
        /\ Part(e.sender_session, env.sender_session)
        /\ Part(e.target_session, env.target_session)
        /\ e.seq \in {0, env.seq} /\ e.ack_seq \in {0, env.ack_seq}
        /\ e.payload \in {<<>>, env.payload} /\ e.sent_at_ms \in {0, env.sent_at_ms}

\* An envelope comes back from its encoding, also with unknown fields anywhere in
\* it; of an encoding that was cut, what is not refused is part of it.
SurvivesTheWire(env) ==
    LET wholes == {Encode(env)} \cup {With(env, u, i) : u \in UnknownFields, i \in 0 .. 8}
        parts == {SubSeq(Encode(env), 1, n) : n \in 0 .. Len(Encode(env))}
    IN  /\ \A data \in wholes : Decode(data) = env
        /\ \A e \in {Decode(data) : data \in parts} : e.ok => PartOf(e, env)

FramesSurvive == \A env \in Frames : SurvivesTheWire(env)

=============================================================================
