------------------------- MODULE MCRelayConnection -------------------------
(***************************************************************************)
(* RelayConnection on small instances: connections that mostly send,       *)
(* connections that mostly receive, and those of a finding.                *)
(***************************************************************************)
EXTENDS RelayFrames

Sending(m, n) ==
    [side |-> "connect", mode |-> m, sendTimeout |-> FALSE, forgetful |-> TRUE,
     sends |-> n, peerSeqs |-> 0, cancels |-> 0]

Receiving(s, n) ==
    [side |-> s, mode |-> "reliableOrdered", sendTimeout |-> FALSE, forgetful |-> FALSE,
     sends |-> 0, peerSeqs |-> n, cancels |-> 1]

\* Frame 0 leaves the window as frame 1 enters it: five payloads fill one of three.
AllSetups ==
    {Sending("bestEffort", 3), Sending("reliableOrdered", 5)}
        \cup {[Sending("bestEffort", 3) EXCEPT !.forgetful = FALSE],
              [Sending("atLeastOnce", 5) EXCEPT !.forgetful = FALSE, !.sendTimeout = TRUE]}
        \cup {Receiving(s, 4) : s \in {"connect", "accept"}}

Incoming == {Receiving("accept", 1)}
Sender == {Sending("reliableOrdered", 3)}
Receiver == {Receiving("connect", 2)}
AtLeastOnce == {[Receiving("connect", 1) EXCEPT !.mode = "atLeastOnce"]}

-----------------------------------------------------------------------------
(* The frames of the connection, in words of 7 bits and bytes of 2: as in  *)
(* the code, the last byte of a varint reaches one bit beyond the word.    *)

Words == {0, 1, 3, 4, 63, 64, 127}
SignedWords == {-64, -1, 0, 1, 63}
Texts == {<<>>, <<4, 1>>}

Sessions ==
    {[EmptySession EXCEPT !.serving_node_id = n, !.session_id = s] :
        n \in SignedWords, s \in Texts}

Plain == EmptyEnvelope
Full == [Plain EXCEPT !.relay_id = <<2>>, !.kind = 4, !.seq = 5, !.ack_seq = 6,
             !.payload = <<7, 0>>, !.sent_at_ms = 33,
             !.sender_session.serving_node_id = 9, !.target_session.session_id = <<1>>]

Envelopes ==
    {[Plain EXCEPT !.seq = n] : n \in 0 .. 127}
    \cup {[Plain EXCEPT !.sent_at_ms = n] : n \in -64 .. 63}
    \cup {[Full EXCEPT !.kind = k] : k \in Kinds}
    \cup {[Full EXCEPT !.seq = n, !.ack_seq = 127 - n] : n \in Words}
    \cup {[Full EXCEPT !.sender_session = s] : s \in Sessions}
    \cup {[Full EXCEPT !.target_session = s, !.relay_id = <<>>] : s \in Sessions}
    \cup {[e EXCEPT !.payload = p] : e \in {Plain, Full}, p \in {<<>>, <<7>>, <<6, 7>>}}

=============================================================================
