---------------------------- MODULE RelayFrames ----------------------------
(***************************************************************************)
(* RelayConnection sends and reads frames, RelayCodec makes bytes of them  *)
(* and frames of bytes: what the connection relies on.                     *)
(***************************************************************************)
EXTENDS RelayConnection, RelayCodec

\* The first frame that is read, whatever it is, is read as the peer wrote it: the
\* varints, the signs, the lengths and the skipped fields of mapping.py agree with
\* each other.  Decoding keeps no state, so what holds of the first holds of all.
FramesSurviveTheWire == state = "new" => FramesSurvive

=============================================================================
