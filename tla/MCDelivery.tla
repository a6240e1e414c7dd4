----------------------------- MODULE MCDelivery -----------------------------
(***************************************************************************)
(* Instances of Delivery for TLC.                                          *)
(***************************************************************************)
EXTENDS Delivery

CONSTANTS m1, m2

TwoMessages == {m1, m2}
OwnMessage  == {m2}
=============================================================================
