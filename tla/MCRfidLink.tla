----------------------------- MODULE MCRfidLink -----------------------------
(***************************************************************************)
(* Two cards in the reach of one gateway, for TLC.                          *)
(***************************************************************************)
EXTENDS RfidLink

CONSTANTS c1, c2

TwoCards == {c1, c2}
=============================================================================
