------------------------------- MODULE MCGisBox -------------------------------
(***************************************************************************)
(* The start of the GIS box and its modem, for TLC.                          *)
(***************************************************************************)
EXTENDS GisBox

Spec == BoxInit /\ [][BoxNext]_boxVars /\ BoxFair
=============================================================================
