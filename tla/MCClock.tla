------------------------------ MODULE MCClock ------------------------------
(***************************************************************************)
(* An evening of three seconds for module Clock, with two SIGCONTs.        *)
(***************************************************************************)
EXTENDS Clock, TLC
=============================================================================
