----------------------------- MODULE MCShutdown -----------------------------
(***************************************************************************)
(* A small staff for module Shutdown.                                      *)
(***************************************************************************)
EXTENDS Shutdown, TLC

CONSTANTS g1, g2

MCGroups == <<g1, g2>>
=============================================================================
