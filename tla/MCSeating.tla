----------------------------- MODULE MCSeating -----------------------------
(***************************************************************************)
(* A small house for module Seating: a table for one and one for four,     *)
(* and four groups of which one is a VIP.  A waiting line holds two, so    *)
(* the three that are no VIPs cannot all wait in it.                       *)
(***************************************************************************)
EXTENDS SeatingList, TLC

CONSTANTS a, b, c, v

SmallHouse == 0 :> 1 @@ 1 :> 4
Ungated    == -1
MixedSizes == a :> 1 @@ b :> 2 @@ c :> 1 @@ v :> 1
===========================================================================
