----------------------------- MODULE DishLedger -----------------------------
(***************************************************************************)
(* What the restaurant promises about its dishes, with no belt, semaphore  *)
(* or thread in it: a ledger in which every dish is cooked once and then   *)
(* sold once, to a group that is present and that it is meant for, or      *)
(* written off when its group leaves.  reports.cpp prints this ledger;     *)
(* module Belt implements it.                                              *)
(***************************************************************************)
EXTENDS Integers, FiniteSetsExt

CONSTANTS Capacity,  \* dishes on offer at a time
          Color, Group,
          Anyone     \* the target of a dish that is for nobody in particular

Kind == [color : Color, target : Group \cup {Anyone}]

VARIABLES stock,     \* the dishes on offer, by kind
          produced, sold, wasted,
          bill,      \* what each group owes, by colour
          wish,      \* the dishes each group still wants
          left       \* the groups that have paid and gone

vars == <<stock, produced, sold, wasted, bill, wish, left>>

OnOffer == MapThenSumSet(LAMBDA k : stock[k], Kind)

Init == /\ stock = [k \in Kind |-> 0]
        /\ produced = [c \in Color |-> 0]
        /\ sold = [c \in Color |-> 0]
        /\ wasted = [c \in Color |-> 0]
        /\ bill = [g \in Group |-> [c \in Color |-> 0]]
        /\ wish \in [Group -> Nat]
        /\ left = {}

Cook(k) ==
  /\ OnOffer < Capacity
  /\ stock' = [stock EXCEPT ![k] = @ + 1]
  /\ produced' = [produced EXCEPT ![k.color] = @ + 1]
  /\ UNCHANGED <<sold, wasted, bill, wish, left>>

Sell(g, k) ==
  /\ g \notin left /\ wish[g] > 0
  /\ k.target \in {Anyone, g} /\ stock[k] > 0
  /\ stock' = [stock EXCEPT ![k] = @ - 1]
  /\ sold' = [sold EXCEPT ![k.color] = @ + 1]
  /\ bill' = [bill EXCEPT ![g][k.color] = @ + 1]
  /\ wish' = [wish EXCEPT ![g] = @ - 1]
  /\ UNCHANGED <<produced, wasted, left>>

(* A group leaves when it has had all it came for; its dishes are wasted.  *)
Leave(g) ==
  /\ g \notin left /\ wish[g] = 0
  /\ left' = left \cup {g}
  /\ wasted' = [c \in Color |-> wasted[c] + stock[[color |-> c, target |-> g]]]
  /\ stock' = [k \in Kind |-> IF k.target = g THEN 0 ELSE stock[k]]
  /\ UNCHANGED <<produced, sold, bill, wish>>

Next == \/ \E k \in Kind : Cook(k) \/ (\E g \in Group : Sell(g, k))
        \/ \E g \in Group : Leave(g)

Spec == Init /\ [][Next]_vars
=============================================================================
