----------------------------- MODULE BeltLedger -----------------------------
(***************************************************************************)
(* The belt implements the dish ledger.  A dish is sold at the moment it   *)
(* leaves the belt; between consumeOneDish, which bills the group, and     *)
(* that moment the bill of the ledger lags behind Group::eatenCount.       *)
(***************************************************************************)
EXTENDS Belt

Biting(g) == {p \in Person : GroupOf[p] = g /\ pc[p] = "take"}

Stock == [k \in Dish |-> Cardinality({i \in Slot : belt[i] = k})]
Bill  == [g \in Group |-> [c \in Color |->
            eaten[g][c] - Cardinality({p \in Biting(g) : bite[p] = c})]]
Wish  == [g \in Group |-> dishesToEat[g] + Cardinality(Biting(g))]
Left  == {g \in Group : phase[g] = "gone"}

Ledger == INSTANCE DishLedger WITH
  Capacity <- BeltSize, stock <- Stock, bill <- Bill, wish <- Wish, left <- Left

(* Every step of chef, belt, persons and service is one entry in the       *)
(* ledger, or none: nothing is billed that is not sold, sold that was not  *)
(* cooked, sold to a group that has paid, or wasted while someone may eat. *)
ImplementsLedger == Ledger!Spec
=============================================================================
