------------------------------ MODULE Reports ------------------------------
(***************************************************************************)
(* The final reports of reports.cpp over the books of module Belt, and the *)
(* check at their end.  Prices are left out: a colour has one price, so    *)
(* what balances by colour balances in PLN.                                *)
(***************************************************************************)
EXTENDS Belt, FiniteSetsExt

Total(count) == MapThenSumSet(LAMBDA c : count[c], Color)

ChefTotal    == Total(produced)
CashierTotal == Total(sold)
WastedTotal  == Total(wasted)

(* The service report counts the dishes left on the belt by colour, the    *)
(* validation only their number.                                           *)
RemainingByColor == [c \in Color |-> Cardinality(OfColor(c))]
Remaining        == Cardinality(Occupied)

Calculated == CashierTotal + Remaining + WastedTotal

Match == ChefTotal = Calculated

(* What a group pays, by colour: handleGroupFinished of service.cpp adds   *)
(* up what the group reports.                                              *)
Billed(c) == MapThenSumSet(LAMBDA g : eaten[g][c], Group)

(* Those between consumeOneDish and the removal of the dish.               *)
ReachedFor(c) == {p \in Person : pc[p] = "take" /\ bite[p] = c}

---------------------------------------------------------------------------
(* README.md:261, after a shutdown the data are consistent: the report of  *)
(* main, drawn when all are done, says MATCH.                              *)
ReportMatches == (\A t \in Thread : pc[t] = "done") => Match

(* The bills are kept in each group, under the mutex of the group, and the *)
(* reports in shared memory, under that of the belt: yet every dish cooked *)
(* is on a bill, on the service report or wasted, and on no two of them    *)
(* but while a person who has been billed still reaches for it.            *)
BillsCoverReports ==
  \A c \in Color : Billed(c) + RemainingByColor[c] + wasted[c]
                    = produced[c] + Cardinality(ReachedFor(c))
=============================================================================
