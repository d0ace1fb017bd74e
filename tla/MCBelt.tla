------------------------------- MODULE MCBelt -------------------------------
(***************************************************************************)
(* Small restaurants for TLC: one or two groups at two tables, the first   *)
(* of one or of two persons (who race for the dishes of their group).      *)
(***************************************************************************)
EXTENDS BeltLedger, Reports, TLC

CONSTANTS g1, g2, p1, p2, p3

Singles == {p1, p3}
SinglesGroupOf == p1 :> g1 @@ p3 :> g2

Single == {p1}
SingleGroupOf == p1 :> g1

CoupleAndSingle == {p1, p2, p3}
CoupleAndSingleGroupOf == p1 :> g1 @@ p2 :> g1 @@ p3 :> g2

Couple == {p1, p2}
CoupleGroupOf == p1 :> g1 @@ p2 :> g1

MCTableOf == [g \in Group |-> IF g = g1 THEN 0 ELSE 1]

(* What the groups come for.                                               *)
TwoEach    == [g \in Group |-> {2}]
OneEach    == [g \in Group |-> {1}]
TwoAndOne  == [g \in Group |-> IF g = g1 THEN {2} ELSE {1}]
ThreeAndOne == [g \in Group |-> IF g = g1 THEN {3} ELSE {1}]
NoneOrOne  == [g \in Group |-> {0, 1}]
TwoAndNone  == [g \in Group |-> IF g = g1 THEN {2} ELSE {0}]
=============================================================================
