---------------------------- MODULE LedgerProofs ----------------------------
(***************************************************************************)
(* The books of the belt for every restaurant: the bills of the groups     *)
(* agree with the reports, the reports balance, and the belt with all its  *)
(* threads and semaphores implements the ledger of module DishLedger.      *)
(***************************************************************************)
EXTENDS BeltProofs, BeltLedger, Reports, TallyProofs

---------------------------------------------------------------------------
(* Groups and colours are finitely many, and sums over them are finite.    *)
LEMMA FiniteSums == IsFiniteSet(Group) /\ IsFiniteSet(Color) /\ IsFiniteSet(Dish)
<1>1. GroupOf \in Surjection(Person, Group) /\ IsFiniteSet(Person)
  BY PartiesAssumption DEF Surjection
<1>2. IsFiniteSet(Group)
  BY <1>1, FS_Surjection
<1>3. IsFiniteSet(Color)
  BY ValuesAssumption, FS_Union DEF Color
<1>4. IsFiniteSet(Dish)
  <2> DEFINE T == Group \cup {Anyone}
             f == [x \in Color \X T |-> [color |-> x[1], target |-> x[2]]]
  <2>1. IsFiniteSet(T)
    BY <1>2, FS_AddElement
  <2>2. f \in [Color \X T -> Dish]
    BY DEF Dish
  <2>3. \A d \in Dish : \E x \in Color \X T : f[x] = d
    <3> SUFFICES ASSUME NEW d \in Dish PROVE f[<<d.color, d.target>>] = d
      BY DEF Dish
    <3> QED
      BY DEF Dish
  <2>4. f \in Surjection(Color \X T, Dish)
    BY <2>2, <2>3 DEF Surjection
  <2> HIDE DEF T, f
  <2>5. QED
    BY <1>3, <2>1, <2>4, FS_Product, FS_Surjection
<1>5. QED
  BY <1>2, <1>3, <1>4

(* A sum of one colour over the bills e of all groups.                     *)
AddsColor(it, e, c) ==
  it = [s \in SUBSET Group |-> IF s = {} THEN 0
          ELSE e[CHOOSE x \in s : TRUE][c] + it[s \ {CHOOSE x \in s : TRUE}]]

LEMMA BillsCounted ==
  ASSUME NEW e \in [Group -> [Color -> Nat]], NEW c \in Color
  PROVE  (CHOOSE it : AddsColor(it, e, c))[Group]
           = Cardinality(Numbered(Group, [g \in Group |-> e[g][c]]))
<1> DEFINE n == [g \in Group |-> e[g][c]]
<1>1. IsFiniteSet(Group) /\ \A g \in Group : n[g] \in Nat
  BY FiniteSums
<1>2. ASSUME NEW it
      PROVE  AddsColor(it, e, c) <=> AddsUp(it, Group, n)
  <2>1. ASSUME NEW s \in SUBSET Group, s # {}
        PROVE  e[CHOOSE x \in s : TRUE][c] = n[CHOOSE x \in s : TRUE]
    <3>1. (CHOOSE x \in s : TRUE) \in Group
      BY <2>1
    <3>2. QED
      BY <3>1
  <2> HIDE DEF n
  <2>2. [s \in SUBSET Group |-> IF s = {} THEN 0
          ELSE e[CHOOSE x \in s : TRUE][c] + it[s \ {CHOOSE x \in s : TRUE}]]
        = [s \in SUBSET Group |-> IF s = {} THEN 0
          ELSE n[CHOOSE x \in s : TRUE] + it[s \ {CHOOSE x \in s : TRUE}]]
    BY <2>1
  <2>3. QED
    BY <2>2 DEF AddsColor, AddsUp
<1> HIDE DEF n
<1>3. \E it : AddsColor(it, e, c)
  BY <1>1, <1>2, FoldExists
<1>4. AddsUp(CHOOSE it : AddsColor(it, e, c), Group, n)
  BY <1>2, <1>3
<1>5. QED
  BY <1>1, <1>4, FoldCounted DEF n

LEMMA BilledNow ==
  ASSUME TypeOK, NEW c \in Color
  PROVE  Billed(c) = Cardinality(Numbered(Group, [g \in Group |-> eaten[g][c]]))
<1>1. Billed(c) = (CHOOSE it : AddsColor(it, eaten, c))[Group]
  BY DEF Billed, AddsColor, MapThenSumSet, MapThenFoldSet
<1>2. eaten \in [Group -> [Color -> Nat]]
  BY DEF TypeOK
<1>3. QED
  BY <1>1, <1>2, BillsCounted

LEMMA BilledNext ==
  ASSUME TypeOK', NEW c \in Color
  PROVE  Billed(c)' = Cardinality(Numbered(Group, [g \in Group |-> eaten'[g][c]]))
<1>1. Billed(c)' = (CHOOSE it : AddsColor(it, eaten', c))[Group]
  BY DEF Billed, AddsColor, MapThenSumSet, MapThenFoldSet
<1>2. eaten' \in [Group -> [Color -> Nat]]
  BY DEF TypeOK
<1>3. QED
  BY <1>1, <1>2, BillsCounted

---------------------------------------------------------------------------
(* Those who have been billed and not yet taken their dish.                *)
LEMMA PersonsCounted ==
  ASSUME NEW S \in SUBSET Person
  PROVE  IsFiniteSet(S) /\ Cardinality(S) \in Nat
<1>1. IsFiniteSet(S)
  BY PartiesAssumption, FS_Subset
<1>2. QED
  BY <1>1, FS_CardinalityType

(* A person who bites: what they eat comes on the bill of their group and  *)
(* off its appetite.                                                       *)
LEMMA Bites ==
  ASSUME Inv, NEW p \in Person, PersonBite(p)
  PROVE  /\ GroupOf[p] \in Group /\ dishesToEat[GroupOf[p]] > 0
         /\ pc[p] = "scan" /\ pc'[p] = "take" /\ bite'[p] \in Color
         /\ \A q \in Person : q # p => pc'[q] = pc[q] /\ bite'[q] = bite[q]
         /\ dishesToEat' = [dishesToEat EXCEPT ![GroupOf[p]] = @ - 1]
         /\ eaten' = [eaten EXCEPT ![GroupOf[p]][bite'[p]] = @ + 1]
         /\ UNCHANGED <<sem, belt, counters, phase>>
<1>1. TypeOK /\ GroupOf[p] \in Group /\ p \in Thread
  BY PartiesAssumption DEF Inv, Thread
<1>2. PICK i \in Slot : /\ IsLeast(i, Edible(GroupOf[p]))
                        /\ bite' = [bite EXCEPT ![p] = belt[i].color]
                        /\ eaten' = [eaten EXCEPT ![GroupOf[p]][belt[i].color] = @ + 1]
  BY <1>1 DEF PersonBite
<1>3. belt[i] \in Dish /\ belt[i].color \in Color
  <2>1. belt[i] # None /\ belt[i] \in Dish \cup {None}
    BY <1>1, <1>2 DEF IsLeast, Edible, TypeOK
  <2>2. QED
    BY <2>1 DEF Dish
<1>4. bite' = [bite EXCEPT ![p] = bite'[p]] /\ bite'[p] = belt[i].color
  BY <1>1, <1>2 DEF TypeOK
<1>5. \A q \in Person : q # p => bite'[q] = bite[q]
  BY <1>1, <1>2 DEF TypeOK
<1>6. pc[p] = "scan" /\ pc'[p] = "take" /\ \A q \in Person : q # p => pc'[q] = pc[q]
  BY <1>1 DEF PersonBite, At, Goto, TypeOK, Thread
<1>7. QED
  BY <1>1, <1>2, <1>3, <1>4, <1>5, <1>6 DEF PersonBite

(* A person who takes their dish is no longer reaching for it.             *)
LEMMA Takes ==
  ASSUME Inv, NEW p \in Person, PersonTake(p)
  PROVE  /\ GroupOf[p] \in Group /\ bite[p] \in Color
         /\ pc[p] = "take" /\ pc'[p] = "loop"
         /\ \A q \in Person : q # p => pc'[q] = pc[q] /\ bite'[q] = bite[q]
         /\ sold' = [sold EXCEPT ![bite[p]] = @ + 1]
         /\ UNCHANGED <<produced, wasted, groupVars>>
<1>1. TypeOK /\ Control /\ GroupOf[p] \in Group /\ p \in Thread
  BY PartiesAssumption DEF Inv, Thread
<1>2. pc[p] = "take" /\ pc'[p] = "loop" /\ \A q \in Person : q # p => pc'[q] = pc[q]
  BY <1>1 DEF PersonTake, At, Goto, TypeOK, Thread
<1>3. \A q \in Person : q # p => bite'[q] = bite[q]
  BY <1>1 DEF PersonTake, TypeOK
<1>4. QED
  BY <1>1, <1>2, <1>3 DEF PersonTake, Control

(* Every other step leaves bills, appetites and those who reach alone.     *)
LEMMA NobodyBites ==
  ASSUME Inv, [Next]_vars, \A p \in Person : ~PersonBite(p) /\ ~PersonTake(p)
  PROVE  /\ UNCHANGED <<eaten, dishesToEat, sold, bite>>
         /\ \A p \in Person : pc'[p] = "take" <=> pc[p] = "take"
<1> USE StaffApart DEF locals, counters, groupVars
<1> USE DEF Goto, At
<1>0. TypeOK /\ Control
  BY DEF Inv
<1>1. CASE ChefStep
  BY <1>0, <1>1 DEF ChefStep, ChefTakeOrder, ChefCookNormal, ChefWaitSlot, ChefLock, ChefScan, ChefPut,
                    ChefDrop, ChefSpeed, TypeOK
<1>2. CASE RotorStep
  BY <1>0, <1>2 DEF RotorStep, RotorLock, Rotate, TypeOK
<1>3. CASE ServiceStep
  BY <1>0, <1>3 DEF ServiceStep, ServiceStop, ServiceRecv, ServiceLockState, ServiceLockBelt, ServiceClean,
                    TypeOK
<1>4. ASSUME NEW p \in Person, PersonStep(p)
      PROVE  /\ UNCHANGED <<eaten, dishesToEat, sold, bite>>
             /\ \A q \in Person : pc'[q] = "take" <=> pc[q] = "take"
  <2>1. ~Flagged(p)
    BY <1>0, NobodyFlagged
  <2>2. UNCHANGED <<eaten, dishesToEat, sold, bite>>
    BY <1>4 DEF PersonStep, PersonStop, PersonWantsPremium, PersonWantsAnything, PersonOrder,
                PersonWaitItem, PersonLock, PersonMiss
  <2>3. \E l \in {"done", "order", "items", "lock", "scan", "loop"} : Goto(p, l) /\ pc[p] # "take"
    BY <1>4, <2>1 DEF PersonStep, PersonStop, PersonWantsPremium, PersonWantsAnything, PersonOrder,
                      PersonWaitItem, PersonLock, PersonMiss
  <2>4. QED
    BY <1>0, <2>2, <2>3 DEF TypeOK
<1>5. ASSUME NEW g \in Group, GroupFinish(g)
      PROVE  /\ UNCHANGED <<eaten, dishesToEat, sold, bite>>
             /\ \A q \in Person : pc'[q] = "take" <=> pc[q] = "take"
  BY <1>5 DEF GroupFinish
<1>6. CASE UNCHANGED vars
  BY <1>6 DEF vars
<1>7. QED
  BY <1>1, <1>2, <1>3, <1>4, <1>5, <1>6 DEF Next

---------------------------------------------------------------------------
(* What is billed is sold, or a person is reaching for it.                 *)
BilledIsSold == \A c \in Color : Billed(c) = sold[c] + Cardinality(ReachedFor(c))

LEMMA InitBilled == Init => BilledIsSold
<1> SUFFICES ASSUME Init, NEW c \in Color PROVE Billed(c) = sold[c] + Cardinality(ReachedFor(c))
  BY DEF BilledIsSold
<1>1. TypeOK /\ sold[c] = 0
  BY InitControl DEF Init
<1>2. ReachedFor(c) = {}
  BY StaffApart DEF Init, ReachedFor
<1> DEFINE n == [g \in Group |-> eaten[g][c]]
<1>3. \A g \in Group : n[g] = 0
  BY DEF Init
<1>4. Numbered(Group, n) = {}
  <2> HIDE DEF n
  <2>1. \A g \in Group : 1 .. n[g] = {}
    BY <1>3
  <2>2. QED
    BY <2>1 DEF Numbered
<1>5. Billed(c) = Cardinality(Numbered(Group, n))
  BY <1>1, BilledNow
<1> HIDE DEF n
<1>6. QED
  BY <1>1, <1>2, <1>4, <1>5, FS_EmptySet

LEMMA NextBilled ==
  ASSUME Inv, BilledIsSold, [Next]_vars
  PROVE  BilledIsSold'
<1> SUFFICES ASSUME NEW c \in Color PROVE Billed(c)' = sold'[c] + Cardinality(ReachedFor(c)')
  BY DEF BilledIsSold
<1>1. TypeOK /\ TypeOK'
  BY NextInv DEF Inv
<1> DEFINE n == [g \in Group |-> eaten[g][c]]
           m == [g \in Group |-> eaten'[g][c]]
<1>2. Billed(c) = Cardinality(Numbered(Group, n)) /\ Billed(c)' = Cardinality(Numbered(Group, m))
  BY <1>1, BilledNow, BilledNext
<1>3. \A g \in Group : n[g] \in Nat /\ m[g] \in Nat /\ n[g] = eaten[g][c] /\ m[g] = eaten'[g][c]
  BY <1>1 DEF TypeOK
<1> HIDE DEF n, m
<1>4. /\ Billed(c) = sold[c] + Cardinality(ReachedFor(c)) /\ sold \in [Color -> Nat] /\ sold[c] \in Nat
      /\ IsFiniteSet(ReachedFor(c)) /\ Cardinality(ReachedFor(c)) \in Nat
  BY <1>1, PersonsCounted DEF BilledIsSold, TypeOK, ReachedFor
<1>5. ASSUME NEW p \in Person, PersonBite(p)
      PROVE  Billed(c)' = sold'[c] + Cardinality(ReachedFor(c)')
  <2> DEFINE g == GroupOf[p]
  <2>1. g \in Group /\ sold' = sold
    BY <1>5, Bites DEF counters
  <2>2. m[g] = n[g] + (IF bite'[p] = c THEN 1 ELSE 0) /\ \A h \in Group : h # g => m[h] = n[h]
    <3>1. /\ eaten \in [Group -> [Color -> Nat]] /\ bite'[p] \in Color
          /\ eaten' = [eaten EXCEPT ![g][bite'[p]] = @ + 1]
      BY <1>1, <1>5, Bites DEF TypeOK
    <3>2. QED
      BY <1>3, <2>1, <3>1
  <2>3. Cardinality(Numbered(Group, m)) = Cardinality(Numbered(Group, n)) + m[g] - n[g]
    <3>1. \A h \in Group : n[h] \in Nat /\ m[h] \in Nat /\ (h # g => m[h] = n[h])
      BY <1>3, <2>2
    <3>2. QED
      BY <2>1, <3>1, FiniteSums, NumberedChange
  <2>4. Billed(c)' = Billed(c) + (IF bite'[p] = c THEN 1 ELSE 0)
    <3>1. Billed(c) \in Nat
      BY <1>4
    <3>2. n[g] \in Nat /\ m[g] \in Nat
      BY <1>3, <2>1
    <3>3. QED
      BY <1>2, <2>2, <2>3, <3>1, <3>2
  <2>5. CASE bite'[p] = c
    <3>1. ReachedFor(c)' = ReachedFor(c) \cup {p} /\ p \notin ReachedFor(c)
      BY <1>5, <2>5, Bites DEF ReachedFor
    <3>2. Cardinality(ReachedFor(c)') = Cardinality(ReachedFor(c)) + 1
      BY <1>4, <3>1, FS_AddElement
    <3>3. QED
      BY <1>4, <2>1, <2>5, <2>4, <3>2
  <2>6. CASE bite'[p] # c
    <3>1. ReachedFor(c)' = ReachedFor(c)
      BY <1>5, <2>6, Bites DEF ReachedFor
    <3>2. QED
      BY <1>4, <2>1, <2>6, <2>4, <3>1
  <2>7. QED
    BY <2>5, <2>6
<1>6. ASSUME NEW p \in Person, PersonTake(p)
      PROVE  Billed(c)' = sold'[c] + Cardinality(ReachedFor(c)')
  <2>1. eaten' = eaten /\ bite[p] \in Color /\ sold' = [sold EXCEPT ![bite[p]] = @ + 1]
    BY <1>6, Takes DEF groupVars
  <2>2. Billed(c)' = Billed(c)
    BY <1>2, <2>1 DEF n, m
  <2>3. sold'[c] = sold[c] + (IF bite[p] = c THEN 1 ELSE 0)
    BY <1>4, <2>1
  <2>4. CASE bite[p] = c
    <3>1. ReachedFor(c)' = ReachedFor(c) \ {p} /\ p \in ReachedFor(c)
      BY <1>6, <2>4, Takes DEF ReachedFor
    <3>2. Cardinality(ReachedFor(c)') = Cardinality(ReachedFor(c)) - 1
      BY <1>4, <3>1, FS_RemoveElement
    <3>3. QED
      BY <1>4, <2>2, <2>3, <2>4, <3>2
  <2>5. CASE bite[p] # c
    <3>1. ReachedFor(c)' = ReachedFor(c)
      BY <1>6, <2>5, Takes DEF ReachedFor
    <3>2. QED
      BY <1>4, <2>2, <2>3, <2>5, <3>1
  <2>6. QED
    BY <2>4, <2>5
<1>7. CASE \A p \in Person : ~PersonBite(p) /\ ~PersonTake(p)
  <2>1. UNCHANGED <<eaten, sold>> /\ ReachedFor(c)' = ReachedFor(c)
    BY <1>7, NobodyBites DEF ReachedFor
  <2>2. Billed(c)' = Billed(c)
    BY <1>2, <2>1 DEF n, m
  <2>3. QED
    BY <1>4, <2>1, <2>2
<1>8. QED
  BY <1>5, <1>6, <1>7

(* The bills of the groups and the reports of the restaurant agree: each   *)
(* dish is on a bill, on the service report or wasted, except that the     *)
(* bill comes first while a person reaches for the dish.                   *)
THEOREM BillsMatchReports == Spec => []BillsCoverReports
<1>1. Init => Inv /\ Conservation /\ BilledIsSold
  BY InitInv, InitConservation, InitBilled
<1>2. Inv /\ Conservation /\ BilledIsSold /\ [Next]_vars => (Inv /\ Conservation /\ BilledIsSold)'
  BY NextInv, NextConservation, NextBilled
<1>3. Inv /\ Conservation /\ BilledIsSold => BillsCoverReports
  <2> SUFFICES ASSUME Inv, Conservation, BilledIsSold, NEW c \in Color
               PROVE  Billed(c) + RemainingByColor[c] + wasted[c]
                        = produced[c] + Cardinality(ReachedFor(c))
    BY DEF BillsCoverReports
  <2>1. /\ produced[c] \in Nat /\ sold[c] \in Nat /\ wasted[c] \in Nat
        /\ Cardinality(OfColor(c)) \in Nat /\ Cardinality(ReachedFor(c)) \in Nat
    BY SlotsFinite, PersonsCounted DEF Inv, TypeOK, OfColor, Occupied, ReachedFor
  <2>2. RemainingByColor[c] = Cardinality(OfColor(c))
    BY DEF RemainingByColor
  <2>3. QED
    BY <2>1, <2>2 DEF Conservation, BilledIsSold
<1>4. QED
  BY <1>1, <1>2, <1>3, PTL DEF Spec

---------------------------------------------------------------------------
(* The totals of the reports, as numbers of numbered dishes.               *)
LEMMA TotalCounted ==
  ASSUME NEW n, \A c \in Color : n[c] \in Nat
  PROVE  Total(n) = Cardinality(Numbered(Color, n)) /\ Total(n) \in Nat
<1>1. Total(n) = (CHOOSE it : AddsUp(it, Color, n))[Color]
  BY DEF Total, AddsUp, MapThenSumSet, MapThenFoldSet
<1>2. QED
  BY <1>1, FiniteSums, FoldExists, FoldCounted, NumberedFinite

(* The service report counts by colour what the validation counts at once. *)
LEMMA RemainingCounted ==
  ASSUME TypeOK
  PROVE  Cardinality(Numbered(Color, RemainingByColor)) = Remaining
<1> DEFINE S == Occupied
           color == [i \in Slot |-> belt[i].color]
<1>1. IsFiniteSet(S)
  BY SlotsFinite DEF Occupied
<1>2. \A i \in S : color[i] \in Color
  BY DEF TypeOK, Occupied, Dish
<1>3. \A c \in Color : RemainingByColor[c] = Cardinality(OfKind(S, color, c))
  <2>1. ASSUME NEW c \in Color
        PROVE  OfKind(S, color, c) = OfColor(c)
    BY DEF OfKind, OfColor, Occupied
  <2>2. QED
    BY <2>1 DEF RemainingByColor
<1> HIDE DEF S, color
<1>4. Cardinality(Numbered(Color, RemainingByColor)) = Cardinality(S)
  BY <1>1, <1>2, <1>3, CountedByKind
<1>5. QED
  BY <1>4 DEF S, Remaining

(* The validation at the end of reports.cpp would say MATCH whenever it    *)
(* were drawn, as long as no signal came: it is the signal alone that      *)
(* makes the final report wrong.                                           *)
THEOREM ReportsBalance == Spec => []Match
<1>1. Init => Inv /\ Conservation
  BY InitInv, InitConservation
<1>2. Inv /\ Conservation /\ [Next]_vars => (Inv /\ Conservation)'
  BY NextInv, NextConservation
<1>3. Inv /\ Conservation => Match
  <2> SUFFICES ASSUME Inv, Conservation PROVE Match
    OBVIOUS
  <2> DEFINE here == [c \in Color |-> wasted[c] + RemainingByColor[c]]
  <2>1. \A c \in Color :
          /\ produced[c] \in Nat /\ sold[c] \in Nat /\ wasted[c] \in Nat
          /\ RemainingByColor[c] \in Nat
          /\ produced[c] = sold[c] + wasted[c] + RemainingByColor[c]
    BY SlotsFinite DEF Inv, TypeOK, Conservation, OfColor, Occupied, RemainingByColor
  <2>2. \A c \in Color : /\ here[c] \in Nat /\ here[c] = wasted[c] + RemainingByColor[c]
                          /\ produced[c] = sold[c] + here[c]
    BY <2>1
  <2> HIDE DEF here
  <2>3. Cardinality(Numbered(Color, produced))
          = Cardinality(Numbered(Color, sold)) + Cardinality(Numbered(Color, here))
    BY <2>1, <2>2, FiniteSums, NumberedSum
  <2>4. Cardinality(Numbered(Color, here))
          = Cardinality(Numbered(Color, wasted)) + Cardinality(Numbered(Color, RemainingByColor))
    BY <2>1, <2>2, FiniteSums, NumberedSum
  <2>5. Cardinality(Numbered(Color, RemainingByColor)) = Remaining
    BY RemainingCounted DEF Inv
  <2>6. /\ ChefTotal = Cardinality(Numbered(Color, produced))
        /\ CashierTotal = Cardinality(Numbered(Color, sold)) /\ CashierTotal \in Nat
        /\ WastedTotal = Cardinality(Numbered(Color, wasted)) /\ WastedTotal \in Nat
    BY <2>1, TotalCounted DEF ChefTotal, CashierTotal, WastedTotal
  <2>7. Remaining \in Nat
    BY SlotsFinite DEF Remaining, Occupied
  <2>8. QED
    BY <2>3, <2>4, <2>5, <2>6, <2>7 DEF Match, Calculated
<1>4. QED
  BY <1>1, <1>2, <1>3, PTL DEF Spec

---------------------------------------------------------------------------
(* The entries of the ledger, read off the belt and the groups.            *)
LEMMA StockCounted ==
  ASSUME NEW k \in Dish
  PROVE  /\ Stock[k] = Cardinality(Where(belt, {k})) /\ Stock[k] \in Nat
         /\ Stock'[k] = Cardinality(Where(belt', {k})) /\ Stock'[k] \in Nat
<1>1. {i \in Slot : belt[i] = k} = Where(belt, {k}) /\ {i \in Slot : belt'[i] = k} = Where(belt', {k})
  BY DEF Where
<1>2. Stock[k] = Cardinality(Where(belt, {k})) /\ Stock'[k] = Cardinality(Where(belt', {k}))
  BY <1>1 DEF Stock
<1>3. Where(belt, {k}) \in SUBSET Slot /\ Where(belt', {k}) \in SUBSET Slot
  BY DEF Where
<1>4. QED
  BY <1>2, <1>3, SlotsFinite

LEMMA StockIs == /\ Stock = [k \in Dish |-> Stock[k]] /\ Stock' = [k \in Dish |-> Stock'[k]]
                 /\ Ledger!Kind = Dish
  BY DEF Stock, Ledger!Kind, Dish

(* What is on offer is what is on the belt.                                *)
LEMMA OnOfferIsOccupied == TypeOK => Ledger!OnOffer = Cardinality(Occupied)
<1> SUFFICES ASSUME TypeOK PROVE Ledger!OnOffer = Cardinality(Occupied)
  OBVIOUS
<1>1. Ledger!OnOffer = (CHOOSE it : AddsUp(it, Dish, Stock))[Dish]
  BY DEF Ledger!OnOffer, Ledger!Kind, Ledger!MapThenSumSet, Ledger!MapThenFoldSet, AddsUp, Dish
<1>2. IsFiniteSet(Dish) /\ \A k \in Dish : Stock[k] \in Nat
  BY FiniteSums, StockCounted
<1>3. Ledger!OnOffer = Cardinality(Numbered(Dish, Stock))
  BY <1>1, <1>2, FoldExists, FoldCounted
<1>4. \A k \in Dish : Stock[k] = Cardinality({i \in Occupied : belt[i] = k})
  <2>1. \A k \in Dish : {i \in Occupied : belt[i] = k} = {i \in Slot : belt[i] = k}
    BY ValuesAssumption DEF Occupied
  <2>2. QED
    BY <2>1 DEF Stock
<1>5. IsFiniteSet(Occupied) /\ \A i \in Occupied : belt[i] \in Dish
  <2>1. Occupied \in SUBSET Slot /\ \A i \in Occupied : belt[i] \in Dish
    BY DEF TypeOK, Occupied
  <2>2. QED
    BY <2>1, SlotsFinite
<1>6. Cardinality(Numbered(Dish, Stock)) = Cardinality(Occupied)
  <2> DEFINE S == Occupied
  <2>1. IsFiniteSet(S)
    BY <1>5
  <2>2. \A i \in S : belt[i] \in Dish
    BY <1>5
  <2>3. \A k \in Dish : Stock[k] = Cardinality(OfKind(S, belt, k))
    BY <1>4 DEF OfKind
  <2> HIDE DEF S
  <2>4. Cardinality(Numbered(Dish, Stock)) = Cardinality(S)
    BY <2>1, <2>2, <2>3, CountedByKind
  <2>5. QED
    BY <2>4 DEF S
<1>7. QED
  BY <1>3, <1>6

(* Bills and wishes are about those who reach for a dish.                  *)
BitingOf(g, c) == {p \in Biting(g) : bite[p] = c}

LEMMA BitingCounted ==
  ASSUME NEW g, NEW c
  PROVE  /\ IsFiniteSet(Biting(g)) /\ Cardinality(Biting(g)) \in Nat
         /\ IsFiniteSet(BitingOf(g, c)) /\ Cardinality(BitingOf(g, c)) \in Nat
  BY PersonsCounted DEF Biting, BitingOf

LEMMA BillIs ==
  /\ Bill = [g \in Group |-> [c \in Color |-> eaten[g][c] - Cardinality(BitingOf(g, c))]]
  /\ Bill' = [g \in Group |-> [c \in Color |-> eaten'[g][c] - Cardinality(BitingOf(g, c)')]]
  /\ Wish = [g \in Group |-> dishesToEat[g] + Cardinality(Biting(g))]
  /\ Wish' = [g \in Group |-> dishesToEat'[g] + Cardinality(Biting(g)')]
  BY DEF Bill, Wish, BitingOf

LEMMA BillKept ==
  ASSUME UNCHANGED <<eaten, dishesToEat, bite>>, \A p \in Person : pc'[p] = "take" <=> pc[p] = "take"
  PROVE  Bill' = Bill /\ Wish' = Wish
<1>1. \A g : Biting(g)' = Biting(g)
  BY DEF Biting
<1>2. \A g, c : BitingOf(g, c)' = BitingOf(g, c)
  BY <1>1 DEF BitingOf
<1>3. QED
  BY <1>1, <1>2, BillIs

(* Between the bill and the belt a bite is no entry.                       *)
LEMMA BiteIsNoEntry ==
  ASSUME Inv, NEW p \in Person, PersonBite(p)
  PROVE  Bill' = Bill /\ Wish' = Wish
<1> DEFINE g == GroupOf[p]
           b == bite'[p]
<1>0. /\ g \in Group /\ pc[p] = "scan" /\ pc'[p] = "take" /\ b \in Color
      /\ \A q \in Person : q # p => pc'[q] = pc[q] /\ bite'[q] = bite[q]
      /\ dishesToEat' = [dishesToEat EXCEPT ![g] = @ - 1]
      /\ eaten' = [eaten EXCEPT ![g][b] = @ + 1]
  BY Bites
<1>1. eaten \in [Group -> [Color -> Nat]] /\ dishesToEat \in [Group -> Nat]
  BY DEF Inv, TypeOK
<1>2. \A h \in Group : Biting(h)' = IF h = g THEN Biting(h) \cup {p} ELSE Biting(h)
  <2>1. ASSUME NEW h \in Group, NEW q \in Person, GroupOf[q] = h
        PROVE  pc'[q] = "take" <=> pc[q] = "take" \/ q = p
    BY <1>0
  <2>2. QED
    BY <2>1 DEF Biting
<1>3. \A h \in Group, c \in Color :
        BitingOf(h, c)' = IF h = g /\ c = b THEN BitingOf(h, c) \cup {p} ELSE BitingOf(h, c)
  <2> SUFFICES ASSUME NEW h \in Group, NEW c \in Color
               PROVE  BitingOf(h, c)' = IF h = g /\ c = b THEN BitingOf(h, c) \cup {p} ELSE BitingOf(h, c)
    OBVIOUS
  <2>1. BitingOf(h, c) = {q \in Person : GroupOf[q] = h /\ pc[q] = "take" /\ bite[q] = c}
    BY DEF BitingOf, Biting
  <2>2. BitingOf(h, c)' = {q \in Person : GroupOf[q] = h /\ pc'[q] = "take" /\ bite'[q] = c}
    BY DEF BitingOf, Biting
  <2>3. \A q \in Person : pc'[q] = "take" /\ bite'[q] = c
                           <=> (pc[q] = "take" /\ bite[q] = c) \/ (q = p /\ c = b)
    BY <1>0
  <2>4. QED
    BY <2>1, <2>2, <2>3
<1>4. \A h, c : p \notin Biting(h) /\ p \notin BitingOf(h, c)
  BY <1>0 DEF Biting, BitingOf
<1> HIDE DEF g, b
<1>5. \A h \in Group : Cardinality(Biting(h)') = Cardinality(Biting(h)) + (IF h = g THEN 1 ELSE 0)
  <2>1. \A h \in Group : IsFiniteSet(Biting(h)) /\ Cardinality(Biting(h)) \in Nat
    BY BitingCounted
  <2>2. Cardinality(Biting(g) \cup {p}) = Cardinality(Biting(g)) + 1
    BY <1>0, <1>4, <2>1, FS_AddElement
  <2> SUFFICES ASSUME NEW h \in Group
               PROVE  Cardinality(Biting(h)') = Cardinality(Biting(h)) + (IF h = g THEN 1 ELSE 0)
    OBVIOUS
  <2>3. CASE h = g
    BY <1>2, <2>2, <2>3
  <2>4. CASE h # g
    BY <1>2, <2>1, <2>4
  <2>5. QED
    BY <2>3, <2>4
<1>6. \A h \in Group, c \in Color :
        Cardinality(BitingOf(h, c)') = Cardinality(BitingOf(h, c)) + (IF h = g /\ c = b THEN 1 ELSE 0)
  <2>1. \A h \in Group, c \in Color : IsFiniteSet(BitingOf(h, c)) /\ Cardinality(BitingOf(h, c)) \in Nat
    BY BitingCounted
  <2>2. Cardinality(BitingOf(g, b) \cup {p}) = Cardinality(BitingOf(g, b)) + 1
    BY <1>0, <1>4, <2>1, FS_AddElement
  <2> SUFFICES ASSUME NEW h \in Group, NEW c \in Color
               PROVE  Cardinality(BitingOf(h, c)')
                        = Cardinality(BitingOf(h, c)) + (IF h = g /\ c = b THEN 1 ELSE 0)
    OBVIOUS
  <2>3. CASE h = g /\ c = b
    BY <1>3, <2>2, <2>3
  <2>4. CASE ~(h = g /\ c = b)
    BY <1>3, <2>1, <2>4
  <2>5. QED
    BY <2>3, <2>4
<1>7. \A h \in Group : dishesToEat'[h] + Cardinality(Biting(h)') = dishesToEat[h] + Cardinality(Biting(h))
  <2> SUFFICES ASSUME NEW h \in Group
               PROVE  dishesToEat'[h] + Cardinality(Biting(h)') = dishesToEat[h] + Cardinality(Biting(h))
    OBVIOUS
  <2>1. dishesToEat[h] \in Nat /\ Cardinality(Biting(h)) \in Nat
    BY <1>1, BitingCounted
  <2>2. dishesToEat'[h] = dishesToEat[h] - (IF h = g THEN 1 ELSE 0)
    BY <1>0, <1>1
  <2>3. QED
    BY <1>5, <2>1, <2>2
<1>8. ASSUME NEW h \in Group, NEW c \in Color
      PROVE  eaten'[h][c] - Cardinality(BitingOf(h, c)') = eaten[h][c] - Cardinality(BitingOf(h, c))
  <2>1. eaten'[h][c] = eaten[h][c] + (IF h = g /\ c = b THEN 1 ELSE 0) /\ eaten[h][c] \in Nat
    BY <1>0, <1>1
  <2>2. QED
    BY <1>6, <2>1, BitingCounted
<1>9. QED
  BY <1>7, <1>8, BillIs

(* The dish taken off the belt is the entry.                               *)
LEMMA TakeIsBilled ==
  ASSUME Inv, NEW p \in Person, PersonTake(p)
  PROVE  /\ Wish[GroupOf[p]] > 0
         /\ Bill' = [Bill EXCEPT ![GroupOf[p]][bite[p]] = @ + 1]
         /\ Wish' = [Wish EXCEPT ![GroupOf[p]] = @ - 1]
<1> DEFINE g == GroupOf[p]
           b == bite[p]
<1>0. /\ g \in Group /\ b \in Color /\ pc[p] = "take" /\ pc'[p] = "loop"
      /\ \A q \in Person : q # p => pc'[q] = pc[q] /\ bite'[q] = bite[q]
      /\ eaten' = eaten /\ dishesToEat' = dishesToEat
  BY Takes DEF groupVars
<1>1. eaten \in [Group -> [Color -> Nat]] /\ dishesToEat \in [Group -> Nat]
  BY DEF Inv, TypeOK
<1>2. \A h \in Group : Biting(h)' = IF h = g THEN Biting(h) \ {p} ELSE Biting(h)
  <2>1. ASSUME NEW h \in Group, NEW q \in Person, GroupOf[q] = h
        PROVE  pc'[q] = "take" <=> pc[q] = "take" /\ q # p
    BY <1>0
  <2>2. QED
    BY <2>1 DEF Biting
<1>3. \A h \in Group, c \in Color :
        BitingOf(h, c)' = IF h = g /\ c = b THEN BitingOf(h, c) \ {p} ELSE BitingOf(h, c)
  <2> SUFFICES ASSUME NEW h \in Group, NEW c \in Color
               PROVE  BitingOf(h, c)' = IF h = g /\ c = b THEN BitingOf(h, c) \ {p} ELSE BitingOf(h, c)
    OBVIOUS
  <2>1. BitingOf(h, c) = {q \in Person : GroupOf[q] = h /\ pc[q] = "take" /\ bite[q] = c}
    BY DEF BitingOf, Biting
  <2>2. BitingOf(h, c)' = {q \in Person : GroupOf[q] = h /\ pc'[q] = "take" /\ bite'[q] = c}
    BY DEF BitingOf, Biting
  <2>3. \A q \in Person : pc'[q] = "take" /\ bite'[q] = c
                           <=> (pc[q] = "take" /\ bite[q] = c) /\ q # p
    BY <1>0
  <2>4. QED
    BY <2>1, <2>2, <2>3
<1>4. p \in Biting(g) /\ p \in BitingOf(g, b)
  BY <1>0 DEF Biting, BitingOf
<1> HIDE DEF g, b
<1>5. \A h \in Group : Cardinality(Biting(h)') = Cardinality(Biting(h)) - (IF h = g THEN 1 ELSE 0)
  <2>1. \A h \in Group : IsFiniteSet(Biting(h)) /\ Cardinality(Biting(h)) \in Nat
    BY BitingCounted
  <2>2. Cardinality(Biting(g) \ {p}) = Cardinality(Biting(g)) - 1
    BY <1>0, <1>4, <2>1, FS_RemoveElement
  <2> SUFFICES ASSUME NEW h \in Group
               PROVE  Cardinality(Biting(h)') = Cardinality(Biting(h)) - (IF h = g THEN 1 ELSE 0)
    OBVIOUS
  <2>3. CASE h = g
    BY <1>2, <2>2, <2>3
  <2>4. CASE h # g
    BY <1>2, <2>1, <2>4
  <2>5. QED
    BY <2>3, <2>4
<1>6. \A h \in Group, c \in Color :
        Cardinality(BitingOf(h, c)') = Cardinality(BitingOf(h, c)) - (IF h = g /\ c = b THEN 1 ELSE 0)
  <2>1. \A h \in Group, c \in Color : IsFiniteSet(BitingOf(h, c)) /\ Cardinality(BitingOf(h, c)) \in Nat
    BY BitingCounted
  <2>2. Cardinality(BitingOf(g, b) \ {p}) = Cardinality(BitingOf(g, b)) - 1
    BY <1>0, <1>4, <2>1, FS_RemoveElement
  <2> SUFFICES ASSUME NEW h \in Group, NEW c \in Color
               PROVE  Cardinality(BitingOf(h, c)')
                        = Cardinality(BitingOf(h, c)) - (IF h = g /\ c = b THEN 1 ELSE 0)
    OBVIOUS
  <2>3. CASE h = g /\ c = b
    BY <1>3, <2>2, <2>3
  <2>4. CASE ~(h = g /\ c = b)
    BY <1>3, <2>1, <2>4
  <2>5. QED
    BY <2>3, <2>4
<1>7. Cardinality(Biting(g)) > 0
  <2>1. Biting(g) # {} /\ IsFiniteSet(Biting(g)) /\ Cardinality(Biting(g)) \in Nat
    BY <1>4, BitingCounted
  <2>2. Cardinality(Biting(g)) # 0
    BY <2>1, FS_EmptySet
  <2>3. QED
    BY <2>1, <2>2
<1>8. Wish[g] > 0
  BY <1>0, <1>1, <1>7, BillIs, BitingCounted
<1>9. Wish' = [Wish EXCEPT ![g] = @ - 1]
  <2>1. \A h \in Group : Wish'[h] = IF h = g THEN Wish[h] - 1 ELSE Wish[h]
    BY <1>0, <1>1, <1>5, BillIs, BitingCounted
  <2>2. QED
    BY <2>1, BillIs
<1>10. Bill' = [Bill EXCEPT ![g][b] = @ + 1]
  <2>1. ASSUME NEW h \in Group, NEW c \in Color
        PROVE  Bill'[h][c] = IF h = g /\ c = b THEN Bill[h][c] + 1 ELSE Bill[h][c]
    <3>1. eaten'[h][c] = eaten[h][c] /\ eaten[h][c] \in Nat
      BY <1>0, <1>1
    <3>2. /\ Bill[h][c] = eaten[h][c] - Cardinality(BitingOf(h, c))
          /\ Bill'[h][c] = eaten'[h][c] - Cardinality(BitingOf(h, c)')
      BY BillIs
    <3>3. QED
      BY <1>6, <3>1, <3>2, BitingCounted
  <2>2. Bill = [h \in Group |-> [c \in Color |-> Bill[h][c]]] /\ Bill' = [h \in Group |-> [c \in Color |-> Bill'[h][c]]]
    BY BillIs
  <2> DEFINE C == [Bill EXCEPT ![g][b] = @ + 1]
  <2>3. ASSUME NEW h \in Group
        PROVE  Bill'[h] = C[h]
    <3>1. C[h] = IF h = g THEN [Bill[g] EXCEPT ![b] = @ + 1] ELSE Bill[h]
      BY <1>0, <2>2
    <3>2. Bill[h] = [c \in Color |-> Bill[h][c]] /\ Bill'[h] = [c \in Color |-> Bill'[h][c]]
      BY <2>2
    <3>3. CASE h = g
      BY <1>0, <2>1, <3>1, <3>2, <3>3
    <3>4. CASE h # g
      BY <2>1, <3>1, <3>2, <3>4
    <3>5. QED
      BY <3>3, <3>4
  <2>4. QED
    BY <2>2, <2>3
<1>11. QED
  BY <1>8, <1>9, <1>10 DEF g, b

---------------------------------------------------------------------------
(* The steps of the belt as entries of the ledger.                         *)
LEMMA CookEntry ==
  ASSUME Inv, ChefPut
  PROVE  \E k \in Ledger!Kind : Ledger!Cook(k)
<1>0. TypeOK /\ Control /\ ChefFindsSlot
  BY DEF Inv
<1>1. plate \in Dish /\ plate \in Ledger!Kind
  BY PutMoves, StockIs
<1>2. Ledger!OnOffer < BeltSize
  <2>1. slot["chef"] \in Slot /\ belt[slot["chef"]] = None
    BY <1>0 DEF ChefPut, ChefFindsSlot, TypeOK, At
  <2>2. Occupied \subseteq Slot /\ Occupied # Slot
    BY <2>1 DEF Occupied
  <2>3. IsFiniteSet(Slot) /\ Cardinality(Slot) \in Nat /\ Cardinality(Slot) <= BeltSize
    BY SlotsFinite
  <2>4. Cardinality(Occupied) \in Nat /\ Ledger!OnOffer = Cardinality(Occupied)
    BY <1>0, <2>2, SlotsFinite, OnOfferIsOccupied
  <2>5. /\ Cardinality(Occupied) <= Cardinality(Slot)
        /\ Cardinality(Slot) = Cardinality(Occupied) => Slot = Occupied
    BY <2>2, <2>3, FS_Subset
  <2>6. QED
    BY <2>2, <2>3, <2>4, <2>5, SizesAssumption
<1>3. Stock' = [Stock EXCEPT ![plate] = @ + 1]
  <2>1. ASSUME NEW k \in Dish
        PROVE  Stock'[k] = IF k = plate THEN Stock[k] + 1 ELSE Stock[k]
    <3>1. Cardinality(Where(belt', {k})) = Cardinality(Where(belt, {k})) + (IF plate \in {k} THEN 1 ELSE 0)
      BY PutMoves
    <3>2. QED
      BY <3>1, StockCounted
  <2>2. QED
    BY <2>1, StockIs
<1>4. Bill' = Bill /\ Wish' = Wish
  <2>1. UNCHANGED <<eaten, dishesToEat, bite>>
    BY DEF ChefPut, groupVars
  <2>2. \A p \in Person : pc'[p] = pc[p]
    BY <1>0, StaffApart DEF ChefPut, Goto, TypeOK
  <2>3. QED
    BY <2>1, <2>2, BillKept
<1>5. Left' = Left
  BY DEF ChefPut, groupVars, Left
<1>6. UNCHANGED <<sold, wasted>> /\ produced' = [produced EXCEPT ![plate.color] = @ + 1]
  BY DEF ChefPut
<1>7. Ledger!Cook(plate)
  BY <1>2, <1>3, <1>4, <1>5, <1>6 DEF Ledger!Cook
<1>8. QED
  BY <1>1, <1>7

LEMMA SellEntry ==
  ASSUME Inv, BillSettled, NEW p \in Person, PersonTake(p)
  PROVE  \E k \in Ledger!Kind, g \in Group : Ledger!Sell(g, k)
<1> DEFINE g == GroupOf[p]
           d == belt[slot[p]]
<1>1. g \in Group /\ d \in Dish /\ d \in Ledger!Kind /\ slot[p] \in Slot
  BY PartiesAssumption, TakeMoves, StockIs
<1>2. d.color = bite[p] /\ d.target \in {Anyone, g}
  BY TakeMoves
<1>3. g \notin Left
  BY <1>1, Takes DEF BillSettled, Left
<1>4. /\ Wish[g] > 0
      /\ Bill' = [Bill EXCEPT ![g][d.color] = @ + 1]
      /\ Wish' = [Wish EXCEPT ![g] = @ - 1]
  BY <1>2, TakeIsBilled
<1>5. Stock' = [Stock EXCEPT ![d] = @ - 1]
  <2>1. ASSUME NEW k \in Dish
        PROVE  Stock'[k] = IF k = d THEN Stock[k] - 1 ELSE Stock[k]
    <3>1. Cardinality(Where(belt', {k})) = Cardinality(Where(belt, {k})) - (IF d \in {k} THEN 1 ELSE 0)
      BY TakeMoves
    <3>2. QED
      BY <3>1, StockCounted
  <2>2. QED
    BY <1>1, <2>1, StockIs
<1>6. Stock[d] > 0
  <2>1. Stock[d] \in Nat /\ Stock'[d] \in Nat
    BY <1>1, StockCounted
  <2>2. Stock'[d] = Stock[d] - 1
    BY <1>1, <1>5, StockIs
  <2>3. QED
    BY <2>1, <2>2
<1>7. UNCHANGED <<produced, wasted>> /\ Left' = Left /\ sold' = [sold EXCEPT ![d.color] = @ + 1]
  BY <1>2, Takes DEF groupVars, Left
<1> HIDE DEF g, d
<1>8. Ledger!Sell(g, d)
  BY <1>2, <1>3, <1>4, <1>5, <1>6, <1>7 DEF Ledger!Sell
<1>9. QED
  BY <1>1, <1>8

LEMMA LeaveEntry ==
  ASSUME Inv, BillSettled, ServiceClean
  PROVE  \E g \in Group : Ledger!Leave(g)
<1>0. TypeOK /\ Control
  BY DEF Inv
<1>1. client \in Group /\ phase[client] = "paying"
  BY <1>0 DEF Control, ServiceClean, At
<1>2. client \notin Left /\ Left' = Left \cup {client}
  <2>1. phase' = [phase EXCEPT ![client] = "gone"] /\ DOMAIN phase = Group
    BY <1>0 DEF ServiceClean, TypeOK
  <2>2. QED
    BY <1>1, <2>1 DEF Left
<1>3. Wish[client] = 0
  <2>1. dishesToEat[client] = 0 /\ \A p \in Person : GroupOf[p] = client => pc[p] = "done"
    BY <1>1 DEF BillSettled
  <2>2. Biting(client) = {}
    BY <2>1 DEF Biting
  <2>3. Cardinality(Biting(client)) = 0
    BY <2>2, FS_EmptySet
  <2>4. Wish[client] = dishesToEat[client] + Cardinality(Biting(client))
    BY <1>1, BillIs
  <2>5. QED
    BY <2>1, <2>3, <2>4
<1>4. \A i \in Slot : belt[i] \in Dish \cup {None}
  BY <1>0 DEF TypeOK
<1>5. ASSUME NEW c \in Color
      PROVE  OfColor(c) \cap Reserved(client) = {i \in Slot : belt[i] = [color |-> c, target |-> client]}
  <2>1. [color |-> c, target |-> client] \in Dish
    BY <1>1 DEF Dish
  <2>2. \A x \in Dish : x = [color |-> c, target |-> client] <=> x.color = c /\ x.target = client
    BY DEF Dish
  <2>3. QED
    BY <1>4, <2>1, <2>2, ValuesAssumption DEF OfColor, Reserved, Occupied
<1>6. wasted' = [c \in Color |-> wasted[c] + Stock[[color |-> c, target |-> client]]]
  <2>1. \A c \in Color : [color |-> c, target |-> client] \in Dish
    BY <1>1 DEF Dish
  <2>2. \A c \in Color : Stock[[color |-> c, target |-> client]] = Cardinality(OfColor(c) \cap Reserved(client))
    BY <1>5, <2>1 DEF Stock
  <2>3. QED
    BY <2>2 DEF ServiceClean
<1>7. ASSUME NEW k \in Dish
      PROVE  Stock'[k] = IF k.target = client THEN 0 ELSE Stock[k]
  <2>1. \A i \in Slot : belt'[i] = IF i \in Reserved(client) THEN None ELSE belt[i]
    BY DEF ServiceClean
  <2>2. Stock'[k] = Cardinality({i \in Slot : belt'[i] = k})
    BY DEF Stock
  <2>3. k # None
    BY ValuesAssumption
  <2>4. CASE k.target = client
    <3>1. {i \in Slot : belt'[i] = k} = {}
      BY <2>1, <2>3, <2>4 DEF Reserved, Occupied
    <3>2. QED
      BY <2>2, <2>4, <3>1, FS_EmptySet
  <2>5. CASE k.target # client
    <3>1. {i \in Slot : belt'[i] = k} = {i \in Slot : belt[i] = k}
      BY <2>1, <2>3, <2>5 DEF Reserved, Occupied
    <3>2. QED
      BY <2>2, <2>5, <3>1 DEF Stock
  <2>6. QED
    BY <2>4, <2>5
<1>8. Stock' = [k \in Ledger!Kind |-> IF k.target = client THEN 0 ELSE Stock[k]]
  BY <1>7, StockIs
<1>9. Bill' = Bill /\ Wish' = Wish
  <2>1. UNCHANGED <<eaten, dishesToEat, bite>>
    BY DEF ServiceClean
  <2>2. \A p \in Person : pc'[p] = pc[p]
    BY <1>0, StaffApart DEF ServiceClean, Goto, TypeOK
  <2>3. QED
    BY <2>1, <2>2, BillKept
<1>10. UNCHANGED <<produced, sold>>
  BY DEF ServiceClean
<1>11. Ledger!Leave(client)
  BY <1>2, <1>3, <1>6, <1>8, <1>9, <1>10 DEF Ledger!Leave
<1>12. QED
  BY <1>1, <1>11

LEMMA NoEntry ==
  ASSUME Inv, [Next]_vars, ~ChefPut, ~ServiceClean, \A p \in Person : ~PersonTake(p)
  PROVE  UNCHANGED Ledger!vars
<1>0. TypeOK /\ Control
  BY DEF Inv
<1>1. Stock' = Stock /\ UNCHANGED <<produced, sold, wasted>>
  <2>1. CASE Rotate
    <3>1. \A k \in Dish : Stock'[k] = Stock[k]
      BY <2>1, TurnMoves, StockCounted
    <3>2. QED
      BY <2>1, <3>1, StockIs DEF Rotate, counters
  <2>2. CASE ~Rotate
    BY <2>2, BeltUntouched DEF Stock
  <2>3. QED
    BY <2>1, <2>2
<1>2. Bill' = Bill /\ Wish' = Wish
  <2>1. CASE \E p \in Person : PersonBite(p)
    BY <2>1, BiteIsNoEntry
  <2>2. CASE \A p \in Person : ~PersonBite(p)
    BY <2>2, NobodyBites, BillKept
  <2>3. QED
    BY <2>1, <2>2
<1>3. Left' = Left
  <2>1. CASE \E g \in Group : GroupFinish(g)
    <3>1. PICK g \in Group : GroupFinish(g)
      BY <2>1
    <3>2. \A h \in Group : phase'[h] = "gone" <=> phase[h] = "gone"
      BY <1>0, <3>1 DEF GroupFinish, TypeOK
    <3>3. QED
      BY <3>2 DEF Left
  <2>2. CASE \A g \in Group : ~GroupFinish(g)
    <3>1. phase' = phase
      <4> USE DEF groupVars
      <4>1. CASE ChefStep
        BY <4>1 DEF ChefStep, ChefTakeOrder, ChefCookNormal, ChefWaitSlot, ChefLock, ChefScan, ChefPut,
                    ChefDrop, ChefSpeed
      <4>2. CASE RotorStep
        BY <4>2 DEF RotorStep, RotorLock, Rotate
      <4>3. CASE ServiceStep
        BY <4>3 DEF ServiceStep, ServiceStop, ServiceRecv, ServiceLockState, ServiceLockBelt
      <4>4. ASSUME NEW p \in Person, PersonStep(p) PROVE phase' = phase
        BY <4>4 DEF PersonStep, PersonStop, PersonWantsPremium, PersonWantsAnything, PersonOrder,
                    PersonWaitItem, PersonLock, PersonBite, PersonMiss
      <4>5. CASE UNCHANGED vars
        BY <4>5 DEF vars
      <4>6. QED
        BY <2>2, <4>1, <4>2, <4>3, <4>4, <4>5 DEF Next
    <3>2. QED
      BY <3>1 DEF Left
  <2>3. QED
    BY <2>1, <2>2
<1>4. QED
  BY <1>1, <1>2, <1>3 DEF Ledger!vars

LEMMA InitLedger == Init => Ledger!Init
<1> SUFFICES ASSUME Init PROVE Ledger!Init
  OBVIOUS
<1>1. TypeOK
  BY InitControl
<1>2. Stock = [k \in Ledger!Kind |-> 0]
  <2>1. \A k \in Dish : {i \in Slot : belt[i] = k} = {}
    BY ValuesAssumption DEF Init
  <2>2. \A k \in Dish : Stock[k] = 0
    BY <2>1, FS_EmptySet DEF Stock
  <2>3. QED
    BY <2>2, StockIs
<1>3. \A g \in Group : Biting(g) = {}
  BY StaffApart DEF Init, Biting
<1>4. \A g \in Group : Cardinality(Biting(g)) = 0 /\ \A c \in Color : Cardinality(BitingOf(g, c)) = 0
  BY <1>3, FS_EmptySet DEF BitingOf
<1>5. Bill = [g \in Group |-> [c \in Color |-> 0]]
  <2>1. \A g \in Group, c \in Color : eaten[g][c] - Cardinality(BitingOf(g, c)) = 0
    BY <1>4 DEF Init
  <2>2. QED
    BY <2>1, BillIs
<1>6. Wish \in [Group -> Nat]
  <2>1. \A g \in Group : dishesToEat[g] + Cardinality(Biting(g)) \in Nat
    BY <1>1, <1>4 DEF TypeOK
  <2>2. QED
    BY <2>1, BillIs
<1>7. Left = {}
  BY DEF Init, Left
<1>8. QED
  BY <1>2, <1>5, <1>6, <1>7 DEF Init, Ledger!Init

LEMMA LedgerStep ==
  ASSUME Inv, BillSettled, [Next]_vars
  PROVE  [Ledger!Next]_(Ledger!vars)
<1>1. CASE ChefPut
  BY <1>1, CookEntry DEF Ledger!Next
<1>2. CASE ServiceClean
  BY <1>2, LeaveEntry DEF Ledger!Next
<1>3. CASE \E p \in Person : PersonTake(p)
  BY <1>3, SellEntry DEF Ledger!Next
<1>4. CASE ~ChefPut /\ ~ServiceClean /\ \A p \in Person : ~PersonTake(p)
  BY <1>4, NoEntry
<1>5. QED
  BY <1>1, <1>2, <1>3, <1>4

(* The belt with its threads and semaphores is the ledger: whatever the    *)
(* sizes and the order of the threads, each dish cooked is sold once, to a *)
(* present group that still wanted one and that it was meant for, or       *)
(* written off when its group has left.                                    *)
THEOREM KeepsTheLedger == Spec => ImplementsLedger
<1>1. Init => Inv /\ Sated /\ BillSettled
  BY InitInv, InitSettled
<1>2. Inv /\ Sated /\ BillSettled /\ [Next]_vars => (Inv /\ Sated /\ BillSettled)'
  BY NextInv, NextSettled DEF Inv
<1>3. Inv /\ Sated /\ BillSettled /\ [Next]_vars => [Ledger!Next]_(Ledger!vars)
  BY LedgerStep
<1>4. QED
  BY InitLedger, <1>1, <1>2, <1>3, PTL DEF Spec, ImplementsLedger, Ledger!Spec
=============================================================================
