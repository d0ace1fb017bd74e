--------------------------- MODULE SigtermProofs ---------------------------
(***************************************************************************)
(* What module Belt guarantees whenever kill(0, SIGTERM) comes and in      *)
(* whatever order it reaches the processes.  From then on P() no longer    *)
(* keeps threads apart, and the accounts of the belt may go wrong; what    *)
(* stays true is what each thread holds in its own hands, that a bill is   *)
(* sent by groups that have finished only, and that no semaphore is kept   *)
(* by a process on its way out.                                            *)
(***************************************************************************)
EXTENDS Belt, FiniteSetTheorems, TLAPS

---------------------------------------------------------------------------
(* Any collection of slots is finite.                                      *)
LEMMA SlotsFinite ==
  ASSUME NEW S \in SUBSET Slot
  PROVE  IsFiniteSet(S) /\ Cardinality(S) \in Nat /\ Cardinality(S) <= BeltSize
<1>1. BeltSize \in Nat \ {0}
  BY SizesAssumption
<1>2. IsFiniteSet(0 .. BeltSize - 1) /\ Cardinality(0 .. BeltSize - 1) = BeltSize
  BY <1>1, FS_Interval
<1>3. IsFiniteSet(S) /\ Cardinality(S) <= BeltSize
  BY <1>2, FS_Subset DEF Slot
<1>4. QED
  BY <1>3, FS_CardinalityType

(* The staff are threads of their own, not persons.                        *)
LEMMA StaffApart ==
  /\ \A p \in Person : p \in Thread /\ p # "chef" /\ p # "belt" /\ p # "service"
  /\ "chef" \in Thread /\ "belt" \in Thread /\ "service" \in Thread
  BY PartiesAssumption DEF Thread, Staff

LEMMA SemaphoreNames == /\ "STATE" \in Semaphore /\ "BELT" \in Semaphore /\ "SLOTS" \in Semaphore
                        /\ "ITEMS" \in Semaphore /\ "PREMIUM_FREE" \in Semaphore
  BY DEF Semaphore

LEMMA GivenTwo ==
  ASSUME sem \in [Semaphore -> Nat], NEW s \in Semaphore, NEW r \in Semaphore, s # r
  PROVE  [sem EXCEPT ![s] = @ + 1, ![r] = @ + 1] \in [Semaphore -> Nat]
  OBVIOUS

LEMMA GivenThree ==
  ASSUME sem \in [Semaphore -> Nat], NEW n \in Nat,
         NEW s \in Semaphore, NEW r \in Semaphore, NEW q \in Semaphore, s # r, r # q, q # s
  PROVE  [sem EXCEPT ![s] = @ + n, ![r] = @ + 1, ![q] = @ + 1] \in [Semaphore -> Nat]
<1>1. \A k \in Semaphore : sem[k] \in Nat /\ sem[k] + 1 \in Nat /\ sem[k] + n \in Nat
  OBVIOUS
<1>2. QED
  BY <1>1

LEMMA Moved ==
  ASSUME TypeOK, NEW t \in Thread, NEW l \in Place, Goto(t, l)
  PROVE  /\ pc' \in [Thread -> Place]
         /\ pc'[t] = l
         /\ \A u \in Thread : u # t => pc'[u] = pc[u]
  BY DEF TypeOK, Goto

(* P takes the semaphore, or the caller has been signalled.                *)
LEMMA TakenOrNot ==
  ASSUME TypeOK, NEW t \in Thread, NEW s \in Semaphore, P(t, s)
  PROVE  /\ sem' \in [Semaphore -> Nat]
         /\ \A r \in Semaphore : r # s => sem'[r] = sem[r]
         /\ sem' = sem \/ sem[s] > 0
<1>1. sem' = sem \/ (sem[s] > 0 /\ sem' = [sem EXCEPT ![s] = @ - 1])
  BY DEF P
<1>2. sem \in [Semaphore -> Nat]
  BY DEF TypeOK
<1>3. QED
  BY <1>1, <1>2

(* One that waited took it, or gave back one it may not have taken.        *)
LEMMA WaitedOrNot ==
  ASSUME sem \in [Semaphore -> Nat], NEW s \in Semaphore,
         \/ sem[s] > 0 /\ sem' = [sem EXCEPT ![s] = @ - 1]
         \/ sem' = sem \/ sem' = [sem EXCEPT ![s] = @ + 1]
  PROVE  sem' \in [Semaphore -> Nat]
<1>1. CASE sem[s] > 0 /\ sem' = [sem EXCEPT ![s] = @ - 1]
  <2>1. sem[s] - 1 \in Nat
    BY <1>1
  <2>2. QED
    BY <1>1, <2>1
<1>2. CASE sem' = sem
  BY <1>2
<1>3. CASE sem' = [sem EXCEPT ![s] = @ + 1]
  BY <1>3
<1>4. QED
  BY <1>1, <1>2, <1>3

LEMMA GivenOne ==
  ASSUME TypeOK, NEW s \in Semaphore, V(s)
  PROVE  /\ sem' \in [Semaphore -> Nat] /\ sem'[s] = sem[s] + 1
         /\ \A r \in Semaphore : r # s => sem'[r] = sem[r]
  BY DEF V, TypeOK

---------------------------------------------------------------------------
(* Where the threads may be, and what they hold while they are there.      *)
Hands ==
  /\ pc["chef"] \in {"recv", "slots", "lock", "scan", "put", "speed", "done"}
  /\ pc["belt"] \in {"lock", "rotate", "done"}
  /\ pc["service"] \in {"recv", "state", "lock", "clean", "done"}
  /\ \A p \in Person : pc[p] \in {"loop", "order", "items", "lock", "scan", "take", "done"}
  /\ pc["chef"] \in {"slots", "lock", "scan", "put"} => plate \in Dish
  /\ pc["service"] \in {"state", "lock", "clean"} => client \in Group /\ phase[client] = "paying"
  /\ \A p \in Person : pc[p] = "take" => slot[p] \in Slot /\ bite[p] \in Color

(* The restaurant opens in order.                                          *)
LEMMA InitHands == Init => TypeOK /\ Hands
<1> SUFFICES ASSUME Init PROVE TypeOK /\ Hands
  OBVIOUS
<1> USE DEF Init
<1>1. sem \in [Semaphore -> Nat]
  BY SizesAssumption DEF Semaphore
<1>2. dishesToEat \in [Group -> Nat] /\ ordersLeft \in [Group -> Nat]
  BY PartiesAssumption
<1>3. orders \in Seq(Order)
  OBVIOUS
<1>4. pc \in [Thread -> {"loop", "recv", "lock"}]
  BY StaffApart DEF Thread, Staff
<1>5. /\ produced \in [Color -> Nat] /\ sold \in [Color -> Nat] /\ wasted \in [Color -> Nat]
      /\ eaten \in [Group -> [Color -> Nat]]
  OBVIOUS
<1>6. /\ belt \in [Slot -> Dish \cup {None}] /\ bite \in [Person -> Color \cup {None}]
      /\ slot \in [Person \cup {"chef"} -> Slot \cup {None}]
  OBVIOUS
<1>7. pc \in [Thread -> Place]
  BY <1>4 DEF Place
<1>8. /\ phase \in [Group -> {"eating", "paying", "gone", "exited"}] /\ flag \in [Process -> BOOLEAN]
      /\ plate \in Dish \cup {None} /\ client \in Group \cup {None}
  OBVIOUS
<1> HIDE DEF Init
<1>9. TypeOK
  BY <1>1, <1>2, <1>3, <1>5, <1>6, <1>7, <1>8 DEF TypeOK
<1>10. Hands
  BY StaffApart DEF Init, Hands, Thread
<1>11. QED
  BY <1>9, <1>10

(* A step of the chef.                                                     *)
LEMMA ChefSignalled ==
  ASSUME TypeOK, Hands, ChefStep
  PROVE  TypeOK' /\ Hands'
<1> USE StaffApart, SemaphoreNames
<1> USE DEF At, Goto, Place, counters, groupVars, locals
<1>1. CASE ChefTakeOrder
  <2>1. Head(orders) \in Order /\ Tail(orders) \in Seq(Order)
    BY <1>1 DEF ChefTakeOrder, TypeOK
  <2>2. plate' \in Dish
    BY <1>1, <2>1 DEF ChefTakeOrder, Dish, Color, Order
  <2> sem' \in [Semaphore -> Nat]
    BY <1>1 DEF ChefTakeOrder, V, TypeOK
  <2>3. TypeOK'
    BY <1>1, <2>1, <2>2 DEF ChefTakeOrder, TypeOK
  <2>4. Hands'
    BY <1>1, <2>2 DEF ChefTakeOrder, Hands, TypeOK
  <2>5. QED
    BY <2>3, <2>4
<1>2. CASE ChefCookNormal
  <2>1. plate' \in Dish
    BY <1>2 DEF ChefCookNormal, Dish, Color
  <2>2. TypeOK'
    BY <1>2, <2>1 DEF ChefCookNormal, TypeOK
  <2>3. Hands'
    BY <1>2, <2>1 DEF ChefCookNormal, Hands, TypeOK
  <2>4. QED
    BY <2>2, <2>3
<1>3. CASE ChefWaitSlot
  <2>1. sem' \in [Semaphore -> Nat]
    BY <1>3, TakenOrNot DEF ChefWaitSlot
  <2>2. TypeOK'
    BY <1>3, <2>1 DEF ChefWaitSlot, TypeOK
  <2>3. Hands'
    BY <1>3 DEF ChefWaitSlot, Hands, TypeOK
  <2>4. QED
    BY <2>2, <2>3
<1>4. CASE ChefLock
  <2>1. sem' \in [Semaphore -> Nat]
    BY <1>4, TakenOrNot DEF ChefLock
  <2>2. TypeOK'
    BY <1>4, <2>1 DEF ChefLock, TypeOK
  <2>3. Hands'
    BY <1>4 DEF ChefLock, Hands, TypeOK
  <2>4. QED
    BY <2>2, <2>3
<1>5. CASE ChefScan
  <2>0. \E i \in Slot \cup {None} : slot' = [slot EXCEPT !["chef"] = i]
    BY <1>5 DEF ChefScan
  <2>1. slot' \in [Person \cup {"chef"} -> Slot \cup {None}]
    BY <2>0 DEF TypeOK
  <2>2. \A p \in Person : slot'[p] = slot[p]
    BY <1>5 DEF ChefScan, TypeOK
  <2>3. TypeOK'
    BY <1>5, <2>1 DEF ChefScan, TypeOK
  <2>4. Hands'
    BY <1>5, <2>2 DEF ChefScan, Hands, TypeOK
  <2>5. QED
    BY <2>3, <2>4
<1>6. CASE ChefPut
  <2>1. slot["chef"] \in Slot /\ plate \in Dish /\ plate.color \in Color
    BY <1>6 DEF ChefPut, Dish, Hands, TypeOK
  <2>2. sem' \in [Semaphore -> Nat]
    BY <1>6, GivenTwo DEF ChefPut, TypeOK
  <2>3. belt' \in [Slot -> Dish \cup {None}] /\ produced' \in [Color -> Nat]
    <3>1. belt' \in [Slot -> Dish \cup {None}]
      BY <1>6, <2>1 DEF ChefPut, TypeOK
    <3>2. produced' \in [Color -> Nat]
      <4>1. produced \in [Color -> Nat] /\ produced' = [produced EXCEPT ![plate.color] = @ + 1]
        BY <1>6 DEF ChefPut, TypeOK
      <4>2. QED
        BY <2>1, <4>1
    <3>3. QED
      BY <3>1, <3>2
  <2>4. TypeOK'
    BY <1>6, <2>2, <2>3 DEF ChefPut, TypeOK
  <2>5. Hands'
    BY <1>6 DEF ChefPut, Hands, TypeOK
  <2>6. QED
    BY <2>4, <2>5
<1>7. CASE ChefDrop
  <2>1. sem' \in [Semaphore -> Nat]
    BY <1>7, GivenTwo DEF ChefDrop, TypeOK
  <2>2. TypeOK'
    BY <1>7, <2>1 DEF ChefDrop, TypeOK
  <2>3. Hands'
    BY <1>7 DEF ChefDrop, Hands, TypeOK
  <2>4. QED
    BY <2>2, <2>3
<1>8. CASE ChefSpeed
  <2>1. sem' \in [Semaphore -> Nat]
    BY <1>8, GivenOne DEF ChefSpeed, TypeOK
  <2>2. TypeOK'
    BY <1>8, <2>1 DEF ChefSpeed, TypeOK
  <2>3. Hands'
    BY <1>8 DEF ChefSpeed, Hands, TypeOK
  <2>4. QED
    BY <2>2, <2>3
<1>9. QED
  BY <1>1, <1>2, <1>3, <1>4, <1>5, <1>6, <1>7, <1>8 DEF ChefStep

(* A step of the belt process.                                             *)
LEMMA RotorSignalled ==
  ASSUME TypeOK, Hands, RotorStep
  PROVE  TypeOK' /\ Hands'
<1> USE StaffApart, SemaphoreNames
<1> USE DEF At, Goto, Place, counters, groupVars, locals
<1>1. CASE RotorLock
  <2>1. sem' \in [Semaphore -> Nat]
    BY <1>1, TakenOrNot DEF RotorLock
  <2>2. TypeOK'
    BY <1>1, <2>1 DEF RotorLock, TypeOK
  <2>3. Hands'
    BY <1>1 DEF RotorLock, Hands, TypeOK
  <2>4. QED
    BY <2>2, <2>3
<1>2. CASE Rotate
  <2>1. belt' \in [Slot -> Dish \cup {None}]
    BY <1>2, SizesAssumption DEF Rotate, Slot, TypeOK
  <2>2. sem' \in [Semaphore -> Nat]
    BY <1>2 DEF Rotate, V, TypeOK
  <2>3. TypeOK'
    BY <1>2, <2>1, <2>2 DEF Rotate, TypeOK
  <2>4. Hands'
    BY <1>2 DEF Rotate, Hands, TypeOK
  <2>5. QED
    BY <2>3, <2>4
<1>3. QED
  BY <1>1, <1>2 DEF RotorStep

(* A step of the service.                                                  *)
LEMMA ServiceSignalled ==
  ASSUME TypeOK, Hands, ServiceStep
  PROVE  TypeOK' /\ Hands'
<1> USE StaffApart, SemaphoreNames
<1> USE DEF At, Goto, Place, counters, groupVars, locals
<1>1. ASSUME NEW g \in Group, ServiceRecv(g)
      PROVE  TypeOK' /\ Hands'
  <2>1. TypeOK'
    BY <1>1 DEF ServiceRecv, TypeOK
  <2>2. Hands'
    BY <1>1 DEF ServiceRecv, Hands, TypeOK
  <2>3. QED
    BY <2>1, <2>2
<1>2. CASE ServiceLockState
  <2>1. sem' \in [Semaphore -> Nat]
    BY <1>2, TakenOrNot DEF ServiceLockState
  <2>2. TypeOK'
    BY <1>2, <2>1 DEF ServiceLockState, TypeOK
  <2>3. Hands'
    BY <1>2 DEF ServiceLockState, Hands, TypeOK
  <2>4. QED
    BY <2>2, <2>3
<1>3. CASE ServiceLockBelt
  <2>1. sem' \in [Semaphore -> Nat]
    BY <1>3, TakenOrNot DEF ServiceLockBelt
  <2>2. TypeOK'
    BY <1>3, <2>1 DEF ServiceLockBelt, TypeOK
  <2>3. Hands'
    BY <1>3 DEF ServiceLockBelt, Hands, TypeOK
  <2>4. QED
    BY <2>2, <2>3
<1>4. CASE ServiceClean
  <2>1. client \in Group
    BY <1>4 DEF ServiceClean, Hands
  <2>2. /\ Cardinality(Reserved(client)) \in Nat
        /\ \A c \in Color : Cardinality(OfColor(c) \cap Reserved(client)) \in Nat
    BY SlotsFinite DEF Reserved, OfColor, Occupied
  <2>3. sem' \in [Semaphore -> Nat]
    BY <1>4, <2>2, GivenThree DEF ServiceClean, TypeOK
  <2>4. wasted' \in [Color -> Nat]
    <3>1. \A c \in Color : wasted[c] + Cardinality(OfColor(c) \cap Reserved(client)) \in Nat
      <4>1. \A c \in Color : wasted[c] \in Nat
        BY DEF TypeOK
      <4>2. QED
        BY <2>2, <4>1
    <3>2. QED
      BY <1>4, <3>1 DEF ServiceClean
  <2>5. belt' \in [Slot -> Dish \cup {None}]
    BY <1>4 DEF ServiceClean, TypeOK
  <2>6. TypeOK'
    BY <1>4, <2>1, <2>3, <2>4, <2>5 DEF ServiceClean, TypeOK
  <2>7. Hands'
    BY <1>4 DEF ServiceClean, Hands, TypeOK
  <2>8. QED
    BY <2>6, <2>7
<1>5. CASE ServiceStop
  <2>1. TypeOK'
    BY <1>5 DEF ServiceStop, TypeOK
  <2>2. Hands'
    BY <1>5 DEF ServiceStop, Hands, TypeOK
  <2>3. QED
    BY <2>1, <2>2
<1>6. QED
  BY <1>1, <1>2, <1>3, <1>4, <1>5 DEF ServiceStep

(* A step of a person.                                                     *)
LEMMA PersonSignalled ==
  ASSUME TypeOK, Hands, NEW p \in Person, PersonStep(p)
  PROVE  TypeOK' /\ Hands'
<1> USE StaffApart, SemaphoreNames
<1> USE DEF At, Goto, Place, counters, groupVars, locals
<1> DEFINE g == GroupOf[p]
<1>0. g \in Group
  BY PartiesAssumption
<1>1. CASE PersonStop(p)
  <2>1. TypeOK'
    BY <1>1 DEF PersonStop, TypeOK
  <2>2. Hands'
    BY <1>1 DEF PersonStop, Hands, TypeOK
  <2>3. QED
    BY <2>1, <2>2
<1>2. CASE PersonWantsPremium(p)
  <2>1. ordersLeft' \in [Group -> Nat]
    BY <1>0, <1>2 DEF PersonWantsPremium, TypeOK
  <2>2. TypeOK'
    BY <1>2, <2>1 DEF PersonWantsPremium, TypeOK
  <2>3. Hands'
    BY <1>2 DEF PersonWantsPremium, Hands, TypeOK
  <2>4. QED
    BY <2>2, <2>3
<1>3. CASE PersonWantsAnything(p)
  <2>1. TypeOK'
    BY <1>3 DEF PersonWantsAnything, TypeOK
  <2>2. Hands'
    BY <1>3 DEF PersonWantsAnything, Hands, TypeOK
  <2>3. QED
    BY <2>1, <2>2
<1>4. CASE PersonOrder(p)
  <2>1. sem' \in [Semaphore -> Nat]
    BY <1>4, WaitedOrNot DEF PersonOrder, V, TypeOK
  <2>2. orders' \in Seq(Order)
    <3>1. CASE orders' = orders
      BY <3>1 DEF TypeOK
    <3>2. CASE orders' # orders
      <4>1. PICK c \in PremiumColor : orders' = Append(orders, [color |-> c, target |-> g])
        BY <1>4, <3>2 DEF PersonOrder
      <4>2. [color |-> c, target |-> g] \in Order
        BY <1>0 DEF Order
      <4>3. QED
        BY <4>1, <4>2 DEF TypeOK
    <3>3. QED
      BY <3>1, <3>2
  <2>3. PICK l \in {"items", "loop"} : pc' = [pc EXCEPT ![p] = l]
    BY <1>4 DEF PersonOrder
  <2>4. TypeOK'
    BY <1>4, <2>1, <2>2, <2>3 DEF PersonOrder, TypeOK
  <2>5. Hands'
    BY <1>4, <2>3 DEF PersonOrder, Hands, TypeOK
  <2>6. QED
    BY <2>4, <2>5
<1>5. CASE PersonWaitItem(p)
  <2>1. sem' \in [Semaphore -> Nat]
    BY <1>5, WaitedOrNot DEF PersonWaitItem, V, TypeOK
  <2>2. PICK l \in {"lock", "loop"} : pc' = [pc EXCEPT ![p] = l]
    BY <1>5 DEF PersonWaitItem
  <2>3. TypeOK'
    BY <1>5, <2>1, <2>2 DEF PersonWaitItem, TypeOK
  <2>4. Hands'
    BY <1>5, <2>2 DEF PersonWaitItem, Hands, TypeOK
  <2>5. QED
    BY <2>3, <2>4
<1>6. CASE PersonLock(p)
  <2>1. sem' \in [Semaphore -> Nat]
    BY <1>6, GivenOne, TakenOrNot DEF PersonLock
  <2>2. PICK l \in {"scan", "loop"} : pc' = [pc EXCEPT ![p] = l]
    BY <1>6 DEF PersonLock
  <2>3. TypeOK'
    BY <1>6, <2>1, <2>2 DEF PersonLock, TypeOK
  <2>4. Hands'
    BY <1>6, <2>2 DEF PersonLock, Hands, TypeOK
  <2>5. QED
    BY <2>3, <2>4
<1>7. CASE PersonBite(p)
  <2>1. PICK i \in Slot : /\ IsLeast(i, Edible(g))
                          /\ slot' = [slot EXCEPT ![p] = i]
                          /\ bite' = [bite EXCEPT ![p] = belt[i].color]
                          /\ eaten' = [eaten EXCEPT ![g][belt[i].color] = @ + 1]
    BY <1>7 DEF PersonBite
  <2>2. belt[i] \in Dish
    BY <2>1 DEF IsLeast, Edible, Segment, TypeOK
  <2>3. belt[i].color \in Color
    BY <2>2 DEF Dish
  <2>4. eaten' \in [Group -> [Color -> Nat]]
    <3>1. eaten[g] \in [Color -> Nat]
      BY <1>0 DEF TypeOK
    <3>2. [eaten[g] EXCEPT ![belt[i].color] = @ + 1] \in [Color -> Nat]
      BY <2>3, <3>1
    <3>3. QED
      BY <1>0, <2>1, <3>2 DEF TypeOK
  <2>5. dishesToEat' \in [Group -> Nat]
    BY <1>0, <1>7 DEF PersonBite, TypeOK
  <2>6. /\ slot' \in [Person \cup {"chef"} -> Slot \cup {None}]
        /\ bite' \in [Person -> Color \cup {None}]
    BY <2>1, <2>3 DEF TypeOK
  <2>7. TypeOK'
    BY <1>7, <2>4, <2>5, <2>6 DEF PersonBite, TypeOK
  <2>8. Hands'
    BY <1>7, <2>1, <2>3 DEF PersonBite, Hands, TypeOK
  <2>9. QED
    BY <2>7, <2>8
<1>8. CASE PersonTake(p)
  <2>1. slot[p] \in Slot /\ bite[p] \in Color
    BY <1>8 DEF PersonTake, Hands
  <2>2. sem' \in [Semaphore -> Nat]
    BY <1>8, GivenTwo DEF PersonTake, TypeOK
  <2>3. belt' \in [Slot -> Dish \cup {None}] /\ sold' \in [Color -> Nat]
    <3>1. sold \in [Color -> Nat] /\ sold' = [sold EXCEPT ![bite[p]] = @ + 1]
      BY <1>8 DEF PersonTake, TypeOK
    <3>2. belt' \in [Slot -> Dish \cup {None}]
      BY <1>8, <2>1 DEF PersonTake, TypeOK
    <3>3. QED
      BY <2>1, <3>1, <3>2
  <2>4. TypeOK'
    BY <1>8, <2>2, <2>3 DEF PersonTake, TypeOK
  <2>5. Hands'
    BY <1>8 DEF PersonTake, Hands, TypeOK
  <2>6. QED
    BY <2>4, <2>5
<1>9. CASE PersonMiss(p)
  <2>1. sem' \in [Semaphore -> Nat]
    BY <1>9, GivenTwo DEF PersonMiss, TypeOK
  <2>2. TypeOK'
    BY <1>9, <2>1 DEF PersonMiss, TypeOK
  <2>3. Hands'
    BY <1>9 DEF PersonMiss, Hands, TypeOK
  <2>4. QED
    BY <2>2, <2>3
<1>10. QED
  BY <1>1, <1>2, <1>3, <1>4, <1>5, <1>6, <1>7, <1>8, <1>9 DEF PersonStep

(* Types and hands are kept by every step.                                 *)
LEMMA NextHands ==
  ASSUME TypeOK, Hands, [Next]_vars
  PROVE  TypeOK' /\ Hands'
<1>1. ASSUME NEW g \in Group, GroupFinish(g)
      PROVE  TypeOK' /\ Hands'
  BY <1>1 DEF GroupFinish, TypeOK, Hands, counters, locals
<1>2. CASE UNCHANGED vars
  BY <1>2 DEF vars, counters, groupVars, locals, TypeOK, Hands
<1>3. QED
  BY <1>1, <1>2, ChefSignalled, RotorSignalled, ServiceSignalled, PersonSignalled DEF Next

(* A signal changes the flag of one process.                               *)
LEMMA SignalHands ==
  ASSUME TypeOK, Hands, NEW q \in Process, Sigterm(q)
  PROVE  TypeOK' /\ Hands'
<1>1. flag' \in [Process -> BOOLEAN]
  BY DEF Sigterm, TypeOK
<1>2. QED
  BY <1>1 DEF Sigterm, TypeOK, Hands, counters, groupVars, locals

SignalNext == Next \/ \E q \in Process : Sigterm(q)

LEMMA SignalNextHands ==
  ASSUME TypeOK, Hands, [SignalNext]_vars
  PROVE  TypeOK' /\ Hands'
<1>1. CASE [Next]_vars
  BY <1>1, NextHands
<1>2. CASE \E q \in Process : Sigterm(q)
  BY <1>2, SignalHands
<1>3. QED
  BY <1>1, <1>2 DEF SignalNext

(* No signal, wherever it strikes, makes a count negative or sends a       *)
(* thread somewhere with empty hands: the chef's dish, the eater's slot    *)
(* and the client of the service are what they were when it set out.       *)
THEOREM SigtermTypeCorrect == SigtermSpec => []TypeOK
<1>1. TypeOK /\ Hands /\ [SignalNext]_vars => (TypeOK /\ Hands)'
  BY SignalNextHands
<1>2. QED
  BY InitHands, <1>1, PTL DEF SigtermSpec, SignalNext

---------------------------------------------------------------------------
(* Bills.  A person stops when the appetite of the group is gone, which    *)
(* does not come back, or because the group has been signalled, which its  *)
(* process does not forget before it decides whether to send a bill.       *)
Stopped == /\ \A p \in Person : pc[p] = "done" => flag[GroupOf[p]] \/ dishesToEat[GroupOf[p]] = 0
           /\ \A g \in Group : phase[g] # "eating" => \A p \in Person : GroupOf[p] = g => pc[p] = "done"

LEMMA StaffPaidInFull ==
  ASSUME TypeOK, Hands, Stopped, PaidInFull, ChefStep \/ RotorStep \/ ServiceStep
  PROVE  Stopped' /\ PaidInFull'
<1> USE StaffApart
<1> USE DEF Goto, counters, groupVars, locals
<1>1. (\A p \in Person : pc'[p] = pc[p]) /\ dishesToEat' = dishesToEat /\ flag' = flag
  <2>1. CASE ChefStep
    BY <2>1 DEF ChefStep, ChefTakeOrder, ChefCookNormal, ChefWaitSlot, ChefLock, ChefScan, ChefPut,
                ChefDrop, ChefSpeed, TypeOK
  <2>2. CASE RotorStep
    BY <2>2 DEF RotorStep, RotorLock, Rotate, TypeOK
  <2>3. CASE ServiceStep
    BY <2>3 DEF ServiceStep, ServiceStop, ServiceRecv, ServiceLockState, ServiceLockBelt,
                ServiceClean, TypeOK
  <2>4. QED
    BY <2>1, <2>2, <2>3
<1>2. \A g \in Group : phase'[g] = phase[g] \/ (phase[g] = "paying" /\ phase'[g] = "gone")
  <2>1. CASE ServiceClean
    <3>1. client \in Group /\ phase[client] = "paying" /\ phase' = [phase EXCEPT ![client] = "gone"]
      BY <2>1 DEF ServiceClean, Hands, At
    <3>2. \A g \in Group : phase'[g] = IF g = client THEN "gone" ELSE phase[g]
      BY <3>1 DEF TypeOK
    <3>3. QED
      BY <3>1, <3>2
  <2>2. CASE ~ServiceClean
    <3>1. phase' = phase
      <4>1. CASE ChefStep
        BY <4>1 DEF ChefStep, ChefTakeOrder, ChefCookNormal, ChefWaitSlot, ChefLock, ChefScan,
                    ChefPut, ChefDrop, ChefSpeed
      <4>2. CASE RotorStep
        BY <4>2 DEF RotorStep, RotorLock, Rotate
      <4>3. CASE ServiceStep
        BY <2>2, <4>3 DEF ServiceStep, ServiceStop, ServiceRecv, ServiceLockState, ServiceLockBelt
      <4>4. QED
        BY <4>1, <4>2, <4>3
    <3>2. QED
      BY <3>1
  <2>3. QED
    BY <2>1, <2>2
<1>3. Stopped'
  BY <1>1, <1>2 DEF Stopped
<1>4. PaidInFull'
  BY <1>1, <1>2 DEF PaidInFull
<1>5. QED
  BY <1>3, <1>4

LEMMA PersonPaidInFull ==
  ASSUME TypeOK, Hands, Stopped, PaidInFull, NEW p \in Person, PersonStep(p)
  PROVE  Stopped' /\ PaidInFull'
<1> DEFINE g == GroupOf[p]
<1>0. g \in Group /\ p \in Thread /\ \A q \in Person : q \in Thread
  BY PartiesAssumption, StaffApart
<1>1. flag' = flag /\ phase' = phase
  BY DEF PersonStep, PersonStop, PersonWantsPremium, PersonWantsAnything, PersonOrder, PersonWaitItem,
         PersonLock, PersonBite, PersonTake, PersonMiss, groupVars
<1>2. pc[p] # "done" /\ \A q \in Person : q # p => pc'[q] = pc[q]
  <2>1. PICK l \in Place : pc[p] # "done" /\ Goto(p, l)
    BY DEF PersonStep, PersonStop, PersonWantsPremium, PersonWantsAnything, PersonOrder,
           PersonWaitItem, PersonLock, PersonBite, PersonTake, PersonMiss, At, Place
  <2>2. QED
    BY <1>0, <2>1, Moved
<1>3. phase[g] = "eating"
  BY <1>0, <1>2 DEF Stopped
<1>4. pc'[p] = "done" => flag[g] \/ dishesToEat'[g] = 0
  <2>1. CASE PersonStop(p)
    BY <2>1 DEF PersonStop, Flagged, ProcessOf, groupVars
  <2>2. CASE ~PersonStop(p)
    <3>1. PICK l \in Place \ {"done"} : Goto(p, l)
      BY <2>2 DEF PersonStep, PersonWantsPremium, PersonWantsAnything, PersonOrder,
                  PersonWaitItem, PersonLock, PersonBite, PersonTake, PersonMiss, Place
    <3>2. QED
      BY <1>0, <3>1, Moved
  <2>3. QED
    BY <2>1, <2>2
<1>5. \A h \in Group : dishesToEat'[h] = dishesToEat[h] \/ (h = g /\ dishesToEat[h] > 0)
  <2>1. CASE PersonBite(p)
    BY <1>0, <2>1 DEF PersonBite, TypeOK
  <2>2. CASE ~PersonBite(p)
    BY <2>2 DEF PersonStep, PersonStop, PersonWantsPremium, PersonWantsAnything, PersonOrder,
                PersonWaitItem, PersonLock, PersonTake, PersonMiss, groupVars
  <2>3. QED
    BY <2>1, <2>2
<1>6. Stopped'
  <2>1. ASSUME NEW q \in Person, pc'[q] = "done"
        PROVE  flag'[GroupOf[q]] \/ dishesToEat'[GroupOf[q]] = 0
    <3>1. GroupOf[q] \in Group
      BY PartiesAssumption
    <3>2. CASE q = p
      BY <1>1, <1>4, <2>1, <3>2
    <3>3. CASE q # p
      BY <1>1, <1>2, <1>5, <2>1, <3>1, <3>3 DEF Stopped
    <3>4. QED
      BY <3>2, <3>3
  <2>2. \A h \in Group : phase'[h] # "eating" => \A q \in Person : GroupOf[q] = h => pc'[q] = "done"
    BY <1>1, <1>2, <1>3 DEF Stopped
  <2>3. QED
    BY <2>1, <2>2 DEF Stopped
<1>7. PaidInFull'
  BY <1>1, <1>2, <1>3, <1>5 DEF PaidInFull
<1>8. QED
  BY <1>6, <1>7

LEMMA FinishPaidInFull ==
  ASSUME TypeOK, Stopped, PaidInFull, NEW g \in Group, GroupFinish(g)
  PROVE  Stopped' /\ PaidInFull'
<1>1. /\ UNCHANGED <<pc, flag, dishesToEat>> /\ phase[g] = "eating"
      /\ \A p \in Person : GroupOf[p] = g => pc[p] = "done"
      /\ \A h \in Group : h # g => phase'[h] = phase[h]
      /\ phase'[g] = IF flag[g] THEN "exited" ELSE "paying"
  BY DEF GroupFinish, At, TypeOK
<1>2. flag[g] \/ dishesToEat[g] = 0
  <2>1. PICK p \in Person : GroupOf[p] = g
    BY PartiesAssumption
  <2>2. QED
    BY <1>1, <2>1 DEF Stopped
<1>3. Stopped'
  BY <1>1 DEF Stopped
<1>4. PaidInFull'
  BY <1>1, <1>2 DEF PaidInFull
<1>5. QED
  BY <1>3, <1>4

LEMMA SignalPaidInFull ==
  ASSUME TypeOK, Hands, Stopped, PaidInFull, [SignalNext]_vars
  PROVE  Stopped' /\ PaidInFull'
<1>1. ASSUME NEW q \in Process, Sigterm(q)
      PROVE  Stopped' /\ PaidInFull'
  <2>1. UNCHANGED <<pc, dishesToEat, phase>> /\ \A r \in Process : flag[r] => flag'[r]
    BY <1>1 DEF Sigterm, groupVars, TypeOK
  <2>2. \A p \in Person : GroupOf[p] \in Process
    BY PartiesAssumption DEF Process
  <2>3. QED
    BY <2>1, <2>2 DEF Stopped, PaidInFull
<1>2. CASE UNCHANGED vars
  BY <1>2 DEF vars, groupVars, Stopped, PaidInFull
<1>3. QED
  BY <1>1, <1>2, StaffPaidInFull, PersonPaidInFull, FinishPaidInFull DEF SignalNext, Next

LEMMA InitStopped == Init => Stopped /\ PaidInFull
<1> SUFFICES ASSUME Init PROVE Stopped /\ PaidInFull
  OBVIOUS
<1>1. (\A p \in Person : pc[p] = "loop") /\ (\A g \in Group : phase[g] = "eating")
  BY StaffApart DEF Init
<1>2. QED
  BY <1>1 DEF Stopped, PaidInFull

(* A signal may keep a group from paying, but whoever pays has eaten all   *)
(* it came for: no bill overtakes a thread that still eats.                *)
THEOREM NoBillBeforeTheEnd == SigtermSpec => []PaidInFull
<1>1. Init => TypeOK /\ Hands /\ Stopped /\ PaidInFull
  BY InitHands, InitStopped
<1>2. TypeOK /\ Hands /\ Stopped /\ PaidInFull /\ [SignalNext]_vars
        => (TypeOK /\ Hands /\ Stopped /\ PaidInFull)'
  BY SignalNextHands, SignalPaidInFull
<1>3. QED
  BY <1>1, <1>2, PTL DEF SigtermSpec, SignalNext

---------------------------------------------------------------------------
(* Semaphores.  Whoever comes to the belt is there, whoever goes gives the *)
(* mutex, and nobody else lowers it.                                       *)
Critical == {"scan", "put", "rotate", "take", "clean"}

BeltFree == AtBelt = {} => sem["BELT"] > 0
StateFree == pc["service"] \notin {"lock", "clean"} => sem["STATE"] > 0
PlacesFree == sem["PREMIUM_FREE"] + Len(orders) >= PremiumQueueSize

LEMMA ComesBeltFree ==
  ASSUME TypeOK, NEW t \in Thread, NEW l \in Critical, Goto(t, l)
  PROVE  BeltFree'
<1>1. l \in Place
  BY DEF Critical, Place
<1>2. pc'[t] = l
  BY <1>1, Moved
<1>3. t \in AtBelt'
  BY <1>2 DEF AtBelt, Critical
<1>4. QED
  BY <1>3 DEF BeltFree

LEMMA AwayBeltFree ==
  ASSUME TypeOK, BeltFree, NEW t \in Thread, pc[t] \notin Critical, NEW l \in Place \ Critical,
         Goto(t, l), sem'["BELT"] = sem["BELT"]
  PROVE  BeltFree'
<1>1. pc'[t] = l /\ \A u \in Thread : u # t => pc'[u] = pc[u]
  BY Moved
<1>2. AtBelt' = AtBelt
  BY <1>1 DEF AtBelt, Critical
<1>3. QED
  BY <1>2 DEF BeltFree

LEMMA GivesBeltFree ==
  ASSUME sem["BELT"] \in Nat, sem'["BELT"] = sem["BELT"] + 1
  PROVE  BeltFree'
  BY DEF BeltFree

LEMMA ChefKeepsNothing ==
  ASSUME TypeOK, BeltFree, StateFree, PlacesFree, ChefStep
  PROVE  BeltFree' /\ StateFree' /\ PlacesFree'
<1> USE StaffApart, SemaphoreNames
<1> USE DEF At, Place, Critical
<1>1. sem \in [Semaphore -> Nat] /\ Len(orders) \in Nat /\ orders \in Seq(Order)
  BY DEF TypeOK
<1>2. \A t \in Thread : t # "chef" => pc'[t] = pc[t]
  BY DEF ChefStep, ChefTakeOrder, ChefCookNormal, ChefWaitSlot, ChefLock, ChefScan, ChefPut, ChefDrop,
         ChefSpeed, Goto, TypeOK
<1>3. CASE ChefTakeOrder
  <2>1. sem'["PREMIUM_FREE"] = sem["PREMIUM_FREE"] + 1 /\ sem'["BELT"] = sem["BELT"] /\ sem'["STATE"] = sem["STATE"]
    BY <1>1, <1>3 DEF ChefTakeOrder, V
  <2>2. Len(orders') = Len(orders) - 1
    BY <1>1, <1>3 DEF ChefTakeOrder
  <2>3. BeltFree'
    BY <1>3, <2>1, AwayBeltFree DEF ChefTakeOrder
  <2>4. PlacesFree'
    BY <1>1, <2>1, <2>2, SizesAssumption DEF PlacesFree
  <2>5. StateFree'
    BY <1>2, <2>1 DEF StateFree
  <2>6. QED
    BY <2>3, <2>4, <2>5
<1>4. CASE ChefCookNormal
  <2>1. BeltFree'
    BY <1>4, AwayBeltFree DEF ChefCookNormal
  <2>2. QED
    BY <1>2, <1>4, <2>1 DEF ChefCookNormal, StateFree, PlacesFree
<1>5. CASE ChefWaitSlot
  <2>1. sem'["BELT"] = sem["BELT"] /\ sem'["STATE"] = sem["STATE"] /\ sem'["PREMIUM_FREE"] = sem["PREMIUM_FREE"]
    BY <1>5, TakenOrNot DEF ChefWaitSlot
  <2>2. BeltFree'
    BY <1>5, <2>1, AwayBeltFree DEF ChefWaitSlot
  <2>3. QED
    BY <1>2, <1>5, <2>1, <2>2 DEF ChefWaitSlot, StateFree, PlacesFree
<1>6. CASE ChefLock
  <2>1. sem'["STATE"] = sem["STATE"] /\ sem'["PREMIUM_FREE"] = sem["PREMIUM_FREE"]
    BY <1>6, TakenOrNot DEF ChefLock
  <2>2. BeltFree'
    BY <1>6, ComesBeltFree DEF ChefLock
  <2>3. QED
    BY <1>2, <1>6, <2>1, <2>2 DEF ChefLock, StateFree, PlacesFree
<1>7. CASE ChefScan
  <2>1. BeltFree'
    BY <1>7, ComesBeltFree DEF ChefScan
  <2>2. QED
    BY <1>2, <1>7, <2>1 DEF ChefScan, StateFree, PlacesFree
<1>8. CASE ChefPut \/ ChefDrop
  <2>1. /\ sem'["BELT"] = sem["BELT"] + 1 /\ sem'["STATE"] = sem["STATE"]
        /\ sem'["PREMIUM_FREE"] = sem["PREMIUM_FREE"] /\ orders' = orders
    BY <1>1, <1>8 DEF ChefPut, ChefDrop
  <2>2. BeltFree'
    BY <1>1, <2>1, GivesBeltFree
  <2>3. QED
    BY <1>2, <2>1, <2>2 DEF StateFree, PlacesFree
<1>9. CASE ChefSpeed
  <2>1. /\ sem'["BELT"] = sem["BELT"] /\ sem'["PREMIUM_FREE"] = sem["PREMIUM_FREE"]
        /\ sem'["STATE"] >= sem["STATE"] /\ sem'["STATE"] \in Nat /\ orders' = orders
    BY <1>1, <1>9 DEF ChefSpeed, V
  <2>2. BeltFree'
    BY <1>9, <2>1, AwayBeltFree DEF ChefSpeed
  <2>3. PlacesFree'
    BY <2>1 DEF PlacesFree
  <2>4. StateFree'
    BY <1>1, <1>2, <2>1 DEF StateFree
  <2>5. QED
    BY <2>2, <2>3, <2>4
<1>10. QED
  BY <1>3, <1>4, <1>5, <1>6, <1>7, <1>8, <1>9 DEF ChefStep

LEMMA RotorKeepsNothing ==
  ASSUME TypeOK, BeltFree, StateFree, PlacesFree, RotorStep
  PROVE  BeltFree' /\ StateFree' /\ PlacesFree'
<1> USE StaffApart, SemaphoreNames
<1>1. sem \in [Semaphore -> Nat]
  BY DEF TypeOK
<1>2. pc'["service"] = pc["service"] /\ orders' = orders
  BY DEF RotorStep, RotorLock, Rotate, Goto, TypeOK
<1>3. CASE RotorLock
  <2>1. sem'["STATE"] = sem["STATE"] /\ sem'["PREMIUM_FREE"] = sem["PREMIUM_FREE"]
    BY <1>3, TakenOrNot DEF RotorLock
  <2>2. BeltFree'
    BY <1>3, ComesBeltFree DEF RotorLock, Critical
  <2>3. QED
    BY <1>2, <2>1, <2>2 DEF StateFree, PlacesFree
<1>4. CASE Rotate
  <2>1. /\ sem'["BELT"] = sem["BELT"] + 1 /\ sem'["STATE"] = sem["STATE"]
        /\ sem'["PREMIUM_FREE"] = sem["PREMIUM_FREE"]
    BY <1>1, <1>4 DEF Rotate, V
  <2>2. BeltFree'
    BY <1>1, <2>1, GivesBeltFree
  <2>3. QED
    BY <1>2, <2>1, <2>2 DEF StateFree, PlacesFree
<1>5. QED
  BY <1>3, <1>4 DEF RotorStep

LEMMA ServiceKeepsNothing ==
  ASSUME TypeOK, BeltFree, StateFree, PlacesFree, ServiceStep
  PROVE  BeltFree' /\ StateFree' /\ PlacesFree'
<1> USE StaffApart, SemaphoreNames
<1> USE DEF At, Place, Critical
<1>1. sem \in [Semaphore -> Nat]
  BY DEF TypeOK
<1>2. orders' = orders
  BY DEF ServiceStep, ServiceStop, ServiceRecv, ServiceLockState, ServiceLockBelt, ServiceClean
<1>3. ASSUME NEW l \in {"done", "state"}, Goto("service", l), pc["service"] = "recv", sem' = sem
      PROVE  BeltFree' /\ StateFree' /\ PlacesFree'
  <2>1. BeltFree'
    BY <1>3, AwayBeltFree
  <2>2. QED
    BY <1>2, <1>3, <2>1 DEF StateFree, PlacesFree
<1>4. CASE ServiceLockState
  <2>1. sem'["BELT"] = sem["BELT"] /\ sem'["PREMIUM_FREE"] = sem["PREMIUM_FREE"]
    BY <1>4, TakenOrNot DEF ServiceLockState
  <2>2. BeltFree'
    BY <1>4, <2>1, AwayBeltFree DEF ServiceLockState
  <2>3. pc'["service"] = "lock"
    BY <1>4, Moved DEF ServiceLockState
  <2>4. QED
    BY <1>2, <2>1, <2>2, <2>3 DEF StateFree, PlacesFree
<1>5. CASE ServiceLockBelt
  <2>1. sem'["PREMIUM_FREE"] = sem["PREMIUM_FREE"]
    BY <1>5, TakenOrNot DEF ServiceLockBelt
  <2>2. BeltFree'
    BY <1>5, ComesBeltFree DEF ServiceLockBelt
  <2>3. pc'["service"] = "clean"
    BY <1>5, Moved DEF ServiceLockBelt
  <2>4. QED
    BY <1>2, <2>1, <2>2, <2>3 DEF StateFree, PlacesFree
<1>6. CASE ServiceClean
  <2>1. /\ sem'["BELT"] = sem["BELT"] + 1 /\ sem'["STATE"] = sem["STATE"] + 1
        /\ sem'["PREMIUM_FREE"] = sem["PREMIUM_FREE"]
    BY <1>1, <1>6 DEF ServiceClean
  <2>2. BeltFree'
    BY <1>1, <2>1, GivesBeltFree
  <2>3. QED
    BY <1>1, <1>2, <2>1, <2>2 DEF StateFree, PlacesFree
<1>7. QED
  BY <1>3, <1>4, <1>5, <1>6 DEF ServiceStep, ServiceStop, ServiceRecv

LEMMA PersonKeepsNothing ==
  ASSUME TypeOK, BeltFree, StateFree, PlacesFree, NEW p \in Person, PersonStep(p)
  PROVE  BeltFree' /\ StateFree' /\ PlacesFree'
<1> USE StaffApart, SemaphoreNames
<1> USE DEF At, Place, Critical
<1>1. sem \in [Semaphore -> Nat] /\ orders \in Seq(Order) /\ Len(orders) \in Nat
  BY DEF TypeOK
<1>2. pc'["service"] = pc["service"]
  <2>1. PICK l \in Place : Goto(p, l)
    BY DEF PersonStep, PersonStop, PersonWantsPremium, PersonWantsAnything, PersonOrder,
           PersonWaitItem, PersonLock, PersonBite, PersonTake, PersonMiss
  <2>2. QED
    BY <2>1, Moved
<1>3. CASE PersonStop(p) \/ PersonWantsPremium(p) \/ PersonWantsAnything(p)
  <2>1. sem' = sem /\ orders' = orders
    BY <1>3 DEF PersonStop, PersonWantsPremium, PersonWantsAnything
  <2>2. PICK l \in {"done", "order", "items"} : pc[p] = "loop" /\ Goto(p, l)
    BY <1>3 DEF PersonStop, PersonWantsPremium, PersonWantsAnything
  <2>3. BeltFree'
    BY <2>1, <2>2, AwayBeltFree
  <2>4. QED
    BY <1>2, <2>1, <2>3 DEF StateFree, PlacesFree
<1>4. CASE PersonOrder(p)
  <2>1. PICK l \in {"items", "loop"} : pc[p] = "order" /\ Goto(p, l)
    BY <1>4 DEF PersonOrder
  <2>2. /\ sem'["BELT"] = sem["BELT"] /\ sem'["STATE"] = sem["STATE"]
        /\ sem'["PREMIUM_FREE"] + Len(orders') >= sem["PREMIUM_FREE"] + Len(orders)
    <3>1. CASE Flagged(p)
      BY <1>1, <1>4, <3>1 DEF PersonOrder, V
    <3>2. CASE ~Flagged(p)
      <4>1. PICK o : orders' = Append(orders, o)
        BY <1>4, <3>2 DEF PersonOrder
      <4>2. Len(orders') = Len(orders) + 1
        BY <1>1, <4>1
      <4>3. sem' = [sem EXCEPT !["PREMIUM_FREE"] = @ - 1]
        BY <1>4, <3>2 DEF PersonOrder
      <4>4. QED
        BY <1>1, <4>2, <4>3
    <3>3. QED
      BY <3>1, <3>2
  <2>3. BeltFree'
    BY <2>1, <2>2, AwayBeltFree
  <2>4. PlacesFree'
    <3>1. sem'["PREMIUM_FREE"] \in Int /\ Len(orders') \in Nat
      BY <1>1, <1>4 DEF PersonOrder, V
    <3>2. QED
      BY <1>1, <2>2, <3>1, SizesAssumption DEF PlacesFree
  <2>5. QED
    BY <1>2, <2>2, <2>3, <2>4 DEF StateFree
<1>5. CASE PersonWaitItem(p)
  <2>1. PICK l \in {"lock", "loop"} : pc[p] = "items" /\ Goto(p, l)
    BY <1>5 DEF PersonWaitItem
  <2>2. /\ sem'["BELT"] = sem["BELT"] /\ sem'["STATE"] = sem["STATE"]
        /\ sem'["PREMIUM_FREE"] = sem["PREMIUM_FREE"] /\ orders' = orders
    BY <1>1, <1>5 DEF PersonWaitItem, V
  <2>3. BeltFree'
    BY <2>1, <2>2, AwayBeltFree
  <2>4. QED
    BY <1>2, <2>2, <2>3 DEF StateFree, PlacesFree
<1>6. CASE PersonLock(p)
  <2>1. /\ sem'["STATE"] = sem["STATE"] /\ sem'["PREMIUM_FREE"] = sem["PREMIUM_FREE"]
        /\ orders' = orders
    BY <1>1, <1>6, TakenOrNot DEF PersonLock, V
  <2>2. BeltFree'
    <3>1. CASE Goto(p, "scan")
      BY <3>1, ComesBeltFree
    <3>2. CASE ~Goto(p, "scan")
      <4>1. pc[p] = "lock" /\ Goto(p, "loop") /\ sem'["BELT"] = sem["BELT"]
        BY <1>1, <1>6, <3>2 DEF PersonLock, V
      <4>2. QED
        BY <4>1, AwayBeltFree
    <3>3. QED
      BY <3>1, <3>2
  <2>3. QED
    BY <1>2, <2>1, <2>2 DEF StateFree, PlacesFree
<1>7. CASE PersonBite(p)
  <2>1. sem' = sem /\ orders' = orders /\ Goto(p, "take")
    BY <1>7 DEF PersonBite
  <2>2. BeltFree'
    BY <2>1, ComesBeltFree
  <2>3. QED
    BY <1>2, <2>1, <2>2 DEF StateFree, PlacesFree
<1>8. CASE PersonTake(p) \/ PersonMiss(p)
  <2>1. /\ sem'["BELT"] = sem["BELT"] + 1 /\ sem'["STATE"] = sem["STATE"]
        /\ sem'["PREMIUM_FREE"] = sem["PREMIUM_FREE"] /\ orders' = orders
    BY <1>1, <1>8 DEF PersonTake, PersonMiss
  <2>2. BeltFree'
    BY <1>1, <2>1, GivesBeltFree
  <2>3. QED
    BY <1>2, <2>1, <2>2 DEF StateFree, PlacesFree
<1>9. QED
  BY <1>3, <1>4, <1>5, <1>6, <1>7, <1>8 DEF PersonStep

LEMMA SignalKeepsNothing ==
  ASSUME TypeOK, NothingKept, [SignalNext]_vars
  PROVE  NothingKept'
<1>1. BeltFree /\ StateFree /\ PlacesFree
  BY DEF NothingKept, BeltFree, StateFree, PlacesFree
<1>2. ASSUME UNCHANGED <<sem, pc, orders>> PROVE BeltFree' /\ StateFree' /\ PlacesFree'
  BY <1>1, <1>2 DEF BeltFree, StateFree, PlacesFree, AtBelt
<1>3. ASSUME NEW g \in Group, GroupFinish(g) PROVE UNCHANGED <<sem, pc, orders>>
  BY <1>3 DEF GroupFinish
<1>4. ASSUME NEW q \in Process, Sigterm(q) PROVE UNCHANGED <<sem, pc, orders>>
  BY <1>4 DEF Sigterm
<1>5. ASSUME UNCHANGED vars PROVE UNCHANGED <<sem, pc, orders>>
  BY <1>5 DEF vars
<1>6. BeltFree' /\ StateFree' /\ PlacesFree'
  BY <1>1, <1>2, <1>3, <1>4, <1>5, ChefKeepsNothing, RotorKeepsNothing, ServiceKeepsNothing,
     PersonKeepsNothing DEF SignalNext, Next
<1>7. QED
  BY <1>6 DEF NothingKept, BeltFree, StateFree, PlacesFree

(* However processes end, nobody waits for a semaphore that an ended one   *)
(* has taken along: the belt and the state can be locked by those who are  *)
(* left, and the chef's queue accepts as many orders as ever.              *)
THEOREM NoSemaphoreKept == SigtermSpec => []NothingKept
<1>1. Init => TypeOK /\ Hands /\ NothingKept
  <2> SUFFICES ASSUME Init PROVE NothingKept
    BY InitHands
  <2>1. sem["BELT"] = 1 /\ sem["STATE"] = 1 /\ sem["PREMIUM_FREE"] = PremiumQueueSize /\ Len(orders) = 0
    BY SemaphoreNames DEF Init
  <2>2. QED
    BY <2>1, SizesAssumption DEF NothingKept
<1>2. TypeOK /\ Hands /\ NothingKept /\ [SignalNext]_vars => (TypeOK /\ Hands /\ NothingKept)'
  BY SignalNextHands, SignalKeepsNothing
<1>3. QED
  BY <1>1, <1>2, PTL DEF SigtermSpec, SignalNext
=============================================================================
