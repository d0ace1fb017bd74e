------------------------------- MODULE Belt -------------------------------
(***************************************************************************)
(* The conveyor belt of the restaurant and everybody who touches it: the   *)
(* chef (chef.cpp), the belt process (belt.cpp), the person threads of the *)
(* seated groups (client.cpp) and the part of the service that clears the  *)
(* dishes of a leaving group (service.cpp).  They share one array of slots *)
(* in shared memory and coordinate through System V semaphores             *)
(* (ipc_manager.cpp) and the queue of premium orders.                      *)
(*                                                                         *)
(* A step is what a thread does between two calls that can wait.  A        *)
(* process that has received SIGTERM no longer waits: its P() returns      *)
(* without the semaphore, which is why critical sections are modelled with *)
(* separate reading and writing steps.                                     *)
(*                                                                         *)
(* Dishes have no numbers: they matter only when the chef is at work       *)
(* before the manager has set nextDishID, and here the manager came first. *)
(***************************************************************************)
EXTENDS Integers, FiniteSets, Sequences

CONSTANTS
  BeltSize,          \* BELT_SIZE, the slots of the belt
  TableCount,        \* TABLE_COUNT
  PremiumQueueSize,  \* PREMIUM_QUEUE_SIZE, the bound on pending orders
  NormalColor,       \* colours the chef cooks unasked
  PremiumColor,      \* colours cooked on order
  Group,             \* the group processes; all are seated
  Person,            \* the person threads of all groups
  GroupOf,           \* the group of a person
  TableOf,           \* the table a group was given
  Appetite,          \* the numbers of dishes each group may come for
  Orders,            \* the numbers of them it may order, fewer than it eats
  Anyone,            \* targetGroupID = -1
  None               \* no dish (dishID = 0), no slot, no colour, no group

Staff  == {"chef", "belt", "service"}
Thread == Person \cup Staff
Process == Group \cup Staff
Slot   == 0 .. BeltSize - 1
Color  == NormalColor \cup PremiumColor
Dish   == [color : Color, target : Group \cup {Anyone}]
Order  == [color : PremiumColor, target : Group]
Semaphore == {"STATE", "BELT", "SLOTS", "ITEMS", "PREMIUM_FREE"}

ASSUME SizesAssumption == /\ BeltSize \in Nat \ {0}
                          /\ TableCount \in Nat \ {0}
                          /\ PremiumQueueSize \in Nat \ {0}

ASSUME PartiesAssumption == /\ IsFiniteSet(Person)
                            /\ Person \cap (Group \cup Staff) = {}
                            /\ Group \cap Staff = {}
                            /\ GroupOf \in [Person -> Group]
                            /\ \A g \in Group : \E p \in Person : GroupOf[p] = g
                            /\ TableOf \in [Group -> 0 .. TableCount - 1]
                            /\ Appetite \in [Group -> SUBSET (Nat \ {0})]
                            /\ Orders \in [Group -> SUBSET Nat]

ASSUME ValuesAssumption ==
  /\ IsFiniteSet(NormalColor) /\ IsFiniteSet(PremiumColor)
  /\ NormalColor \cap PremiumColor = {}
  /\ Anyone \notin Group
  /\ None \notin Slot \cup Dish \cup Color \cup Group

VARIABLES
  sem,          \* the semaphore set
  belt,         \* state->belt
  orders,       \* the premium queue
  produced,     \* state->producedCount, per colour
  sold,         \* state->soldCount
  wasted,       \* state->wastedCount
  dishesToEat,  \* Group::dishesToEat, what the group still wants
  ordersLeft,   \* Group::ordersLeft
  eaten,        \* Group::eatenCount, the group's bill
  phase,        \* how far a group process has come
  flag,         \* terminate_flag or evacuate_flag of a process
  pc,           \* where a thread is
  plate,        \* the dish in the chef's hands
  slot,         \* slotIdx of the chef, beltSlot of a person
  bite,         \* the colour a person has read off the belt
  client        \* the group the service is billing

counters  == <<produced, sold, wasted>>
groupVars == <<dishesToEat, ordersLeft, eaten, phase>>
locals    == <<plate, slot, bite, client>>
vars == <<sem, belt, orders, counters, groupVars, flag, pc, locals>>

---------------------------------------------------------------------------
ProcessOf(t) == IF t \in Person THEN GroupOf[t] ELSE t
Flagged(t) == flag[ProcessOf(t)]

(* Mutant: P() goes on waiting after the signal.                           *)
PDeaf(t, s) == sem[s] > 0 /\ sem' = [sem EXCEPT ![s] = @ - 1]

(* P() waits for the semaphore, but once its process is flagged it returns *)
(* at once and empty-handed.                                               *)
P(t, s) == \/ Flagged(t) /\ UNCHANGED sem
           \/ ~Flagged(t) /\ sem[s] > 0 /\ sem' = [sem EXCEPT ![s] = @ - 1]

V(s) == sem' = [sem EXCEPT ![s] = @ + 1]

At(t, here) == pc[t] = here
Goto(t, there) == pc' = [pc EXCEPT ![t] = there]

IsLeast(i, S) == i \in S /\ \A j \in S : i <= j

Occupied == {i \in Slot : belt[i] # None}
OfColor(c) == {i \in Occupied : belt[i].color = c}
Reserved(g) == {i \in Occupied : belt[i].target = g}

(* The slots in front of a table, and those of them with a dish for g.     *)
SlotsPerTable == IF BeltSize \div TableCount < 1 THEN 1 ELSE BeltSize \div TableCount
Segment(g) == {i \in Slot : \E j \in 0 .. SlotsPerTable - 1 :
                              i = (TableOf[g] * SlotsPerTable + j) % BeltSize}
(* Mutant: the persons do not look at targetGroupID.                       *)
EdibleAny(g) == {i \in Segment(g) : belt[i] # None}

Edible(g) == {i \in Segment(g) : belt[i] # None /\ belt[i].target \in {Anyone, g}}

---------------------------------------------------------------------------
(* The manager has opened the restaurant: semaphores as ipcInit sets them, *)
(* an empty belt, nextDishID positive, groups at their tables.             *)
Init ==
  /\ sem = [s \in Semaphore |-> CASE s \in {"STATE", "BELT"} -> 1
                                  [] s = "SLOTS" -> BeltSize
                                  [] s = "ITEMS" -> 0
                                  [] s = "PREMIUM_FREE" -> PremiumQueueSize]
  /\ belt = [i \in Slot |-> None]
  /\ orders = << >>
  /\ produced = [c \in Color |-> 0]
  /\ sold = [c \in Color |-> 0]
  /\ wasted = [c \in Color |-> 0]
  /\ dishesToEat \in {d \in [Group -> UNION {Appetite[g] : g \in Group}] :
                        \A g \in Group : d[g] \in Appetite[g]}
  /\ ordersLeft \in {o \in [Group -> UNION {Orders[g] : g \in Group}] :
                       \A g \in Group : o[g] \in Orders[g] /\ o[g] < dishesToEat[g]}
  /\ eaten = [g \in Group |-> [c \in Color |-> 0]]
  /\ phase = [g \in Group |-> "eating"]
  /\ flag = [q \in Process |-> FALSE]
  /\ pc = [t \in Thread |-> CASE t \in Person -> "loop"
                              [] t \in {"chef", "service"} -> "recv"
                              [] t = "belt" -> "lock"]
  /\ plate = None
  /\ slot = [t \in Person \cup {"chef"} |-> None]
  /\ bite = [p \in Person |-> None]
  /\ client = None

---------------------------------------------------------------------------
(* Mutant: queueRecv without its V(semFree).                               *)
ChefTakeOrderKeepsPlace ==
  /\ At("chef", "recv") /\ ~Flagged("chef") /\ orders # << >>
  /\ plate' = Head(orders) /\ orders' = Tail(orders)
  /\ Goto("chef", "slots")
  /\ UNCHANGED <<sem, belt, counters, groupVars, flag, slot, bite, client>>

(* Chef: startChef and chefPutDish.  A premium order is cooked if one is   *)
(* waiting, otherwise some normal dish for anyone.                         *)
ChefTakeOrder ==
  /\ At("chef", "recv") /\ ~Flagged("chef")
  /\ orders # << >>
  /\ plate' = Head(orders)
  /\ orders' = Tail(orders)
  /\ V("PREMIUM_FREE")
  /\ Goto("chef", "slots")
  /\ UNCHANGED <<belt, counters, groupVars, flag, slot, bite, client>>

ChefCookNormal ==
  /\ At("chef", "recv")
  /\ orders = << >> \/ Flagged("chef")
  /\ \E c \in NormalColor : plate' = [color |-> c, target |-> Anyone]
  /\ Goto("chef", "slots")
  /\ UNCHANGED <<sem, belt, orders, counters, groupVars, flag, slot, bite, client>>

(* Mutant: the chef does not wait for a slot.                              *)
ChefWaitSlotNot ==
  /\ At("chef", "slots") /\ Goto("chef", "lock")
  /\ UNCHANGED <<sem, belt, orders, counters, groupVars, flag, locals>>

ChefWaitSlot ==
  /\ At("chef", "slots")
  /\ P("chef", "SLOTS")
  /\ Goto("chef", "lock")
  /\ UNCHANGED <<belt, orders, counters, groupVars, flag, locals>>

ChefLock ==
  /\ At("chef", "lock")
  /\ P("chef", "BELT")
  /\ Goto("chef", "scan")
  /\ UNCHANGED <<belt, orders, counters, groupVars, flag, locals>>

ChefScan ==
  /\ At("chef", "scan")
  /\ \/ Occupied = Slot /\ slot' = [slot EXCEPT !["chef"] = None]
     \/ \E i \in Slot : /\ IsLeast(i, Slot \ Occupied)
                        /\ slot' = [slot EXCEPT !["chef"] = i]
  /\ Goto("chef", "put")
  /\ UNCHANGED <<sem, belt, orders, counters, groupVars, flag, plate, bite, client>>

ChefPut ==
  /\ At("chef", "put") /\ slot["chef"] # None
  /\ belt' = [belt EXCEPT ![slot["chef"]] = plate]
  /\ produced' = [produced EXCEPT ![plate.color] = @ + 1]
  /\ sem' = [sem EXCEPT !["ITEMS"] = @ + 1, !["BELT"] = @ + 1]
  /\ plate' = None
  /\ slot' = [slot EXCEPT !["chef"] = None]
  /\ Goto("chef", "speed")
  /\ UNCHANGED <<orders, sold, wasted, groupVars, flag, bite, client>>

(* "Should not happen if semaphore logic is correct": the dish is dropped. *)
ChefDrop ==
  /\ At("chef", "put") /\ slot["chef"] = None
  /\ sem' = [sem EXCEPT !["SLOTS"] = @ + 1, !["BELT"] = @ + 1]
  /\ plate' = None
  /\ Goto("chef", "speed")
  /\ UNCHANGED <<belt, orders, counters, groupVars, flag, slot, bite, client>>

(* P(STATE), read the speed, V(STATE), where a flagged chef may only give; *)
(* then the loop condition.                                                *)
ChefSpeed ==
  /\ At("chef", "speed")
  /\ \/ sem["STATE"] > 0 /\ UNCHANGED sem
     \/ Flagged("chef") /\ V("STATE")
  /\ Goto("chef", IF Flagged("chef") THEN "done" ELSE "recv")
  /\ UNCHANGED <<belt, orders, counters, groupVars, flag, locals>>

ChefStep == \/ ChefTakeOrder \/ ChefCookNormal \/ ChefWaitSlot
            \/ ChefLock \/ ChefScan \/ ChefPut \/ ChefDrop \/ ChefSpeed

---------------------------------------------------------------------------
(* Mutant: the belt is rotated without its mutex.                          *)
RotorLockNot ==
  /\ At("belt", "lock") /\ Goto("belt", "rotate")
  /\ UNCHANGED <<sem, belt, orders, counters, groupVars, flag, locals>>

(* Belt process: startBelt and rotateBelt.                                 *)
RotorLock ==
  /\ At("belt", "lock")
  /\ P("belt", "BELT")
  /\ Goto("belt", "rotate")
  /\ UNCHANGED <<belt, orders, counters, groupVars, flag, locals>>

Rotate ==
  /\ At("belt", "rotate")
  /\ belt' = [i \in Slot |-> IF i = 0 THEN belt[BeltSize - 1] ELSE belt[i - 1]]
  /\ V("BELT")
  /\ Goto("belt", IF Flagged("belt") THEN "done" ELSE "lock")
  /\ UNCHANGED <<orders, counters, groupVars, flag, locals>>

RotorStep == RotorLock \/ Rotate

---------------------------------------------------------------------------
(* Person thread p of group g: personThread and handleConsumeDish.         *)
PersonStop(p) ==
  LET g == GroupOf[p] IN
  /\ At(p, "loop")
  /\ Flagged(p) \/ dishesToEat[g] = 0
  /\ Goto(p, "done")
  /\ UNCHANGED <<sem, belt, orders, counters, groupVars, flag, locals>>

(* Mutant: orderPremiumDish does not look at ordersLeft.                   *)
PersonWantsMore(p) ==
  /\ At(p, "loop") /\ ~Flagged(p) /\ dishesToEat[GroupOf[p]] > 0
  /\ ordersLeft' = [ordersLeft EXCEPT ![GroupOf[p]] = @ - 1]
  /\ Goto(p, "order")
  /\ UNCHANGED <<sem, belt, orders, counters, dishesToEat, eaten, phase, flag, locals>>

PersonWantsPremium(p) ==
  LET g == GroupOf[p] IN
  /\ At(p, "loop") /\ ~Flagged(p) /\ dishesToEat[g] > 0
  /\ ordersLeft[g] > 0
  /\ ordersLeft' = [ordersLeft EXCEPT ![g] = @ - 1]
  /\ Goto(p, "order")
  /\ UNCHANGED <<sem, belt, orders, counters, dishesToEat, eaten, phase, flag, locals>>

PersonWantsAnything(p) ==
  /\ At(p, "loop") /\ ~Flagged(p) /\ dishesToEat[GroupOf[p]] > 0
  /\ Goto(p, "items")
  /\ UNCHANGED <<sem, belt, orders, counters, groupVars, flag, locals>>

(* Mutant: queueSend returns for the flag without its V(semFree).          *)
PersonOrderKeepsPlace(p) ==
  /\ At(p, "order")
  /\ \/ /\ ~Flagged(p) /\ sem["PREMIUM_FREE"] > 0
        /\ sem' = [sem EXCEPT !["PREMIUM_FREE"] = @ - 1]
        /\ \E c \in PremiumColor :
             orders' = Append(orders, [color |-> c, target |-> GroupOf[p]])
        /\ Goto(p, "items")
     \/ /\ Flagged(p)
        /\ UNCHANGED sem \/ PDeaf(p, "PREMIUM_FREE")
        /\ UNCHANGED orders
        /\ Goto(p, "loop")
  /\ UNCHANGED <<belt, counters, groupVars, flag, locals>>

(* queueSend: a flagged sender drops the order and gives back a place it   *)
(* may never have taken.                                                   *)
PersonOrder(p) ==
  /\ At(p, "order")
  /\ \/ /\ ~Flagged(p) /\ sem["PREMIUM_FREE"] > 0
        /\ sem' = [sem EXCEPT !["PREMIUM_FREE"] = @ - 1]
        /\ \E c \in PremiumColor :
             orders' = Append(orders, [color |-> c, target |-> GroupOf[p]])
        /\ Goto(p, "items")
     \/ /\ Flagged(p) /\ (V("PREMIUM_FREE") \/ UNCHANGED sem)
        /\ UNCHANGED orders
        /\ Goto(p, "loop")
  /\ UNCHANGED <<belt, counters, groupVars, flag, locals>>

PersonWaitItem(p) ==
  /\ At(p, "items")
  /\ \/ /\ ~Flagged(p) /\ sem["ITEMS"] > 0
        /\ sem' = [sem EXCEPT !["ITEMS"] = @ - 1]
        /\ Goto(p, "lock")
     \/ Flagged(p) /\ (V("ITEMS") \/ UNCHANGED sem) /\ Goto(p, "loop")
  /\ UNCHANGED <<belt, orders, counters, groupVars, flag, locals>>

PersonLock(p) ==
  /\ At(p, "lock")
  /\ \/ P(p, "BELT") /\ Goto(p, "scan")
     \/ Flagged(p) /\ V("ITEMS") /\ Goto(p, "loop")
  /\ UNCHANGED <<belt, orders, counters, groupVars, flag, locals>>

(* Mutant: the thread that saw an appetite in its loop does not look again *)
(* when it has found a dish.                                               *)
PersonBiteBlindly(p) ==
  LET g == GroupOf[p] IN
  /\ At(p, "scan")
  /\ \E i \in Slot : /\ IsLeast(i, Edible(g))
                     /\ slot' = [slot EXCEPT ![p] = i]
                     /\ bite' = [bite EXCEPT ![p] = belt[i].color]
                     /\ eaten' = [eaten EXCEPT ![g][belt[i].color] = @ + 1]
  /\ dishesToEat' = [dishesToEat EXCEPT ![g] = @ - 1]
  /\ Goto(p, "take")
  /\ UNCHANGED <<sem, belt, orders, counters, ordersLeft, phase, flag, plate, client>>

(* consumeOneDish comes before the dish is taken off the belt.             *)
PersonBite(p) ==
  LET g == GroupOf[p] IN
  /\ At(p, "scan") /\ dishesToEat[g] > 0
  /\ \E i \in Slot :
       /\ IsLeast(i, Edible(g))
       /\ slot' = [slot EXCEPT ![p] = i]
       /\ bite' = [bite EXCEPT ![p] = belt[i].color]
       /\ eaten' = [eaten EXCEPT ![g][belt[i].color] = @ + 1]
  /\ dishesToEat' = [dishesToEat EXCEPT ![g] = @ - 1]
  /\ Goto(p, "take")
  /\ UNCHANGED <<sem, belt, orders, counters, ordersLeft, phase, flag, plate, client>>

(* Mutant: the eater does not give the slot back.                          *)
PersonTakeKeepsSlot(p) ==
  /\ At(p, "take")
  /\ belt' = [belt EXCEPT ![slot[p]] = None]
  /\ sold' = [sold EXCEPT ![bite[p]] = @ + 1]
  /\ V("BELT")
  /\ slot' = [slot EXCEPT ![p] = None]
  /\ bite' = [bite EXCEPT ![p] = None]
  /\ Goto(p, "loop")
  /\ UNCHANGED <<orders, produced, wasted, groupVars, flag, plate, client>>

PersonTake(p) ==
  /\ At(p, "take")
  /\ belt' = [belt EXCEPT ![slot[p]] = None]
  /\ sold' = [sold EXCEPT ![bite[p]] = @ + 1]
  /\ sem' = [sem EXCEPT !["SLOTS"] = @ + 1, !["BELT"] = @ + 1]
  /\ slot' = [slot EXCEPT ![p] = None]
  /\ bite' = [bite EXCEPT ![p] = None]
  /\ Goto(p, "loop")
  /\ UNCHANGED <<orders, produced, wasted, groupVars, flag, plate, client>>

(* Mutant: an eater who finds nothing does not give the item back.         *)
PersonMissKeepsItem(p) ==
  /\ At(p, "scan")
  /\ Edible(GroupOf[p]) = {} \/ dishesToEat[GroupOf[p]] = 0
  /\ V("BELT")
  /\ Goto(p, "loop")
  /\ UNCHANGED <<belt, orders, counters, groupVars, flag, locals>>

(* Mutant: the dish is on the bill before the appetite is looked at.       *)
PersonMissBilled(p) ==
  LET g == GroupOf[p] IN
  /\ At(p, "scan")
  /\ Edible(g) = {} \/ dishesToEat[g] = 0
  /\ eaten' = [eaten EXCEPT ![g] = [c \in Color |->
       IF \E i \in Slot : IsLeast(i, Edible(g)) /\ belt[i].color = c THEN @[c] + 1 ELSE @[c]]]
  /\ sem' = [sem EXCEPT !["ITEMS"] = @ + 1, !["BELT"] = @ + 1]
  /\ Goto(p, "loop")
  /\ UNCHANGED <<belt, orders, counters, dishesToEat, ordersLeft, phase, flag, locals>>

PersonMiss(p) ==
  LET g == GroupOf[p] IN
  /\ At(p, "scan")
  /\ Edible(g) = {} \/ dishesToEat[g] = 0
  /\ sem' = [sem EXCEPT !["ITEMS"] = @ + 1, !["BELT"] = @ + 1]
  /\ Goto(p, "loop")
  /\ UNCHANGED <<belt, orders, counters, groupVars, flag, locals>>

PersonStep(p) == \/ PersonStop(p) \/ PersonWantsPremium(p) \/ PersonWantsAnything(p)
                 \/ PersonOrder(p) \/ PersonWaitItem(p) \/ PersonLock(p)
                 \/ PersonBite(p) \/ PersonTake(p) \/ PersonMiss(p)

(* Mutant: the group reports when the first of its threads has ended.      *)
GroupFinishEarly(g) ==
  /\ phase[g] = "eating"
  /\ \E p \in Person : GroupOf[p] = g /\ At(p, "done")
  /\ phase' = [phase EXCEPT ![g] = IF flag[g] THEN "exited" ELSE "paying"]
  /\ UNCHANGED <<sem, belt, orders, counters, dishesToEat, ordersLeft, eaten, flag, pc, locals>>

(* Mutant: the report of an evacuated group is sent all the same.          *)
GroupFinishUnasked(g) ==
  /\ phase[g] = "eating"
  /\ \A p \in Person : GroupOf[p] = g => At(p, "done")
  /\ phase' = [phase EXCEPT ![g] = "paying"]
  /\ UNCHANGED <<sem, belt, orders, counters, dishesToEat, ordersLeft, eaten, flag, pc, locals>>

(* groupLoop joins its threads and reports to the service; the report of a *)
(* flagged group is dropped.                                               *)
GroupFinish(g) ==
  /\ phase[g] = "eating"
  /\ \A p \in Person : GroupOf[p] = g => At(p, "done")
  /\ phase' = [phase EXCEPT ![g] = IF flag[g] THEN "exited" ELSE "paying"]
  /\ UNCHANGED <<sem, belt, orders, counters, dishesToEat, ordersLeft, eaten, flag, pc, locals>>

---------------------------------------------------------------------------
(* Service: the part of startService and handleGroupFinished that concerns *)
(* the belt.  Its queue also carries the requests of other groups, so any  *)
(* waiting report may be the next one it handles.                          *)
ServiceStop == /\ At("service", "recv") /\ Flagged("service")
               /\ Goto("service", "done")
               /\ UNCHANGED <<sem, belt, orders, counters, groupVars, flag, locals>>

ServiceRecv(g) ==
  /\ At("service", "recv")
  /\ phase[g] = "paying"
  /\ client' = g
  /\ Goto("service", "state")
  /\ UNCHANGED <<sem, belt, orders, counters, groupVars, flag, plate, slot, bite>>

ServiceLockState ==
  /\ At("service", "state")
  /\ P("service", "STATE")
  /\ Goto("service", "lock")
  /\ UNCHANGED <<belt, orders, counters, groupVars, flag, locals>>

ServiceLockBelt ==
  /\ At("service", "lock")
  /\ P("service", "BELT")
  /\ Goto("service", "clean")
  /\ UNCHANGED <<belt, orders, counters, groupVars, flag, locals>>

(* Mutant: cleared dishes are not written off.                             *)
ServiceCleanUnwritten ==
  /\ At("service", "clean")
  /\ belt' = [i \in Slot |-> IF i \in Reserved(client) THEN None ELSE belt[i]]
  /\ sem' = [sem EXCEPT !["SLOTS"] = @ + Cardinality(Reserved(client)),
                        !["BELT"] = @ + 1, !["STATE"] = @ + 1]
  /\ phase' = [phase EXCEPT ![client] = "gone"]
  /\ client' = None
  /\ Goto("service", "recv")
  /\ UNCHANGED <<orders, counters, dishesToEat, ordersLeft, eaten, flag, plate, slot, bite>>

(* cleanZombieDishes gives the slots back and takes no item.               *)
ServiceClean ==
  LET zombies == Reserved(client) IN
  /\ At("service", "clean")
  /\ belt' = [i \in Slot |-> IF i \in zombies THEN None ELSE belt[i]]
  /\ wasted' = [c \in Color |-> wasted[c] + Cardinality(OfColor(c) \cap zombies)]
  /\ sem' = [sem EXCEPT !["SLOTS"] = @ + Cardinality(zombies),
                        !["BELT"] = @ + 1, !["STATE"] = @ + 1]
  /\ phase' = [phase EXCEPT ![client] = "gone"]
  /\ client' = None
  /\ Goto("service", "recv")
  /\ UNCHANGED <<orders, produced, sold, dishesToEat, ordersLeft, eaten, flag, plate, slot, bite>>

ServiceStep == \/ ServiceStop \/ (\E g \in Group : ServiceRecv(g))
               \/ ServiceLockState \/ ServiceLockBelt \/ ServiceClean

---------------------------------------------------------------------------
Next == \/ ChefStep
        \/ RotorStep
        \/ ServiceStep
        \/ \E p \in Person : PersonStep(p)
        \/ \E g \in Group : GroupFinish(g)

Spec == Init /\ [][Next]_vars

(* kill(0, SIGTERM): the handler runs in every process, in each when the   *)
(* kernel gets to it.                                                      *)
Sigterm(q) == /\ ~flag[q]
              /\ flag' = [flag EXCEPT ![q] = TRUE]
              /\ UNCHANGED <<sem, belt, orders, counters, groupVars, pc, locals>>

SigtermSpec == Init /\ [][Next \/ \E q \in Process : Sigterm(q)]_vars

(* The scheduler runs every thread, and the kernel hands a semaphore to    *)
(* its waiters in order of arrival, so nobody who waits for a semaphore    *)
(* that is released again and again waits forever.                         *)
ThreadFairness ==
  /\ SF_vars(ChefStep) /\ SF_vars(RotorStep) /\ SF_vars(ServiceStep)
  /\ \A p \in Person : SF_vars(PersonStep(p))
  /\ WF_vars(\E g \in Group : GroupFinish(g))

(* Scheduling is not synchronised with the turning of the belt: a person   *)
(* who comes for the belt again and again, while dishes for them pass      *)
(* again and again, does not always find the belt just when none is there. *)
ChanceFairness ==
  \A p \in Person :
    ([]<>At(p, "lock") /\ []<>(Edible(GroupOf[p]) # {}))
      => []<><<PersonLock(p) /\ Edible(GroupOf[p]) # {}>>_vars

FairSpec == Spec /\ ThreadFairness /\ ChanceFairness

(* P() never blocks a flagged process, so for its end no more is needed    *)
(* than that its threads run.                                              *)
FairSigtermSpec == /\ SigtermSpec
                   /\ WF_vars(ChefStep) /\ WF_vars(RotorStep) /\ WF_vars(ServiceStep)
                   /\ \A p \in Person : WF_vars(PersonStep(p))

---------------------------------------------------------------------------
(* Where a thread can be.                                                  *)
Place == {"loop", "recv", "slots", "lock", "scan", "put", "speed", "rotate",
          "order", "items", "take", "state", "clean", "done"}

(* The type of every variable.                                             *)
TypeOK ==
  /\ sem \in [Semaphore -> Nat]
  /\ belt \in [Slot -> Dish \cup {None}]
  /\ orders \in Seq(Order)
  /\ produced \in [Color -> Nat]
  /\ sold \in [Color -> Nat]
  /\ wasted \in [Color -> Nat]
  /\ dishesToEat \in [Group -> Nat]
  /\ ordersLeft \in [Group -> Nat]
  /\ eaten \in [Group -> [Color -> Nat]]
  /\ phase \in [Group -> {"eating", "paying", "gone", "exited"}]
  /\ flag \in [Process -> BOOLEAN]
  /\ pc \in [Thread -> Place]
  /\ plate \in Dish \cup {None}
  /\ slot \in [Person \cup {"chef"} -> Slot \cup {None}]
  /\ bite \in [Person -> Color \cup {None}]
  /\ client \in Group \cup {None}

(* Threads between P(SEM_MUTEX_BELT) and its V.                            *)
AtBelt == {t \in Thread : pc[t] \in {"scan", "put", "rotate", "take", "clean"}}

(* One thread at a time touches the belt, as SEM_MUTEX_BELT intends, and   *)
(* the semaphore is 0 exactly while one does.                              *)
MutualExclusion == /\ \A t, u \in AtBelt : t = u
                   /\ sem["BELT"] = IF AtBelt = {} THEN 1 ELSE 0

(* A slot of the belt is free, in SEM_BELT_SLOTS or promised to the chef:  *)
(* chef, eaters and the clearing of zombie dishes keep one account.        *)
SlotsAccounted ==
  sem["SLOTS"] + Cardinality(Occupied)
    + (IF pc["chef"] \in {"lock", "scan", "put"} THEN 1 ELSE 0) = BeltSize

(* chef.cpp:42, "Should not happen if semaphore logic is correct": a chef  *)
(* who has got a slot from the semaphore finds one on the belt.            *)
ChefFindsSlot == At("chef", "put") => slot["chef"] # None /\ belt[slot["chef"]] = None

(* What a person has seen on the belt is still true when they act on it:   *)
(* the dish is there, has the colour already on the bill, and is theirs.   *)
BiteStillThere == \A p \in Person : At(p, "take") =>
  /\ slot[p] # None /\ belt[slot[p]] # None
  /\ belt[slot[p]].color = bite[p]
  /\ belt[slot[p]].target \in {Anyone, GroupOf[p]}

(* The books of reports.cpp, per colour and at every moment: a dish cooked *)
(* is sold, wasted or on the belt.                                         *)
Conservation == \A c \in Color : produced[c] = sold[c] + wasted[c] + Cardinality(OfColor(c))

(* No dish without an item to wait for: a person blocked on SEM_BELT_ITEMS *)
(* never misses a dish, because every dish is covered by the semaphore or  *)
(* by a person who has taken an item and will give it back or eat.         *)
ItemsCoverDishes ==
  sem["ITEMS"] + Cardinality({p \in Person : pc[p] \in {"lock", "scan", "take"}})
    >= Cardinality(Occupied)

(* Places in the premium queue are taken and given back one for one.       *)
OrdersAccounted == sem["PREMIUM_FREE"] + Len(orders) = PremiumQueueSize

(* A group's bill is complete and settled once it is sent: nobody of the   *)
(* group still eats or orders, although the persons run independently.     *)
BillSettled == \A g \in Group : phase[g] # "eating" =>
                 dishesToEat[g] = 0 /\ \A p \in Person : GroupOf[p] = g => pc[p] = "done"

(* Whenever a signal comes and whomever it reaches first: a bill that gets *)
(* to the service at all is that of a group which has eaten all it came    *)
(* for and eats no more.  A group evacuated at table sends none.           *)
PaidInFull == \A g \in Group : phase[g] \in {"paying", "gone"} =>
                dishesToEat[g] = 0 /\ \A p \in Person : GroupOf[p] = g => pc[p] = "done"

(* P() and V() of processes on their way out: they may give back what they *)
(* never took, but they keep nothing.  A mutex that nobody is behind is    *)
(* free, and a place of the premium queue is free or holds an order, so    *)
(* those whom the signal has not reached yet can go on.                    *)
NothingKept ==
  /\ AtBelt = {} => sem["BELT"] > 0
  /\ pc["service"] \notin {"lock", "clean"} => sem["STATE"] > 0
  /\ sem["PREMIUM_FREE"] + Len(orders) >= PremiumQueueSize

(* A dish cooked for a group leaves the belt only into one of its members, *)
(* or when the service clears up after that group.                         *)
PremiumReserved ==
  [][\A g \in Group : Cardinality(Reserved(g))' < Cardinality(Reserved(g)) =>
       \/ \E p \in Person : GroupOf[p] = g /\ pc[p] = "take"
       \/ pc["service"] = "clean" /\ client = g]_vars

(* README.md:346, "Brak deadlockow, wszyscy klienci obsluzeni": every      *)
(* group gets its dishes, pays and leaves.                                 *)
EverybodyServed == \A g \in Group : <>(phase[g] = "gone")

(* A belt with no slot left but those kept for groups that are gone.       *)
Clogged == \A i \in Slot : /\ belt[i] # None
                          /\ belt[i].target # Anyone
                          /\ phase[belt[i].target] = "gone"

(* What does hold of service: the groups are fed unless abandoned dishes   *)
(* fill the belt.  No order of threads, turns of the belt or purchases of  *)
(* the others starves a group.                                             *)
ServedUnlessClogged == <>Clogged \/ EverybodyServed

(* README.md:259, a process that gets the signal finishes and exits: no    *)
(* thread of a flagged chef, belt or group process is left waiting for a   *)
(* semaphore, although its partners may have gone.                         *)
FlaggedStops == \A t \in Person \cup {"chef", "belt"} : Flagged(t) ~> pc[t] = "done"
===========================================================================
