----------------------------- MODULE BeltProofs -----------------------------
(***************************************************************************)
(* What module Belt guarantees for every belt, every number of groups and  *)
(* persons and every queue size, as long as no signal arrives.             *)
(*                                                                         *)
(* The argument has three layers above the types, which SigtermProofs      *)
(* proves with signals: how many dishes a set of slots holds when one is   *)
(* put, taken or all are moved; where each thread may be when nobody is    *)
(* told to stop (Control); and the accounts of the semaphores and of the   *)
(* books, which rest on mutual exclusion.                                  *)
(***************************************************************************)
EXTENDS SigtermProofs

---------------------------------------------------------------------------
(* Lemmas about belts: f is a belt, D a set of dishes.                     *)
Belts == [Slot -> Dish \cup {None}]
Where(f, D) == {i \in Slot : f[i] \in D}

(* A dish put into an empty slot is one more.                              *)
LEMMA PutCount ==
  ASSUME NEW f \in Belts, NEW D \in SUBSET Dish, NEW i \in Slot, f[i] = None, NEW d \in Dish
  PROVE  Cardinality(Where([f EXCEPT ![i] = d], D))
           = Cardinality(Where(f, D)) + (IF d \in D THEN 1 ELSE 0)
<1>1. None \notin Dish
  BY ValuesAssumption
<1>2. i \notin Where(f, D)
  BY <1>1 DEF Where
<1>3. Where(f, D) \in SUBSET Slot
  BY DEF Where
<1>4. CASE d \in D
  <2>1. Where([f EXCEPT ![i] = d], D) = Where(f, D) \cup {i}
    BY <1>4 DEF Where, Belts
  <2>2. QED
    BY <2>1, <1>2, <1>3, <1>4, SlotsFinite, FS_AddElement
<1>5. CASE d \notin D
  <2>1. Where([f EXCEPT ![i] = d], D) = Where(f, D)
    BY <1>5, <1>2 DEF Where, Belts
  <2>2. QED
    BY <2>1, <1>3, <1>5, SlotsFinite
<1>6. QED
  BY <1>4, <1>5

(* A dish taken out of its slot is one less.                               *)
LEMMA TakeCount ==
  ASSUME NEW f \in Belts, NEW D \in SUBSET Dish, NEW i \in Slot, f[i] # None
  PROVE  Cardinality(Where([f EXCEPT ![i] = None], D))
           = Cardinality(Where(f, D)) - (IF f[i] \in D THEN 1 ELSE 0)
<1>1. None \notin D
  BY ValuesAssumption
<1>2. Where(f, D) \in SUBSET Slot
  BY DEF Where
<1>3. CASE f[i] \in D
  <2>1. Where([f EXCEPT ![i] = None], D) = Where(f, D) \ {i}
    BY <1>1 DEF Where, Belts
  <2>2. i \in Where(f, D)
    BY <1>3 DEF Where
  <2>3. Cardinality(Where(f, D) \ {i}) = Cardinality(Where(f, D)) - 1
    BY <2>2, <1>2, SlotsFinite, FS_RemoveElement
  <2>4. QED
    BY <2>1, <2>3, <1>3
<1>4. CASE f[i] \notin D
  <2>1. Where([f EXCEPT ![i] = None], D) = Where(f, D)
    BY <1>1, <1>4 DEF Where, Belts
  <2>2. QED
    BY <2>1, <1>2, <1>4, SlotsFinite
<1>5. QED
  BY <1>3, <1>4

(* Turning the belt moves dishes and neither makes nor loses one.          *)
LEMMA RotateCount ==
  ASSUME NEW f \in Belts, NEW D
  PROVE  Cardinality(Where([i \in Slot |-> IF i = 0 THEN f[BeltSize - 1] ELSE f[i - 1]], D))
           = Cardinality(Where(f, D))
<1> DEFINE r == [i \in Slot |-> IF i = 0 THEN f[BeltSize - 1] ELSE f[i - 1]]
           S == Where(f, D)
           T == Where(r, D)
           m == [i \in S |-> IF i = BeltSize - 1 THEN 0 ELSE i + 1]
<1>0. BeltSize \in Nat \ {0}
  BY SizesAssumption
<1>1. m \in [S -> T]
  <2> SUFFICES ASSUME NEW i \in S PROVE m[i] \in T
    OBVIOUS
  <2>1. i \in Slot /\ f[i] \in D
    BY DEF Where
  <2>2. m[i] \in Slot /\ r[m[i]] = f[i]
    BY <2>1, <1>0 DEF Slot
  <2>3. QED
    BY <2>1, <2>2 DEF Where
<1>2. \A i, j \in S : m[i] = m[j] => i = j
  BY <1>0 DEF Slot, Where
<1>3. \A k \in T : \E i \in S : m[i] = k
  <2> SUFFICES ASSUME NEW k \in T PROVE \E i \in S : m[i] = k
    OBVIOUS
  <2> DEFINE i == IF k = 0 THEN BeltSize - 1 ELSE k - 1
  <2>1. k \in Slot /\ r[k] \in D
    BY DEF Where
  <2>2. i \in Slot /\ r[k] = f[i]
    BY <2>1, <1>0 DEF Slot
  <2>3. i \in S
    BY <2>1, <2>2 DEF Where
  <2>4. m[i] = k
    BY <2>1, <2>3, <1>0 DEF Slot
  <2>5. QED
    BY <2>3, <2>4
<1>4. m \in Bijection(S, T)
  BY <1>1, <1>2, <1>3 DEF Bijection, Injection, Surjection, IsInjective
<1>5. ExistsBijection(S, T)
  BY <1>4 DEF ExistsBijection
<1>6. IsFiniteSet(S)
  BY SlotsFinite DEF Where
<1>7. QED
  BY <1>5, <1>6, FS_Bijection

(* Clearing all dishes of a kind Z takes away those of D that are in Z.    *)
LEMMA ClearCount ==
  ASSUME NEW f \in Belts, NEW D \in SUBSET Dish, NEW Z \in SUBSET Dish
  PROVE  Cardinality(Where([i \in Slot |-> IF i \in Where(f, Z) THEN None ELSE f[i]], D))
           = Cardinality(Where(f, D)) - Cardinality(Where(f, D) \cap Where(f, Z))
<1> DEFINE T == Where([i \in Slot |-> IF i \in Where(f, Z) THEN None ELSE f[i]], D)
           U == Where(f, D) \cap Where(f, Z)
<1>1. None \notin D
  BY ValuesAssumption
<1>2. T \cup U = Where(f, D) /\ T \cap U = {}
  BY <1>1 DEF Where
<1>3. /\ IsFiniteSet(T) /\ Cardinality(T) \in Nat
      /\ IsFiniteSet(U) /\ Cardinality(U) \in Nat
  <2>1. T \in SUBSET Slot /\ U \in SUBSET Slot
    BY DEF Where
  <2>2. QED
    BY <2>1, SlotsFinite
<1>4. Cardinality(Where(f, D)) = Cardinality(T) + Cardinality(U)
  BY <1>2, <1>3, FS_Union, FS_EmptySet
<1>5. QED
  BY <1>3, <1>4

---------------------------------------------------------------------------
(* Where the threads may be, and what they hold while they are there.      *)
Control ==
  /\ flag = [q \in Process |-> FALSE]
  /\ pc["chef"] \in {"recv", "slots", "lock", "scan", "put", "speed"}
  /\ pc["belt"] \in {"lock", "rotate"}
  /\ pc["service"] \in {"recv", "state", "lock", "clean"}
  /\ \A p \in Person : pc[p] \in {"loop", "order", "items", "lock", "scan", "take", "done"}
  /\ pc["chef"] \in {"slots", "lock", "scan", "put"} => plate \in Dish
  /\ pc["service"] \in {"state", "lock", "clean"} => client \in Group /\ phase[client] = "paying"
  /\ \A p \in Person : pc[p] = "take" => slot[p] \in Slot /\ bite[p] \in Color

(* Without a signal no thread is flagged.                                  *)
LEMMA NobodyFlagged ==
  ASSUME Control, NEW t \in Thread
  PROVE  ~Flagged(t) /\ ~flag[ProcessOf(t)]
<1>1. ProcessOf(t) \in Process
  BY PartiesAssumption DEF ProcessOf, Process, Thread
<1>2. QED
  BY <1>1 DEF Control, Flagged

(* So P() returns with a place of the semaphore, never empty-handed.       *)
LEMMA Taken ==
  ASSUME TypeOK, Control, NEW t \in Thread, NEW s \in Semaphore, P(t, s)
  PROVE  /\ sem[s] > 0 /\ sem' \in [Semaphore -> Nat]
         /\ sem'[s] = sem[s] - 1
         /\ \A r \in Semaphore : r # s => sem'[r] = sem[r]
<1>1. sem[s] > 0 /\ sem' = [sem EXCEPT ![s] = @ - 1]
  BY NobodyFlagged DEF P
<1>2. sem \in [Semaphore -> Nat]
  BY DEF TypeOK
<1>3. QED
  BY <1>1, <1>2

(* The restaurant opens in order, and stays so: without a signal the staff *)
(* never end their loops.                                                  *)
LEMMA InitControl == Init => TypeOK /\ Control
<1> SUFFICES ASSUME Init PROVE TypeOK /\ Control
  OBVIOUS
<1>1. TypeOK
  BY InitHands
<1>2. Control
  BY StaffApart DEF Init, Control, Thread
<1>3. QED
  BY <1>1, <1>2

LEMMA NextControl ==
  ASSUME TypeOK, Control, [Next]_vars
  PROVE  TypeOK' /\ Control'
<1> USE StaffApart
<1> USE DEF counters, groupVars, locals
<1>1. Hands
  BY DEF Control, Hands
<1>2. TypeOK' /\ Hands'
  BY <1>1, NextHands
<1>3. ~Flagged("chef") /\ ~Flagged("belt") /\ ~Flagged("service")
  BY NobodyFlagged
<1>4. /\ flag' = flag
      /\ pc'["chef"] # "done" /\ pc'["belt"] # "done" /\ pc'["service"] # "done"
  <2>0. pc["chef"] # "done" /\ pc["belt"] # "done" /\ pc["service"] # "done"
    BY DEF Control
  <2>1. CASE ChefStep
    <3>1. PICK l \in Place \ {"done"} : flag' = flag /\ Goto("chef", l)
      BY <1>3, <2>1 DEF ChefStep, ChefTakeOrder, ChefCookNormal, ChefWaitSlot, ChefLock, ChefScan,
                        ChefPut, ChefDrop, ChefSpeed, Place
    <3>2. QED
      BY <2>0, <3>1, Moved
  <2>2. CASE RotorStep
    <3>1. PICK l \in Place \ {"done"} : flag' = flag /\ Goto("belt", l)
      BY <1>3, <2>2 DEF RotorStep, RotorLock, Rotate, Place
    <3>2. QED
      BY <2>0, <3>1, Moved
  <2>3. CASE ServiceStep
    <3>1. PICK l \in Place \ {"done"} : flag' = flag /\ Goto("service", l)
      BY <1>3, <2>3 DEF ServiceStep, ServiceStop, ServiceRecv, ServiceLockState, ServiceLockBelt,
                        ServiceClean, Place
    <3>2. QED
      BY <2>0, <3>1, Moved
  <2>4. ASSUME NEW p \in Person, PersonStep(p)
        PROVE  /\ flag' = flag
               /\ pc'["chef"] # "done" /\ pc'["belt"] # "done" /\ pc'["service"] # "done"
    <3>1. PICK l \in Place : flag' = flag /\ Goto(p, l)
      BY <2>4 DEF PersonStep, PersonStop, PersonWantsPremium, PersonWantsAnything, PersonOrder,
                  PersonWaitItem, PersonLock, PersonBite, PersonTake, PersonMiss, Place
    <3>2. QED
      BY <2>0, <3>1, Moved
  <2>5. ASSUME NEW g \in Group, GroupFinish(g) PROVE flag' = flag /\ pc' = pc
    BY <2>5 DEF GroupFinish
  <2>6. CASE UNCHANGED vars
    BY <2>0, <2>6 DEF vars
  <2>7. QED
    BY <2>0, <2>1, <2>2, <2>3, <2>4, <2>5, <2>6 DEF Next
<1>5. QED
  BY <1>2, <1>4 DEF Control, Hands

(* Type correctness of the belt and of everybody at it.                    *)
THEOREM TypeCorrect == Spec => []TypeOK
<1>1. TypeOK /\ Control /\ [Next]_vars => (TypeOK /\ Control)'
  BY NextControl
<1>2. QED
  BY InitControl, <1>1, PTL DEF Spec

---------------------------------------------------------------------------
(* Mutual exclusion.  A thread comes to the belt by P(SEM_MUTEX_BELT) and  *)
(* leaves it by V; every other step stays on its side.                     *)
LEMMA ComesToBelt ==
  ASSUME TypeOK, Control, MutualExclusion, NEW t \in Thread, NEW l \in Critical,
         P(t, "BELT"), Goto(t, l)
  PROVE  MutualExclusion'
<1>1. sem["BELT"] > 0 /\ sem'["BELT"] = sem["BELT"] - 1
  BY Taken, SemaphoreNames
<1>2. AtBelt = {} /\ sem'["BELT"] = 0
  BY <1>1 DEF MutualExclusion
<1>3. l \in Place
  BY DEF Critical, Place
<1>4. pc'[t] = l /\ \A u \in Thread : u # t => pc'[u] = pc[u]
  BY <1>3, Moved
<1>5. AtBelt' = {t}
  BY <1>2, <1>4 DEF AtBelt, Critical
<1>6. QED
  BY <1>2, <1>5 DEF MutualExclusion

LEMMA LeavesBelt ==
  ASSUME TypeOK, MutualExclusion, NEW t \in AtBelt, NEW l \in Place \ Critical,
         sem'["BELT"] = sem["BELT"] + 1, Goto(t, l)
  PROVE  MutualExclusion'
<1>1. t \in Thread
  BY DEF AtBelt
<1>2. AtBelt = {t} /\ sem'["BELT"] = 1
  BY DEF MutualExclusion
<1>3. pc'[t] = l /\ \A u \in Thread : u # t => pc'[u] = pc[u]
  BY <1>1, Moved
<1>4. AtBelt' = {}
  BY <1>2, <1>3 DEF AtBelt, Critical
<1>5. QED
  BY <1>2, <1>4 DEF MutualExclusion

LEMMA StaysAtBelt ==
  ASSUME TypeOK, MutualExclusion, NEW t \in AtBelt, NEW l \in Critical,
         sem'["BELT"] = sem["BELT"], Goto(t, l)
  PROVE  MutualExclusion'
<1>1. t \in Thread /\ l \in Place /\ pc[t] \in Critical
  BY DEF AtBelt, Critical, Place
<1>2. pc'[t] = l /\ \A u \in Thread : u # t => pc'[u] = pc[u]
  BY <1>1, Moved
<1>3. AtBelt' = AtBelt
  BY <1>1, <1>2 DEF AtBelt, Critical
<1>4. QED
  BY <1>3 DEF MutualExclusion

LEMMA StaysAway ==
  ASSUME TypeOK, MutualExclusion, NEW t \in Thread, pc[t] \notin Critical,
         NEW l \in Place \ Critical, sem'["BELT"] = sem["BELT"], Goto(t, l)
  PROVE  MutualExclusion'
<1>1. pc'[t] = l /\ \A u \in Thread : u # t => pc'[u] = pc[u]
  BY Moved
<1>2. AtBelt' = AtBelt
  BY <1>1 DEF AtBelt, Critical
<1>3. QED
  BY <1>2 DEF MutualExclusion

(* Nothing but the four lemmas is needed of each action.                   *)
LEMMA ChefExclusion ==
  ASSUME TypeOK, Control, MutualExclusion, ChefStep
  PROVE  MutualExclusion'
<1> USE StaffApart, SemaphoreNames
<1> USE DEF At, Place, Critical
<1>0. ~Flagged("chef") /\ sem \in [Semaphore -> Nat]
  BY NobodyFlagged DEF TypeOK
<1>1. CASE ChefTakeOrder
  BY <1>0, <1>1, StaysAway DEF ChefTakeOrder, V
<1>2. CASE ChefCookNormal
  BY <1>2, StaysAway DEF ChefCookNormal
<1>3. CASE ChefWaitSlot
  <2>1. sem'["BELT"] = sem["BELT"]
    BY <1>3, Taken DEF ChefWaitSlot
  <2>2. QED
    BY <1>3, <2>1, StaysAway DEF ChefWaitSlot
<1>4. CASE ChefLock
  BY <1>4, ComesToBelt DEF ChefLock
<1>5. CASE ChefScan
  BY <1>5, StaysAtBelt DEF ChefScan, AtBelt
<1>6. CASE ChefPut
  <2>1. sem'["BELT"] = sem["BELT"] + 1
    BY <1>0, <1>6 DEF ChefPut
  <2>2. QED
    BY <1>6, <2>1, LeavesBelt DEF ChefPut, AtBelt
<1>7. CASE ChefDrop
  <2>1. sem'["BELT"] = sem["BELT"] + 1
    BY <1>0, <1>7 DEF ChefDrop
  <2>2. QED
    BY <1>7, <2>1, LeavesBelt DEF ChefDrop, AtBelt
<1>8. CASE ChefSpeed
  BY <1>0, <1>8, StaysAway DEF ChefSpeed
<1>9. QED
  BY <1>1, <1>2, <1>3, <1>4, <1>5, <1>6, <1>7, <1>8 DEF ChefStep

LEMMA RotorExclusion ==
  ASSUME TypeOK, Control, MutualExclusion, RotorStep
  PROVE  MutualExclusion'
<1> USE StaffApart, SemaphoreNames
<1> USE DEF At, Place, Critical
<1>0. ~Flagged("belt") /\ sem \in [Semaphore -> Nat]
  BY NobodyFlagged DEF TypeOK
<1>1. CASE RotorLock
  BY <1>1, ComesToBelt DEF RotorLock
<1>2. CASE Rotate
  <2>1. sem'["BELT"] = sem["BELT"] + 1
    BY <1>0, <1>2 DEF Rotate, V
  <2>2. QED
    BY <1>0, <1>2, <2>1, LeavesBelt DEF Rotate, AtBelt
<1>3. QED
  BY <1>1, <1>2 DEF RotorStep

LEMMA ServiceExclusion ==
  ASSUME TypeOK, Control, MutualExclusion, ServiceStep
  PROVE  MutualExclusion'
<1> USE StaffApart, SemaphoreNames
<1> USE DEF At, Place, Critical
<1>0. ~Flagged("service") /\ sem \in [Semaphore -> Nat]
  BY NobodyFlagged DEF TypeOK
<1>1. ASSUME NEW g \in Group, ServiceRecv(g) PROVE MutualExclusion'
  BY <1>1, StaysAway DEF ServiceRecv
<1>2. CASE ServiceLockState
  <2>1. sem'["BELT"] = sem["BELT"]
    BY <1>2, Taken DEF ServiceLockState
  <2>2. QED
    BY <1>2, <2>1, StaysAway DEF ServiceLockState
<1>3. CASE ServiceLockBelt
  BY <1>3, ComesToBelt DEF ServiceLockBelt
<1>4. CASE ServiceClean
  <2>1. sem'["BELT"] = sem["BELT"] + 1
    BY <1>0, <1>4 DEF ServiceClean
  <2>2. QED
    BY <1>4, <2>1, LeavesBelt DEF ServiceClean, AtBelt
<1>5. QED
  BY <1>0, <1>1, <1>2, <1>3, <1>4 DEF ServiceStep, ServiceStop

LEMMA PersonExclusion ==
  ASSUME TypeOK, Control, MutualExclusion, NEW p \in Person, PersonStep(p)
  PROVE  MutualExclusion'
<1> USE StaffApart, SemaphoreNames
<1> USE DEF At, Place, Critical
<1>0. ~Flagged(p) /\ sem \in [Semaphore -> Nat]
  BY NobodyFlagged DEF TypeOK
<1>1. CASE PersonStop(p)
  BY <1>1, StaysAway DEF PersonStop
<1>2. CASE PersonWantsPremium(p)
  BY <1>2, StaysAway DEF PersonWantsPremium
<1>3. CASE PersonWantsAnything(p)
  BY <1>3, StaysAway DEF PersonWantsAnything
<1>4. CASE PersonOrder(p)
  BY <1>0, <1>4, StaysAway DEF PersonOrder
<1>5. CASE PersonWaitItem(p)
  BY <1>0, <1>5, StaysAway DEF PersonWaitItem
<1>6. CASE PersonLock(p)
  BY <1>0, <1>6, ComesToBelt DEF PersonLock
<1>7. CASE PersonBite(p)
  BY <1>7, StaysAtBelt DEF PersonBite, AtBelt
<1>8. CASE PersonTake(p)
  <2>1. sem'["BELT"] = sem["BELT"] + 1
    BY <1>0, <1>8 DEF PersonTake
  <2>2. QED
    BY <1>8, <2>1, LeavesBelt DEF PersonTake, AtBelt
<1>9. CASE PersonMiss(p)
  <2>1. sem'["BELT"] = sem["BELT"] + 1
    BY <1>0, <1>9 DEF PersonMiss
  <2>2. QED
    BY <1>9, <2>1, LeavesBelt DEF PersonMiss, AtBelt
<1>10. QED
  BY <1>1, <1>2, <1>3, <1>4, <1>5, <1>6, <1>7, <1>8, <1>9 DEF PersonStep

LEMMA NextExclusion ==
  ASSUME TypeOK, Control, MutualExclusion, [Next]_vars
  PROVE  MutualExclusion'
<1>1. ASSUME NEW g \in Group, GroupFinish(g) PROVE MutualExclusion'
  BY <1>1 DEF GroupFinish, MutualExclusion, AtBelt
<1>2. CASE UNCHANGED vars
  BY <1>2 DEF vars, MutualExclusion, AtBelt
<1>3. QED
  BY <1>1, <1>2, ChefExclusion, RotorExclusion, ServiceExclusion, PersonExclusion DEF Next

LEMMA InitExclusion == Init => MutualExclusion
<1> SUFFICES ASSUME Init PROVE MutualExclusion
  OBVIOUS
<1>1. sem["BELT"] = 1
  BY SemaphoreNames DEF Init
<1>2. AtBelt = {}
  BY StaffApart DEF Init, AtBelt, Thread, Staff
<1>3. QED
  BY <1>1, <1>2 DEF MutualExclusion

(* One thread at a time at the belt, however many persons there are.       *)
THEOREM OneAtTheBelt == Spec => []MutualExclusion
<1>1. Init => TypeOK /\ Control /\ MutualExclusion
  BY InitControl, InitExclusion
<1>2. TypeOK /\ Control /\ MutualExclusion /\ [Next]_vars
        => (TypeOK /\ Control /\ MutualExclusion)'
  BY NextControl, NextExclusion
<1>3. QED
  BY <1>1, <1>2, PTL DEF Spec

---------------------------------------------------------------------------
(* What is seen on the belt stays true until it is acted on, because       *)
(* whoever changes the belt is alone there; and the slots are accounted    *)
(* for.  The two need each other: the account tells the chef that a slot   *)
(* is free, and the dish in an eater's hand tells the account that one     *)
(* slot becomes so.                                                        *)
Inv == TypeOK /\ Control /\ MutualExclusion /\ ChefFindsSlot /\ BiteStillThere /\ SlotsAccounted

(* The sets of slots of the specification, as Where sets.                  *)
SlotSets == /\ belt \in Belts
            /\ Occupied = Where(belt, Dish)
            /\ \A g \in Group : Reserved(g) = Where(belt, {d \in Dish : d.target = g})
            /\ \A c \in Color : OfColor(c) = Where(belt, {d \in Dish : d.color = c})

LEMMA SlotSetsNow == TypeOK => SlotSets
<1> SUFFICES ASSUME TypeOK PROVE SlotSets
  OBVIOUS
<1>1. None \notin Dish
  BY ValuesAssumption
<1>2. belt \in Belts
  BY DEF TypeOK, Belts
<1>3. Occupied = Where(belt, Dish)
  BY <1>1, <1>2 DEF Occupied, Where, Belts
<1>4. \A i \in Slot : i \in Occupied <=> belt[i] \in Dish
  BY <1>3 DEF Where
<1>5. \A g \in Group : Reserved(g) = Where(belt, {d \in Dish : d.target = g})
  BY <1>3, <1>4 DEF Reserved, Where
<1>6. \A c \in Color : OfColor(c) = Where(belt, {d \in Dish : d.color = c})
  BY <1>3, <1>4 DEF OfColor, Where
<1>7. QED
  BY <1>2, <1>3, <1>5, <1>6 DEF SlotSets

LEMMA SlotSetsNext == TypeOK' => SlotSets'
  BY SlotSetsNow, PTL

(* Nobody else is at the belt.                                             *)
LEMMA Alone ==
  ASSUME MutualExclusion, NEW t \in Thread, pc[t] \in Critical,
         NEW u \in Thread, pc[u] \in Critical
  PROVE  t = u
  BY DEF MutualExclusion, AtBelt, Critical

(* A free slot is found by a chef who was promised one.                    *)
LEMMA PromiseKept ==
  ASSUME TypeOK, SlotsAccounted, pc["chef"] \in {"lock", "scan", "put"}
  PROVE  Occupied # Slot
<1>1. BeltSize \in Nat \ {0} /\ Cardinality(Slot) = BeltSize
  BY SizesAssumption, FS_Interval DEF Slot
<1>2. sem["SLOTS"] \in Nat /\ Cardinality(Occupied) \in Nat
  BY SlotsFinite, SemaphoreNames DEF TypeOK, Occupied
<1>3. sem["SLOTS"] + Cardinality(Occupied) + 1 = BeltSize
  BY DEF SlotsAccounted
<1>4. QED
  BY <1>1, <1>2, <1>3

(* A step of the chef keeps the hands of everybody true.                   *)
LEMMA ChefHands ==
  ASSUME Inv, ChefStep
  PROVE  ChefFindsSlot' /\ BiteStillThere'
<1> USE StaffApart
<1>0. TypeOK /\ Control /\ MutualExclusion /\ ChefFindsSlot /\ BiteStillThere
  BY DEF Inv
<1>1. /\ \A p \in Person : pc'[p] = pc[p] /\ slot'[p] = slot[p]
      /\ bite' = bite
  BY <1>0 DEF ChefStep, ChefTakeOrder, ChefCookNormal, ChefWaitSlot, ChefLock, ChefScan,
              ChefPut, ChefDrop, ChefSpeed, Goto, TypeOK, counters, groupVars, locals
<1>2. CASE ChefPut
  <2>1. pc'["chef"] # "put"
    BY <1>0, <1>2 DEF ChefPut, Goto, TypeOK
  <2>2. \A p \in Person : pc[p] # "take"
    BY <1>0, <1>2, Alone DEF ChefPut, At, Critical
  <2>3. QED
    BY <1>1, <2>1, <2>2 DEF ChefFindsSlot, BiteStillThere, At
<1>3. CASE ~ChefPut
  <2>1. belt' = belt
    BY <1>3 DEF ChefStep, ChefTakeOrder, ChefCookNormal, ChefWaitSlot, ChefLock, ChefScan,
                ChefDrop, ChefSpeed, locals, counters, groupVars
  <2>2. BiteStillThere'
    BY <1>0, <1>1, <2>1 DEF BiteStillThere, At
  <2>3. CASE ChefScan
    <3>1. Occupied # Slot
      BY <1>0, <2>3, PromiseKept DEF Inv, ChefScan, At
    <3>2. PICK i \in Slot \ Occupied : slot' = [slot EXCEPT !["chef"] = i]
      BY <2>3, <3>1 DEF ChefScan, IsLeast
    <3>3. belt[i] = None /\ i # None
      BY <3>2, ValuesAssumption DEF Occupied
    <3>4. slot'["chef"] = i
      BY <1>0, <3>2 DEF TypeOK
    <3>5. QED
      BY <2>1, <2>2, <3>3, <3>4 DEF ChefFindsSlot
  <2>4. CASE ~ChefScan
    <3>1. pc'["chef"] # "put"
      BY <1>0, <1>3, <2>4 DEF ChefStep, ChefTakeOrder, ChefCookNormal, ChefWaitSlot, ChefLock,
                              ChefDrop, ChefSpeed, Goto, TypeOK
    <3>2. QED
      BY <2>2, <3>1 DEF ChefFindsSlot, At
  <2>5. QED
    BY <2>3, <2>4
<1>4. QED
  BY <1>2, <1>3

(* So does a step of the belt process, which turns the belt only alone.    *)
LEMMA RotorHands ==
  ASSUME Inv, RotorStep
  PROVE  ChefFindsSlot' /\ BiteStillThere'
<1> USE StaffApart
<1>0. TypeOK /\ Control /\ MutualExclusion /\ ChefFindsSlot /\ BiteStillThere
  BY DEF Inv
<1>1. /\ \A t \in Thread : t # "belt" => pc'[t] = pc[t]
      /\ slot' = slot /\ bite' = bite
  BY <1>0 DEF RotorStep, RotorLock, Rotate, Goto, TypeOK, locals
<1>2. CASE RotorLock
  BY <1>0, <1>1, <1>2 DEF RotorLock, ChefFindsSlot, BiteStillThere, At
<1>3. CASE Rotate
  <2>1. pc["chef"] # "put" /\ \A p \in Person : pc[p] # "take"
    BY <1>0, <1>3, Alone DEF Rotate, At, Critical
  <2>2. QED
    BY <1>1, <2>1 DEF ChefFindsSlot, BiteStillThere, At
<1>4. QED
  BY <1>2, <1>3 DEF RotorStep

(* And a step of the service.                                              *)
LEMMA ServiceHands ==
  ASSUME Inv, ServiceStep
  PROVE  ChefFindsSlot' /\ BiteStillThere'
<1> USE StaffApart
<1>0. TypeOK /\ Control /\ MutualExclusion /\ ChefFindsSlot /\ BiteStillThere
  BY DEF Inv
<1>1. /\ \A t \in Thread : t # "service" => pc'[t] = pc[t]
      /\ slot' = slot /\ bite' = bite
  BY <1>0 DEF ServiceStep, ServiceStop, ServiceRecv, ServiceLockState, ServiceLockBelt,
              ServiceClean, Goto, TypeOK, locals
<1>2. CASE ServiceClean
  <2>1. pc["chef"] # "put" /\ \A p \in Person : pc[p] # "take"
    BY <1>0, <1>2, Alone DEF ServiceClean, At, Critical
  <2>2. QED
    BY <1>1, <2>1 DEF ChefFindsSlot, BiteStillThere, At
<1>3. CASE ~ServiceClean
  <2>1. belt' = belt
    BY <1>3 DEF ServiceStep, ServiceStop, ServiceRecv, ServiceLockState, ServiceLockBelt
  <2>2. QED
    BY <1>0, <1>1, <2>1 DEF ChefFindsSlot, BiteStillThere, At
<1>4. QED
  BY <1>2, <1>3

(* And a step of a person, who remembers a dish that is there.             *)
LEMMA PersonHands ==
  ASSUME Inv, NEW p \in Person, PersonStep(p)
  PROVE  ChefFindsSlot' /\ BiteStillThere'
<1> USE StaffApart
<1> DEFINE g == GroupOf[p]
<1>0. TypeOK /\ Control /\ MutualExclusion /\ ChefFindsSlot /\ BiteStillThere
  BY DEF Inv
<1>1. /\ \A t \in Thread : t # p => pc'[t] = pc[t]
      /\ slot'["chef"] = slot["chef"]
      /\ \A q \in Person : q # p => slot'[q] = slot[q] /\ bite'[q] = bite[q]
  <2>1. \A t \in Thread : t # p => pc'[t] = pc[t]
    BY <1>0 DEF PersonStep, PersonStop, PersonWantsPremium, PersonWantsAnything, PersonOrder,
                PersonWaitItem, PersonLock, PersonBite, PersonTake, PersonMiss, Goto, TypeOK
  <2>2. CASE PersonBite(p)
    BY <1>0, <2>1, <2>2 DEF PersonBite, TypeOK
  <2>3. CASE PersonTake(p)
    BY <1>0, <2>1, <2>3 DEF PersonTake, TypeOK
  <2>4. CASE ~PersonBite(p) /\ ~PersonTake(p)
    <3>1. slot' = slot /\ bite' = bite
      BY <2>4 DEF PersonStep, PersonStop, PersonWantsPremium, PersonWantsAnything, PersonOrder,
                  PersonWaitItem, PersonLock, PersonMiss, locals
    <3>2. QED
      BY <2>1, <3>1
  <2>5. QED
    BY <2>2, <2>3, <2>4
<1>2. CASE PersonBite(p)
  <2>1. PICK i \in Slot : IsLeast(i, Edible(g)) /\ slot' = [slot EXCEPT ![p] = i]
                          /\ bite' = [bite EXCEPT ![p] = belt[i].color]
    BY <1>2 DEF PersonBite
  <2>2. /\ slot'[p] = i /\ bite'[p] = belt[i].color /\ i # None
        /\ belt[i] # None /\ belt[i].target \in {Anyone, g}
    BY <1>0, <2>1, ValuesAssumption DEF IsLeast, Edible, TypeOK
  <2>3. belt' = belt
    BY <1>2 DEF PersonBite
  <2>4. ChefFindsSlot'
    BY <1>0, <1>1, <2>3 DEF ChefFindsSlot, At
  <2>5. BiteStillThere'
    BY <1>0, <1>1, <2>2, <2>3 DEF BiteStillThere, At
  <2>6. QED
    BY <2>4, <2>5
<1>3. CASE PersonTake(p)
  <2>1. pc["chef"] # "put" /\ \A q \in Person : q # p => pc[q] # "take"
    BY <1>0, <1>3, Alone DEF PersonTake, At, Critical
  <2>2. pc'[p] # "take"
    BY <1>0, <1>3 DEF PersonTake, Goto, TypeOK
  <2>3. QED
    BY <1>1, <2>1, <2>2 DEF ChefFindsSlot, BiteStillThere, At
<1>4. CASE ~PersonBite(p) /\ ~PersonTake(p)
  <2>1. belt' = belt /\ slot' = slot /\ bite' = bite
    BY <1>4 DEF PersonStep, PersonStop, PersonWantsPremium, PersonWantsAnything, PersonOrder,
                PersonWaitItem, PersonLock, PersonMiss, locals
  <2>2. pc'[p] # "take"
    BY <1>0, <1>4 DEF PersonStep, PersonStop, PersonWantsPremium, PersonWantsAnything, PersonOrder,
                      PersonWaitItem, PersonLock, PersonMiss, Goto, TypeOK
  <2>3. QED
    BY <1>0, <1>1, <2>1, <2>2 DEF ChefFindsSlot, BiteStillThere, At
<1>5. QED
  BY <1>2, <1>3, <1>4

(* The account of the slots.  Promised is the slot the chef has been       *)
(* given by the semaphore and has not filled yet.                          *)
Promised == IF pc["chef"] \in {"lock", "scan", "put"} THEN 1 ELSE 0

(* A step that moves neither slots, dishes nor the chef keeps the account. *)
LEMMA SlotsUntouched ==
  ASSUME SlotsAccounted, sem'["SLOTS"] = sem["SLOTS"], belt' = belt, Promised' = Promised
  PROVE  SlotsAccounted'
  BY DEF SlotsAccounted, Occupied, Promised

LEMMA ChefSlots ==
  ASSUME Inv, ChefStep
  PROVE  SlotsAccounted'
<1> USE StaffApart, SemaphoreNames
<1>0. TypeOK /\ Control /\ ChefFindsSlot /\ SlotsAccounted /\ ~Flagged("chef")
  BY NobodyFlagged DEF Inv
<1>1. sem \in [Semaphore -> Nat] /\ pc \in [Thread -> Place]
  BY <1>0 DEF TypeOK
<1>2. Cardinality(Occupied) \in Nat /\ sem["SLOTS"] \in Nat
  BY <1>1, SlotsFinite DEF Occupied
<1>3. CASE ChefWaitSlot
  <2>1. sem'["SLOTS"] = sem["SLOTS"] - 1 /\ belt' = belt
    BY <1>0, <1>3, Taken DEF ChefWaitSlot
  <2>2. pc["chef"] = "slots" /\ pc'["chef"] = "lock"
    BY <1>1, <1>3 DEF ChefWaitSlot, At, Goto
  <2>3. QED
    BY <1>0, <1>2, <2>1, <2>2 DEF SlotsAccounted, Occupied
<1>4. CASE ChefPut
  <2>1. slot["chef"] \in Slot /\ belt[slot["chef"]] = None /\ plate \in Dish
    BY <1>0, <1>4 DEF ChefPut, ChefFindsSlot, Control, TypeOK, At
  <2>2. belt' = [belt EXCEPT ![slot["chef"]] = plate]
    BY <1>0, <1>4 DEF ChefPut, Control
  <2>3. Cardinality(Occupied') = Cardinality(Occupied) + 1
    <3>1. TypeOK'
      BY <1>0, NextControl DEF Next
    <3>2. Occupied = Where(belt, Dish) /\ Occupied' = Where(belt', Dish) /\ belt \in Belts
      BY <1>0, <3>1, SlotSetsNow, SlotSetsNext DEF SlotSets
    <3>3. Cardinality(Where(belt', Dish)) = Cardinality(Where(belt, Dish)) + 1
      BY <2>1, <2>2, <3>2, PutCount
    <3>4. QED
      BY <3>2, <3>3
  <2>4. sem'["SLOTS"] = sem["SLOTS"]
    BY <1>1, <1>4 DEF ChefPut
  <2>5. pc["chef"] = "put" /\ pc'["chef"] = "speed"
    BY <1>1, <1>4 DEF ChefPut, At, Goto
  <2>6. QED
    BY <1>0, <1>2, <2>3, <2>4, <2>5 DEF SlotsAccounted
<1>5. CASE ChefDrop
  BY <1>0, <1>5 DEF ChefDrop, ChefFindsSlot
<1>6. CASE ~ChefWaitSlot /\ ~ChefPut /\ ~ChefDrop
  <2>1. belt' = belt
    BY <1>6 DEF ChefStep, ChefTakeOrder, ChefCookNormal, ChefLock, ChefScan, ChefSpeed
  <2>2. sem'["SLOTS"] = sem["SLOTS"]
    <3>1. CASE ChefLock
      BY <1>0, <3>1, Taken DEF ChefLock
    <3>2. CASE ~ChefLock
      BY <1>0, <1>1, <1>6, <3>2 DEF ChefStep, ChefTakeOrder, ChefCookNormal, ChefScan, ChefSpeed, V
    <3>3. QED
      BY <3>1, <3>2
  <2>3. Promised' = Promised
    BY <1>0, <1>1, <1>6 DEF ChefStep, ChefTakeOrder, ChefCookNormal, ChefLock, ChefScan,
                            ChefSpeed, At, Goto, Promised
  <2>4. QED
    BY <1>0, <2>1, <2>2, <2>3, SlotsUntouched
<1>7. QED
  BY <1>3, <1>4, <1>5, <1>6

LEMMA RotorSlots ==
  ASSUME Inv, RotorStep
  PROVE  SlotsAccounted'
<1> USE StaffApart, SemaphoreNames
<1>0. TypeOK /\ Control /\ SlotsAccounted
  BY DEF Inv
<1>1. sem'["SLOTS"] = sem["SLOTS"]
  <2>1. CASE RotorLock
    BY <1>0, <2>1, Taken DEF RotorLock
  <2>2. CASE Rotate
    BY <1>0, <2>2 DEF Rotate, V, TypeOK
  <2>3. QED
    BY <2>1, <2>2 DEF RotorStep
<1>2. pc'["chef"] = pc["chef"]
  BY <1>0 DEF RotorStep, RotorLock, Rotate, Goto, TypeOK
<1>3. Cardinality(Occupied') = Cardinality(Occupied)
  <2>1. TypeOK'
    BY <1>0, NextControl DEF Next
  <2>2. Occupied = Where(belt, Dish) /\ Occupied' = Where(belt', Dish) /\ belt \in Belts
    BY <1>0, <2>1, SlotSetsNow, SlotSetsNext DEF SlotSets
  <2>3. CASE RotorLock
    BY <2>3 DEF RotorLock, Occupied
  <2>4. CASE Rotate
    <3>1. Cardinality(Where(belt', Dish)) = Cardinality(Where(belt, Dish))
      BY <2>2, <2>4, RotateCount DEF Rotate
    <3>2. QED
      BY <2>2, <3>1
  <2>5. QED
    BY <2>3, <2>4 DEF RotorStep
<1>4. QED
  BY <1>0, <1>1, <1>2, <1>3 DEF SlotsAccounted

LEMMA ServiceSlots ==
  ASSUME Inv, ServiceStep
  PROVE  SlotsAccounted'
<1> USE StaffApart, SemaphoreNames
<1>0. TypeOK /\ Control /\ SlotsAccounted
  BY DEF Inv
<1>1. sem \in [Semaphore -> Nat] /\ Cardinality(Occupied) \in Nat
  BY <1>0, SlotsFinite DEF TypeOK, Occupied
<1>2. pc'["chef"] = pc["chef"]
  BY <1>0 DEF ServiceStep, ServiceStop, ServiceRecv, ServiceLockState, ServiceLockBelt,
              ServiceClean, Goto, TypeOK
<1>3. CASE ServiceClean
  <2> DEFINE Z == {d \in Dish : d.target = client}
  <2>1. TypeOK' /\ client \in Group
    BY <1>0, <1>3, NextControl DEF Next, ServiceClean, Control, At
  <2>2. /\ Occupied = Where(belt, Dish) /\ Occupied' = Where(belt', Dish) /\ belt \in Belts
        /\ Reserved(client) = Where(belt, Z)
    BY <1>0, <2>1, SlotSetsNow, SlotSetsNext DEF SlotSets
  <2>3. belt' = [i \in Slot |-> IF i \in Where(belt, Z) THEN None ELSE belt[i]]
    BY <1>3, <2>2 DEF ServiceClean
  <2>4. Cardinality(Where(belt', Dish))
          = Cardinality(Where(belt, Dish)) - Cardinality(Where(belt, Dish) \cap Where(belt, Z))
    BY <2>2, <2>3, ClearCount
  <2>5. Where(belt, Dish) \cap Where(belt, Z) = Reserved(client)
    BY <2>2 DEF Where
  <2>6. Cardinality(Occupied') = Cardinality(Occupied) - Cardinality(Reserved(client))
    BY <2>2, <2>4, <2>5
  <2>7. Cardinality(Reserved(client)) \in Nat
    BY SlotsFinite DEF Reserved, Occupied
  <2>8. sem'["SLOTS"] = sem["SLOTS"] + Cardinality(Reserved(client))
    BY <1>1, <1>3 DEF ServiceClean
  <2>9. sem["SLOTS"] \in Nat
    BY <1>1
  <2>10. QED
    BY <1>0, <1>1, <1>2, <2>6, <2>7, <2>8, <2>9 DEF SlotsAccounted
<1>4. CASE ~ServiceClean
  <2>1. belt' = belt
    BY <1>4 DEF ServiceStep, ServiceStop, ServiceRecv, ServiceLockState, ServiceLockBelt
  <2>2. sem'["SLOTS"] = sem["SLOTS"]
    <3>1. CASE ServiceLockState
      BY <1>0, <3>1, Taken DEF ServiceLockState
    <3>2. CASE ServiceLockBelt
      BY <1>0, <3>2, Taken DEF ServiceLockBelt
    <3>3. QED
      BY <1>4, <3>1, <3>2 DEF ServiceStep, ServiceStop, ServiceRecv
  <2>3. QED
    BY <1>0, <1>2, <2>1, <2>2, SlotsUntouched DEF Promised
<1>5. QED
  BY <1>3, <1>4

LEMMA PersonSlots ==
  ASSUME Inv, NEW p \in Person, PersonStep(p)
  PROVE  SlotsAccounted'
<1> USE StaffApart, SemaphoreNames
<1>0. TypeOK /\ Control /\ BiteStillThere /\ SlotsAccounted /\ ~Flagged(p)
  BY NobodyFlagged DEF Inv
<1>1. sem \in [Semaphore -> Nat] /\ Cardinality(Occupied) \in Nat
  BY <1>0, SlotsFinite DEF TypeOK, Occupied
<1>2. pc'["chef"] = pc["chef"]
  BY <1>0 DEF PersonStep, PersonStop, PersonWantsPremium, PersonWantsAnything, PersonOrder,
              PersonWaitItem, PersonLock, PersonBite, PersonTake, PersonMiss, Goto, TypeOK
<1>3. CASE PersonTake(p)
  <2>1. TypeOK'
    BY <1>0, NextControl DEF Next
  <2>2. Occupied = Where(belt, Dish) /\ Occupied' = Where(belt', Dish) /\ belt \in Belts
    BY <1>0, <2>1, SlotSetsNow, SlotSetsNext DEF SlotSets
  <2>3. slot[p] \in Slot /\ belt[slot[p]] # None /\ belt' = [belt EXCEPT ![slot[p]] = None]
    BY <1>0, <1>3 DEF PersonTake, Control, BiteStillThere, At
  <2>4. belt[slot[p]] \in Dish
    BY <2>2, <2>3 DEF Belts
  <2>5. Cardinality(Where(belt', Dish)) = Cardinality(Where(belt, Dish)) - 1
    BY <2>2, <2>3, <2>4, TakeCount
  <2>6. sem'["SLOTS"] = sem["SLOTS"] + 1 /\ sem["SLOTS"] \in Nat
    BY <1>1, <1>3 DEF PersonTake
  <2>7. QED
    BY <1>0, <1>1, <1>2, <2>2, <2>5, <2>6 DEF SlotsAccounted
<1>4. CASE ~PersonTake(p)
  <2>1. belt' = belt
    BY <1>4 DEF PersonStep, PersonStop, PersonWantsPremium, PersonWantsAnything, PersonOrder,
                PersonWaitItem, PersonLock, PersonBite, PersonMiss
  <2>2. sem'["SLOTS"] = sem["SLOTS"]
    <3>1. CASE PersonLock(p)
      BY <1>0, <3>1, Taken DEF PersonLock
    <3>2. CASE PersonOrder(p) \/ PersonWaitItem(p)
      BY <1>0, <1>1, <3>2 DEF PersonOrder, PersonWaitItem
    <3>3. CASE PersonMiss(p)
      BY <1>1, <3>3 DEF PersonMiss
    <3>4. QED
      BY <1>4, <3>1, <3>2, <3>3 DEF PersonStep, PersonStop, PersonWantsPremium,
                                    PersonWantsAnything, PersonBite
  <2>3. QED
    BY <1>0, <1>2, <2>1, <2>2, SlotsUntouched DEF Promised
<1>5. QED
  BY <1>3, <1>4

(* The whole invariant holds at the start and is kept by every step.       *)
LEMMA InitInv == Init => Inv
<1> SUFFICES ASSUME Init PROVE Inv
  OBVIOUS
<1>1. sem["SLOTS"] = BeltSize /\ Occupied = {} /\ pc["chef"] = "recv"
  BY SemaphoreNames, StaffApart DEF Init, Occupied
<1>2. SlotsAccounted
  BY <1>1, FS_EmptySet, SizesAssumption DEF SlotsAccounted
<1>3. \A p \in Person : pc[p] = "loop"
  BY StaffApart DEF Init
<1>4. ChefFindsSlot /\ BiteStillThere
  BY <1>1, <1>3 DEF ChefFindsSlot, BiteStillThere, At
<1>5. QED
  BY <1>2, <1>4, InitControl, InitExclusion DEF Inv

LEMMA NextInv ==
  ASSUME Inv, [Next]_vars
  PROVE  Inv'
<1>1. TypeOK' /\ Control' /\ MutualExclusion'
  BY NextControl, NextExclusion DEF Inv
<1>2. ChefFindsSlot' /\ BiteStillThere' /\ SlotsAccounted'
  <2>1. ASSUME NEW g \in Group, GroupFinish(g)
        PROVE  ChefFindsSlot' /\ BiteStillThere' /\ SlotsAccounted'
    BY <2>1 DEF GroupFinish, locals, Inv, ChefFindsSlot, BiteStillThere, SlotsAccounted, At, Occupied
  <2>2. CASE UNCHANGED vars
    BY <2>2 DEF vars, locals, Inv, ChefFindsSlot, BiteStillThere, SlotsAccounted, At, Occupied
  <2>3. QED
    BY <2>1, <2>2, ChefHands, RotorHands, ServiceHands, PersonHands,
       ChefSlots, RotorSlots, ServiceSlots, PersonSlots DEF Next
<1>3. QED
  BY <1>1, <1>2 DEF Inv

(* Belt slots are never lost, given twice, or promised without being       *)
(* there.                                                                  *)
THEOREM EverySlotAccounted == Spec => []SlotsAccounted
<1>1. Inv => SlotsAccounted
  BY DEF Inv
<1>2. Inv /\ [Next]_vars => Inv'
  BY NextInv
<1>3. QED
  BY InitInv, <1>1, <1>2, PTL DEF Spec

(* The branch of chefPutDish for a full belt is dead without signals.      *)
THEOREM ChefAlwaysFindsSlot == Spec => []ChefFindsSlot
<1>1. Inv => ChefFindsSlot
  BY DEF Inv
<1>2. Inv /\ [Next]_vars => Inv'
  BY NextInv
<1>3. QED
  BY InitInv, <1>1, <1>2, PTL DEF Spec

(* Nobody is billed for a dish that they then cannot take.                 *)
THEOREM BittenDishStillThere == Spec => []BiteStillThere
<1>1. Inv => BiteStillThere
  BY DEF Inv
<1>2. Inv /\ [Next]_vars => Inv'
  BY NextInv
<1>3. QED
  BY InitInv, <1>1, <1>2, PTL DEF Spec

---------------------------------------------------------------------------
(* The books, for the same reasons as the slots, each colour by itself.   *)
OfColorSet(c) == {d \in Dish : d.color = c}

(* The four actions that move dishes, and what they do to a count of them. *)
LEMMA PutMoves ==
  ASSUME Inv, ChefPut, NEW D \in SUBSET Dish
  PROVE  /\ plate \in Dish
         /\ Cardinality(Where(belt', D)) = Cardinality(Where(belt, D)) + (IF plate \in D THEN 1 ELSE 0)
<1>1. TypeOK /\ Control /\ ChefFindsSlot /\ belt \in Belts
  BY SlotSetsNow DEF Inv, SlotSets
<1>2. slot["chef"] \in Slot /\ belt[slot["chef"]] = None /\ plate \in Dish
  BY <1>1 DEF ChefPut, ChefFindsSlot, Control, TypeOK, At
<1>3. belt' = [belt EXCEPT ![slot["chef"]] = plate]
  BY <1>1 DEF ChefPut, Control
<1>4. Cardinality(Where([belt EXCEPT ![slot["chef"]] = plate], D))
        = Cardinality(Where(belt, D)) + (IF plate \in D THEN 1 ELSE 0)
  BY <1>1, <1>2, PutCount
<1>5. QED
  BY <1>2, <1>3, <1>4

LEMMA TakeMoves ==
  ASSUME Inv, NEW p \in Person, PersonTake(p), NEW D \in SUBSET Dish
  PROVE  /\ slot[p] \in Slot /\ belt[slot[p]] \in Dish
         /\ belt[slot[p]].color = bite[p] /\ belt[slot[p]].target \in {Anyone, GroupOf[p]}
         /\ Cardinality(Where(belt', D))
              = Cardinality(Where(belt, D)) - (IF belt[slot[p]] \in D THEN 1 ELSE 0)
<1>1. TypeOK /\ Control /\ BiteStillThere /\ belt \in Belts
  BY SlotSetsNow DEF Inv, SlotSets
<1>2. /\ slot[p] \in Slot /\ belt[slot[p]] # None /\ belt' = [belt EXCEPT ![slot[p]] = None]
      /\ belt[slot[p]].color = bite[p] /\ belt[slot[p]].target \in {Anyone, GroupOf[p]}
  BY <1>1 DEF PersonTake, Control, BiteStillThere, At
<1>3. belt[slot[p]] \in Dish
  BY <1>1, <1>2 DEF Belts
<1>4. Cardinality(Where([belt EXCEPT ![slot[p]] = None], D))
        = Cardinality(Where(belt, D)) - (IF belt[slot[p]] \in D THEN 1 ELSE 0)
  BY <1>1, <1>2, TakeCount
<1>5. QED
  BY <1>2, <1>3, <1>4

LEMMA TurnMoves ==
  ASSUME Inv, Rotate, NEW D
  PROVE  Cardinality(Where(belt', D)) = Cardinality(Where(belt, D))
  BY SlotSetsNow, RotateCount DEF Inv, SlotSets, Rotate

LEMMA ClearMoves ==
  ASSUME Inv, ServiceClean, NEW D \in SUBSET Dish
  PROVE  /\ client \in Group
         /\ Cardinality(Where(belt', D))
              = Cardinality(Where(belt, D)) - Cardinality(Where(belt, D) \cap Reserved(client))
<1>1. TypeOK /\ Control /\ SlotSets
  BY SlotSetsNow DEF Inv
<1>2. client \in Group
  BY <1>1 DEF ServiceClean, Control, At
<1> DEFINE Z == {d \in Dish : d.target = client}
<1>3. Reserved(client) = Where(belt, Z) /\ belt \in Belts
  BY <1>1, <1>2 DEF SlotSets
<1>4. belt' = [i \in Slot |-> IF i \in Where(belt, Z) THEN None ELSE belt[i]]
  BY <1>3 DEF ServiceClean
<1>5. Z \in SUBSET Dish
  OBVIOUS
<1> HIDE DEF Z
<1>6. QED
  BY <1>2, <1>3, <1>4, <1>5, ClearCount

(* Any other step leaves the belt alone.                                   *)
LEMMA BeltUntouched ==
  ASSUME [Next]_vars, ~ChefPut, ~Rotate, ~ServiceClean, \A p \in Person : ~PersonTake(p)
  PROVE  belt' = belt /\ produced' = produced /\ sold' = sold /\ wasted' = wasted
<1> USE DEF locals, counters, groupVars
<1>1. CASE ChefStep
  BY <1>1 DEF ChefStep, ChefTakeOrder, ChefCookNormal, ChefWaitSlot, ChefLock, ChefScan, ChefDrop,
              ChefSpeed
<1>2. CASE RotorStep
  BY <1>2 DEF RotorStep, RotorLock
<1>3. CASE ServiceStep
  BY <1>3 DEF ServiceStep, ServiceStop, ServiceRecv, ServiceLockState, ServiceLockBelt
<1>4. ASSUME NEW p \in Person, PersonStep(p)
      PROVE  belt' = belt /\ produced' = produced /\ sold' = sold /\ wasted' = wasted
  BY <1>4 DEF PersonStep, PersonStop, PersonWantsPremium, PersonWantsAnything, PersonOrder,
              PersonWaitItem, PersonLock, PersonBite, PersonMiss
<1>5. ASSUME NEW g \in Group, GroupFinish(g)
      PROVE  belt' = belt /\ produced' = produced /\ sold' = sold /\ wasted' = wasted
  BY <1>5 DEF GroupFinish
<1>6. CASE UNCHANGED vars
  BY <1>6 DEF vars
<1>7. QED
  BY <1>1, <1>2, <1>3, <1>4, <1>5, <1>6 DEF Next

LEMMA NextConservation ==
  ASSUME Inv, Conservation, [Next]_vars
  PROVE  Conservation'
<1> SUFFICES ASSUME NEW c \in Color
             PROVE  produced'[c] = sold'[c] + wasted'[c] + Cardinality(OfColor(c)')
  BY DEF Conservation
<1> DEFINE D == OfColorSet(c)
<1>1. TypeOK /\ SlotSets /\ SlotSets'
  BY SlotSetsNow, SlotSetsNext, NextInv DEF Inv
<1>2. OfColor(c) = Where(belt, D) /\ OfColor(c)' = Where(belt', D)
  BY <1>1 DEF SlotSets, OfColorSet
<1>3. D \in SUBSET Dish /\ \A d \in Dish : d \in D <=> d.color = c
  BY DEF OfColorSet
<1>4. /\ produced[c] \in Nat /\ sold[c] \in Nat /\ wasted[c] \in Nat
      /\ Cardinality(OfColor(c)) \in Nat
      /\ produced[c] = sold[c] + wasted[c] + Cardinality(OfColor(c))
  BY <1>1, SlotsFinite DEF TypeOK, Conservation, OfColor, Occupied
<1> HIDE DEF D
<1>5. CASE ChefPut
  <2>1. plate \in Dish /\ plate.color \in Color
    BY <1>3, <1>5, PutMoves DEF Dish
  <2>2. Cardinality(Where(belt', D)) = Cardinality(Where(belt, D)) + (IF plate \in D THEN 1 ELSE 0)
    BY <1>3, <1>5, PutMoves
  <2>3. produced'[c] = produced[c] + (IF plate.color = c THEN 1 ELSE 0)
    <3>1. produced \in [Color -> Nat] /\ produced' = [produced EXCEPT ![plate.color] = @ + 1]
      BY <1>1, <1>5 DEF ChefPut, TypeOK
    <3>2. QED
      BY <2>1, <3>1
  <2>4. sold' = sold /\ wasted' = wasted
    BY <1>5 DEF ChefPut
  <2>5. QED
    BY <1>2, <1>3, <1>4, <2>1, <2>2, <2>3, <2>4
<1>6. CASE Rotate
  <2>1. produced' = produced /\ sold' = sold /\ wasted' = wasted
    BY <1>6 DEF Rotate, counters
  <2>2. QED
    BY <1>2, <1>4, <1>6, <2>1, TurnMoves
<1>7. CASE ServiceClean
  <2>1. Cardinality(Where(belt', D))
          = Cardinality(Where(belt, D)) - Cardinality(Where(belt, D) \cap Reserved(client))
    BY <1>3, <1>7, ClearMoves
  <2>2. wasted'[c] = wasted[c] + Cardinality(OfColor(c) \cap Reserved(client))
    BY <1>7 DEF ServiceClean
  <2>3. Cardinality(OfColor(c) \cap Reserved(client)) \in Nat
    BY SlotsFinite DEF OfColor, Occupied
  <2>4. produced' = produced /\ sold' = sold
    BY <1>7 DEF ServiceClean
  <2>5. QED
    BY <1>2, <1>4, <2>1, <2>2, <2>3, <2>4
<1>8. ASSUME NEW p \in Person, PersonTake(p)
      PROVE  produced'[c] = sold'[c] + wasted'[c] + Cardinality(OfColor(c)')
  <2>1. belt[slot[p]] \in Dish /\ belt[slot[p]].color = bite[p] /\ bite[p] \in Color
    BY <1>3, <1>8, TakeMoves DEF Dish
  <2>2. Cardinality(Where(belt', D))
          = Cardinality(Where(belt, D)) - (IF belt[slot[p]] \in D THEN 1 ELSE 0)
    BY <1>3, <1>8, TakeMoves
  <2>3. sold'[c] = sold[c] + (IF bite[p] = c THEN 1 ELSE 0)
    <3>1. sold \in [Color -> Nat] /\ sold' = [sold EXCEPT ![bite[p]] = @ + 1]
      BY <1>1, <1>8 DEF PersonTake, TypeOK
    <3>2. QED
      BY <2>1, <3>1
  <2>4. produced' = produced /\ wasted' = wasted
    BY <1>8 DEF PersonTake
  <2>5. QED
    BY <1>2, <1>3, <1>4, <2>1, <2>2, <2>3, <2>4
<1>9. CASE ~ChefPut /\ ~Rotate /\ ~ServiceClean /\ \A p \in Person : ~PersonTake(p)
  BY <1>2, <1>4, <1>9, BeltUntouched
<1>10. QED
  BY <1>5, <1>6, <1>7, <1>8, <1>9

LEMMA InitConservation == Init => Conservation
<1> SUFFICES ASSUME Init, NEW c \in Color
             PROVE  produced[c] = sold[c] + wasted[c] + Cardinality(OfColor(c))
  BY DEF Conservation
<1>1. OfColor(c) = {}
  BY DEF Init, OfColor, Occupied
<1>2. QED
  BY <1>1, FS_EmptySet DEF Init

(* At every moment, and for every colour, the dishes cooked are the dishes *)
(* sold, wasted and on the belt: what reports.cpp validates at the end.    *)
THEOREM BooksBalance == Spec => []Conservation
<1>1. Init => Inv /\ Conservation
  BY InitInv, InitConservation
<1>2. Inv /\ Conservation /\ [Next]_vars => (Inv /\ Conservation)'
  BY NextInv, NextConservation
<1>3. QED
  BY <1>1, <1>2, PTL DEF Spec

---------------------------------------------------------------------------
(* The premium queue: every sender takes a place, and the chef gives it    *)
(* back with each order.                                                   *)
LEMMA NextOrders ==
  ASSUME TypeOK, Control, OrdersAccounted, [Next]_vars
  PROVE  OrdersAccounted'
<1> USE StaffApart, SemaphoreNames
<1> USE DEF locals, counters, groupVars
<1>1. /\ sem \in [Semaphore -> Nat] /\ sem["PREMIUM_FREE"] \in Nat
      /\ orders \in Seq(Order) /\ Len(orders) \in Nat
  BY DEF TypeOK
<1>2. CASE ChefTakeOrder
  <2>1. sem'["PREMIUM_FREE"] = sem["PREMIUM_FREE"] + 1
    BY <1>1, <1>2 DEF ChefTakeOrder, V
  <2>2. orders # << >> /\ orders' = Tail(orders)
    BY <1>2 DEF ChefTakeOrder
  <2>3. Len(Tail(orders)) = Len(orders) - 1
    BY <1>1, <2>2
  <2>4. QED
    BY <1>1, <2>1, <2>2, <2>3 DEF OrdersAccounted
<1>3. CASE ChefStep /\ ~ChefTakeOrder
  <2>1. orders' = orders
    BY <1>3 DEF ChefStep, ChefCookNormal, ChefWaitSlot, ChefLock, ChefScan, ChefPut, ChefDrop,
                ChefSpeed
  <2>2. sem'["PREMIUM_FREE"] = sem["PREMIUM_FREE"]
    <3>1. CASE ChefWaitSlot
      BY <3>1, Taken DEF ChefWaitSlot
    <3>2. CASE ChefLock
      BY <3>2, Taken DEF ChefLock
    <3>3. CASE ChefPut \/ ChefDrop
      BY <1>1, <3>3 DEF ChefPut, ChefDrop
    <3>4. CASE ChefSpeed
      BY <3>4, NobodyFlagged DEF ChefSpeed
    <3>5. QED
      BY <1>3, <3>1, <3>2, <3>3, <3>4 DEF ChefStep, ChefCookNormal, ChefScan
  <2>3. QED
    BY <2>1, <2>2 DEF OrdersAccounted
<1>4. CASE RotorStep
  <2>1. CASE RotorLock
    BY <2>1, Taken DEF RotorLock, OrdersAccounted
  <2>2. CASE Rotate
    BY <1>1, <2>2 DEF Rotate, V, OrdersAccounted
  <2>3. QED
    BY <1>4, <2>1, <2>2 DEF RotorStep
<1>5. CASE ServiceStep
  <2>1. CASE ServiceLockState
    BY <2>1, Taken DEF ServiceLockState, OrdersAccounted
  <2>2. CASE ServiceLockBelt
    BY <2>2, Taken DEF ServiceLockBelt, OrdersAccounted
  <2>3. CASE ServiceClean
    BY <1>1, <2>3 DEF ServiceClean, OrdersAccounted
  <2>4. QED
    BY <1>5, <2>1, <2>2, <2>3 DEF ServiceStep, ServiceStop, ServiceRecv, OrdersAccounted
<1>6. ASSUME NEW p \in Person, PersonStep(p)
      PROVE  OrdersAccounted'
  <2>0. ~Flagged(p)
    BY NobodyFlagged
  <2>1. CASE PersonOrder(p)
    <3>1. sem'["PREMIUM_FREE"] = sem["PREMIUM_FREE"] - 1
      BY <1>1, <2>0, <2>1 DEF PersonOrder
    <3>2. PICK c \in PremiumColor : orders' = Append(orders, [color |-> c, target |-> GroupOf[p]])
      BY <2>0, <2>1 DEF PersonOrder
    <3>3. [color |-> c, target |-> GroupOf[p]] \in Order
      BY PartiesAssumption DEF Order
    <3>4. Len(orders') = Len(orders) + 1
      BY <1>1, <3>2, <3>3
    <3>5. QED
      BY <1>1, <3>1, <3>4 DEF OrdersAccounted
  <2>2. CASE PersonWaitItem(p)
    BY <1>1, <2>0, <2>2 DEF PersonWaitItem, OrdersAccounted
  <2>3. CASE PersonLock(p)
    <3>1. P(p, "BELT") /\ orders' = orders
      BY <2>0, <2>3 DEF PersonLock
    <3>2. QED
      BY <3>1, Taken DEF OrdersAccounted
  <2>4. CASE PersonTake(p) \/ PersonMiss(p)
    BY <1>1, <2>4 DEF PersonTake, PersonMiss, OrdersAccounted
  <2>5. QED
    BY <1>6, <2>1, <2>2, <2>3, <2>4
       DEF PersonStep, PersonStop, PersonWantsPremium, PersonWantsAnything, PersonBite, OrdersAccounted
<1>7. ASSUME NEW g \in Group, GroupFinish(g)
      PROVE  OrdersAccounted'
  BY <1>7 DEF GroupFinish, OrdersAccounted
<1>8. CASE UNCHANGED vars
  BY <1>8 DEF vars, OrdersAccounted
<1>9. QED
  BY <1>2, <1>3, <1>4, <1>5, <1>6, <1>7, <1>8 DEF Next

LEMMA InitOrders == Init => OrdersAccounted
<1> SUFFICES ASSUME Init PROVE OrdersAccounted
  OBVIOUS
<1>1. sem["PREMIUM_FREE"] = PremiumQueueSize /\ Len(orders) = 0
  BY SemaphoreNames DEF Init
<1>2. QED
  BY <1>1, SizesAssumption DEF OrdersAccounted

(* The premium queue never holds more orders than SEM_PREMIUM_FREE allows. *)
THEOREM PremiumQueueBounded == Spec => []OrdersAccounted
<1>1. Init => TypeOK /\ Control /\ OrdersAccounted
  BY InitControl, InitOrders
<1>2. TypeOK /\ Control /\ OrdersAccounted /\ [Next]_vars
        => (TypeOK /\ Control /\ OrdersAccounted)'
  BY NextControl, NextOrders
<1>3. QED
  BY <1>1, <1>2, PTL DEF Spec

---------------------------------------------------------------------------
(* Bills.  A person stops only when the appetite of the group is gone, and *)
(* it does not come back.                                                  *)
Sated == \A p \in Person : pc[p] = "done" => dishesToEat[GroupOf[p]] = 0

LEMMA NextSettled ==
  ASSUME TypeOK, Control, Sated, BillSettled, [Next]_vars
  PROVE  Sated' /\ BillSettled'
<1> USE StaffApart, PartiesAssumption
<1> USE DEF locals, counters, groupVars
<1>1. CASE ChefStep
  <2>1. /\ \A p \in Person : pc'[p] = pc[p]
        /\ dishesToEat' = dishesToEat /\ phase' = phase
    BY <1>1 DEF ChefStep, ChefTakeOrder, ChefCookNormal, ChefWaitSlot, ChefLock, ChefScan,
                ChefPut, ChefDrop, ChefSpeed, Goto, TypeOK
  <2>2. QED
    BY <2>1 DEF Sated, BillSettled
<1>2. CASE RotorStep
  <2>1. /\ \A p \in Person : pc'[p] = pc[p]
        /\ dishesToEat' = dishesToEat /\ phase' = phase
    BY <1>2 DEF RotorStep, RotorLock, Rotate, Goto, TypeOK
  <2>2. QED
    BY <2>1 DEF Sated, BillSettled
<1>3. CASE ServiceStep
  <2>1. /\ \A p \in Person : pc'[p] = pc[p]
        /\ dishesToEat' = dishesToEat
    BY <1>3 DEF ServiceStep, ServiceStop, ServiceRecv, ServiceLockState, ServiceLockBelt,
                ServiceClean, Goto, TypeOK
  <2>2. \A g \in Group : phase'[g] = phase[g] \/ phase[g] = "paying"
    <3>1. CASE ServiceClean
      BY <3>1 DEF ServiceClean, Control, At, TypeOK
    <3>2. CASE ~ServiceClean
      BY <1>3, <3>2 DEF ServiceStep, ServiceStop, ServiceRecv, ServiceLockState, ServiceLockBelt
    <3>3. QED
      BY <3>1, <3>2
  <2>3. QED
    BY <2>1, <2>2 DEF Sated, BillSettled
<1>4. ASSUME NEW p \in Person, PersonStep(p)
      PROVE  Sated' /\ BillSettled'
  <2> DEFINE g == GroupOf[p]
  <2>1. /\ phase' = phase /\ pc[p] # "done" /\ g \in Group /\ ~Flagged(p)
        /\ \A q \in Person : q # p => pc'[q] = pc[q]
    BY <1>4, NobodyFlagged
       DEF PersonStep, PersonStop, PersonWantsPremium, PersonWantsAnything, PersonOrder,
           PersonWaitItem, PersonLock, PersonBite, PersonTake, PersonMiss, Goto, At, TypeOK
  <2>2. phase[g] = "eating"
    BY <2>1 DEF BillSettled
  <2>3. CASE PersonStop(p)
    <3>1. dishesToEat' = dishesToEat /\ dishesToEat[g] = 0
      BY <2>1, <2>3 DEF PersonStop
    <3>2. QED
      BY <2>1, <2>2, <3>1 DEF Sated, BillSettled
  <2>4. CASE PersonBite(p)
    <3>1. dishesToEat[g] > 0 /\ \A h \in Group : h # g => dishesToEat'[h] = dishesToEat[h]
      BY <2>1, <2>4 DEF PersonBite, TypeOK
    <3>2. pc'[p] # "done"
      BY <2>4 DEF PersonBite, Goto, TypeOK
    <3>3. \A q \in Person : GroupOf[q] = g => pc'[q] # "done"
      <4>1. dishesToEat[g] # 0
        BY <3>1
      <4>2. \A q \in Person : GroupOf[q] = g => pc[q] # "done"
        BY <4>1 DEF Sated
      <4>3. QED
        BY <2>1, <3>2, <4>2
    <3>4. QED
      BY <2>1, <2>2, <3>1, <3>3 DEF Sated, BillSettled
  <2>5. CASE ~PersonStop(p) /\ ~PersonBite(p)
    <3>1. dishesToEat' = dishesToEat
      BY <1>4, <2>5 DEF PersonStep, PersonWantsPremium, PersonWantsAnything, PersonOrder,
                        PersonWaitItem, PersonLock, PersonTake, PersonMiss
    <3>2. pc'[p] # "done"
      BY <1>4, <2>1, <2>5
         DEF PersonStep, PersonWantsPremium, PersonWantsAnything, PersonOrder,
             PersonWaitItem, PersonLock, PersonTake, PersonMiss, Goto, TypeOK
    <3>3. QED
      BY <2>1, <2>2, <3>1, <3>2 DEF Sated, BillSettled
  <2>6. QED
    BY <2>3, <2>4, <2>5
<1>5. ASSUME NEW g \in Group, GroupFinish(g)
      PROVE  Sated' /\ BillSettled'
  <2>1. pc' = pc /\ dishesToEat' = dishesToEat /\ \A h \in Group : h # g => phase'[h] = phase[h]
    BY <1>5 DEF GroupFinish, TypeOK
  <2>2. dishesToEat[g] = 0 /\ \A p \in Person : GroupOf[p] = g => pc[p] = "done"
    BY <1>5 DEF GroupFinish, At, Sated
  <2>3. QED
    BY <2>1, <2>2 DEF Sated, BillSettled
<1>6. CASE UNCHANGED vars
  BY <1>6 DEF vars, Sated, BillSettled
<1>7. QED
  BY <1>1, <1>2, <1>3, <1>4, <1>5, <1>6 DEF Next

LEMMA InitSettled == Init => Sated /\ BillSettled
<1> SUFFICES ASSUME Init PROVE Sated /\ BillSettled
  OBVIOUS
<1>1. (\A p \in Person : pc[p] = "loop") /\ (\A g \in Group : phase[g] = "eating")
  BY StaffApart DEF Init
<1>2. QED
  BY <1>1 DEF Sated, BillSettled

(* Nobody of a group eats or orders once its bill has been sent.           *)
THEOREM BillsAreFinal == Spec => []BillSettled
<1>1. Init => TypeOK /\ Control /\ Sated /\ BillSettled
  BY InitControl, InitSettled
<1>2. TypeOK /\ Control /\ Sated /\ BillSettled /\ [Next]_vars
        => (TypeOK /\ Control /\ Sated /\ BillSettled)'
  BY NextControl, NextSettled
<1>3. QED
  BY <1>1, <1>2, PTL DEF Spec

---------------------------------------------------------------------------
(* Reserved dishes.                                                        *)
LEMMA ReservedKept ==
  ASSUME Inv, [Next]_vars, NEW g \in Group,
         Cardinality(Reserved(g))' < Cardinality(Reserved(g))
  PROVE  \/ \E p \in Person : GroupOf[p] = g /\ pc[p] = "take"
         \/ pc["service"] = "clean" /\ client = g
<1> DEFINE D == {d \in Dish : d.target = g}
<1>1. SlotSets /\ SlotSets'
  BY SlotSetsNow, SlotSetsNext, NextInv DEF Inv
<1>2. Reserved(g) = Where(belt, D) /\ Reserved(g)' = Where(belt', D) /\ D \in SUBSET Dish
  BY <1>1 DEF SlotSets
<1>3. \A d \in Dish : d \in D <=> d.target = g
  OBVIOUS
<1>4. Cardinality(Where(belt, D)) \in Nat /\ Cardinality(Where(belt', D)) \in Nat
  BY SlotsFinite DEF Where
<1>5. Cardinality(Where(belt', D)) < Cardinality(Where(belt, D))
  BY <1>2
<1> HIDE DEF D
<1>6. CASE ChefPut
  BY <1>2, <1>4, <1>5, <1>6, PutMoves
<1>7. CASE Rotate
  BY <1>4, <1>5, <1>7, TurnMoves
<1>8. CASE ServiceClean
  <2>1. client \in Group /\ pc["service"] = "clean"
    BY <1>2, <1>8, ClearMoves DEF ServiceClean, At
  <2>2. CASE client = g
    BY <2>1, <2>2
  <2>3. CASE client # g
    <3>1. Where(belt, D) \cap Reserved(client) = {}
      BY <1>2, <2>3 DEF Reserved
    <3>2. Cardinality(Where(belt', D)) = Cardinality(Where(belt, D)) - 0
      BY <1>2, <1>8, <3>1, ClearMoves, FS_EmptySet
    <3>3. QED
      BY <1>4, <1>5, <3>2
  <2>4. QED
    BY <2>2, <2>3
<1>9. ASSUME NEW p \in Person, PersonTake(p)
      PROVE  GroupOf[p] = g /\ pc[p] = "take"
  <2>1. /\ belt[slot[p]] \in Dish /\ belt[slot[p]].target \in {Anyone, GroupOf[p]}
        /\ Cardinality(Where(belt', D))
             = Cardinality(Where(belt, D)) - (IF belt[slot[p]] \in D THEN 1 ELSE 0)
    BY <1>2, <1>9, TakeMoves
  <2>2. belt[slot[p]] \in D
    BY <1>4, <1>5, <2>1
  <2>3. g # Anyone
    BY ValuesAssumption
  <2>4. QED
    BY <1>3, <1>9, <2>1, <2>2, <2>3 DEF PersonTake, At
<1>10. CASE ~ChefPut /\ ~Rotate /\ ~ServiceClean /\ \A p \in Person : ~PersonTake(p)
  BY <1>4, <1>5, <1>10, BeltUntouched
<1>11. QED
  BY <1>6, <1>7, <1>8, <1>9, <1>10

(* What is cooked for a group goes to that group, or is cleared after it.  *)
THEOREM ReservedForItsGroup == Spec => PremiumReserved
<1>1. Inv /\ [Next]_vars => Inv'
  BY NextInv
<1>2. Inv /\ [Next]_vars =>
        [\A g \in Group : Cardinality(Reserved(g))' < Cardinality(Reserved(g)) =>
           \/ \E p \in Person : GroupOf[p] = g /\ pc[p] = "take"
           \/ pc["service"] = "clean" /\ client = g]_vars
  BY ReservedKept
<1>3. QED
  BY InitInv, <1>1, <1>2, PTL DEF Spec, PremiumReserved

---------------------------------------------------------------------------
(* Items.  A person who has taken an item holds it until they give it back *)
(* or take a dish.                                                         *)
Holders == {p \in Person : pc[p] \in {"lock", "scan", "take"}}

LEMMA HoldersFinite == Holders \in SUBSET Person /\ IsFiniteSet(Holders) /\ Cardinality(Holders) \in Nat
<1>1. Holders \in SUBSET Person /\ IsFiniteSet(Person)
  BY PartiesAssumption DEF Holders
<1>2. IsFiniteSet(Holders)
  BY <1>1, FS_Subset
<1>3. QED
  BY <1>1, <1>2, FS_CardinalityType

(* A step of one person changes the holders by that person at most.        *)
LEMMA HoldersMoved ==
  ASSUME TypeOK, NEW p \in Person, NEW l \in Place, Goto(p, l)
  PROVE  Cardinality(Holders') = Cardinality(Holders)
           + (IF l \in {"lock", "scan", "take"} THEN 1 ELSE 0) - (IF p \in Holders THEN 1 ELSE 0)
<1>1. p \in Thread /\ Person \subseteq Thread
  BY DEF Thread
<1>2. pc'[p] = l /\ \A u \in Thread : u # p => pc'[u] = pc[u]
  BY <1>1, Moved
<1>3. CASE l \in {"lock", "scan", "take"} /\ p \notin Holders
  <2>1. Holders' = Holders \cup {p}
    BY <1>1, <1>2, <1>3 DEF Holders
  <2>2. Cardinality(Holders \cup {p}) = Cardinality(Holders) + 1
    BY <1>3, HoldersFinite, FS_AddElement
  <2>3. QED
    BY <1>3, <2>1, <2>2, HoldersFinite
<1>4. CASE l \notin {"lock", "scan", "take"} /\ p \in Holders
  <2>1. Holders' = Holders \ {p}
    BY <1>1, <1>2, <1>4 DEF Holders
  <2>2. QED
    BY <1>4, <2>1, HoldersFinite, FS_RemoveElement
<1>5. CASE l \in {"lock", "scan", "take"} <=> p \in Holders
  <2>1. Holders' = Holders
    BY <1>1, <1>2, <1>5 DEF Holders
  <2>2. QED
    BY <1>5, <2>1, HoldersFinite
<1>6. QED
  BY <1>3, <1>4, <1>5

LEMMA NextItems ==
  ASSUME Inv, ItemsCoverDishes, [Next]_vars
  PROVE  ItemsCoverDishes'
<1> USE StaffApart, SemaphoreNames
<1>1. TypeOK /\ Control /\ SlotSets /\ SlotSets'
  BY SlotSetsNow, SlotSetsNext, NextInv DEF Inv
<1>2. /\ Occupied = Where(belt, Dish) /\ Occupied' = Where(belt', Dish)
      /\ sem \in [Semaphore -> Nat] /\ sem["ITEMS"] \in Nat
      /\ Cardinality(Occupied) \in Nat /\ Cardinality(Holders) \in Nat
  BY <1>1, SlotsFinite, HoldersFinite DEF SlotSets, TypeOK, Occupied
<1>3. sem["ITEMS"] + Cardinality(Holders) >= Cardinality(Occupied)
  BY DEF ItemsCoverDishes, Holders
<1> SUFFICES sem'["ITEMS"] + Cardinality(Holders') >= Cardinality(Occupied')
  BY DEF ItemsCoverDishes, Holders
<1>4. CASE ChefStep
  <2>1. Holders' = Holders
    BY <1>1, <1>4 DEF ChefStep, ChefTakeOrder, ChefCookNormal, ChefWaitSlot, ChefLock, ChefScan,
                      ChefPut, ChefDrop, ChefSpeed, Goto, TypeOK, Holders
  <2>2. CASE ChefPut
    <3>1. sem'["ITEMS"] = sem["ITEMS"] + 1
      BY <1>2, <2>2 DEF ChefPut
    <3>2. Cardinality(Occupied') = Cardinality(Occupied) + 1
      BY <1>2, <2>2, PutMoves
    <3>3. QED
      BY <1>2, <1>3, <2>1, <3>1, <3>2
  <2>3. CASE ~ChefPut
    <3>1. belt' = belt
      BY <1>4, <2>3 DEF ChefStep, ChefTakeOrder, ChefCookNormal, ChefWaitSlot, ChefLock, ChefScan,
                        ChefDrop, ChefSpeed
    <3>2. sem'["ITEMS"] = sem["ITEMS"]
      <4>1. CASE ChefWaitSlot
        BY <1>1, <4>1, Taken DEF ChefWaitSlot
      <4>2. CASE ChefLock
        BY <1>1, <4>2, Taken DEF ChefLock
      <4>3. CASE ChefTakeOrder \/ ChefDrop
        BY <1>2, <4>3 DEF ChefTakeOrder, ChefDrop, V
      <4>4. CASE ChefSpeed
        BY <1>1, <4>4, NobodyFlagged DEF ChefSpeed
      <4>5. QED
        BY <1>4, <2>3, <4>1, <4>2, <4>3, <4>4 DEF ChefStep, ChefCookNormal, ChefScan
    <3>3. QED
      BY <1>2, <1>3, <2>1, <3>1, <3>2
  <2>4. QED
    BY <2>2, <2>3
<1>5. CASE RotorStep
  <2>1. Holders' = Holders
    BY <1>1, <1>5 DEF RotorStep, RotorLock, Rotate, Goto, TypeOK, Holders
  <2>2. CASE RotorLock
    <3>1. sem'["ITEMS"] = sem["ITEMS"] /\ belt' = belt
      BY <1>1, <2>2, Taken DEF RotorLock
    <3>2. QED
      BY <1>2, <1>3, <2>1, <3>1
  <2>3. CASE Rotate
    <3>1. sem'["ITEMS"] = sem["ITEMS"]
      BY <1>2, <2>3 DEF Rotate, V
    <3>2. Cardinality(Occupied') = Cardinality(Occupied)
      BY <1>2, <2>3, TurnMoves
    <3>3. QED
      BY <1>2, <1>3, <2>1, <3>1, <3>2
  <2>4. QED
    BY <1>5, <2>2, <2>3 DEF RotorStep
<1>6. CASE ServiceStep
  <2>1. Holders' = Holders
    BY <1>1, <1>6 DEF ServiceStep, ServiceStop, ServiceRecv, ServiceLockState, ServiceLockBelt,
                      ServiceClean, Goto, TypeOK, Holders
  <2>2. CASE ServiceClean
    <3>1. sem'["ITEMS"] = sem["ITEMS"]
      BY <1>2, <2>2 DEF ServiceClean
    <3>2. Cardinality(Occupied') = Cardinality(Occupied) - Cardinality(Occupied \cap Reserved(client))
      BY <1>2, <2>2, ClearMoves
    <3>3. Cardinality(Occupied \cap Reserved(client)) \in Nat
      BY SlotsFinite DEF Occupied
    <3>4. QED
      BY <1>2, <1>3, <2>1, <3>1, <3>2, <3>3
  <2>3. CASE ~ServiceClean
    <3>1. belt' = belt
      BY <1>6, <2>3 DEF ServiceStep, ServiceStop, ServiceRecv, ServiceLockState, ServiceLockBelt
    <3>2. sem'["ITEMS"] = sem["ITEMS"]
      <4>1. CASE ServiceLockState
        BY <1>1, <4>1, Taken DEF ServiceLockState
      <4>2. CASE ServiceLockBelt
        BY <1>1, <4>2, Taken DEF ServiceLockBelt
      <4>3. QED
        BY <1>6, <2>3, <4>1, <4>2 DEF ServiceStep, ServiceStop, ServiceRecv
    <3>3. QED
      BY <1>2, <1>3, <2>1, <3>1, <3>2
  <2>4. QED
    BY <2>2, <2>3
<1>7. ASSUME NEW p \in Person, PersonStep(p)
      PROVE  sem'["ITEMS"] + Cardinality(Holders') >= Cardinality(Occupied')
  <2>0. ~Flagged(p)
    BY <1>1, NobodyFlagged
  <2> USE DEF Place, At
  <2>1. CASE PersonWaitItem(p)
    <3>1. sem'["ITEMS"] = sem["ITEMS"] - 1 /\ belt' = belt /\ Goto(p, "lock") /\ p \notin Holders
      BY <1>2, <2>0, <2>1 DEF PersonWaitItem, Holders
    <3>2. Cardinality(Holders') = Cardinality(Holders) + 1
      BY <1>1, <1>2, <3>1, HoldersMoved
    <3>3. QED
      BY <1>2, <1>3, <3>1, <3>2
  <2>2. CASE PersonLock(p)
    <3>1. P(p, "BELT") /\ belt' = belt /\ Goto(p, "scan") /\ p \in Holders
      BY <2>0, <2>2 DEF PersonLock, Holders
    <3>2. Cardinality(Holders') = Cardinality(Holders)
      BY <1>1, <1>2, <3>1, HoldersMoved
    <3>3. sem'["ITEMS"] = sem["ITEMS"]
      BY <1>1, <3>1, Taken
    <3>4. QED
      BY <1>2, <1>3, <3>1, <3>2, <3>3
  <2>3. CASE PersonBite(p)
    <3>1. sem' = sem /\ belt' = belt /\ Goto(p, "take") /\ p \in Holders
      BY <2>3 DEF PersonBite, Holders
    <3>2. Cardinality(Holders') = Cardinality(Holders)
      BY <1>1, <1>2, <3>1, HoldersMoved
    <3>3. QED
      BY <1>2, <1>3, <3>1, <3>2
  <2>4. CASE PersonTake(p)
    <3>1. sem'["ITEMS"] = sem["ITEMS"] /\ Goto(p, "loop") /\ p \in Holders
      BY <1>2, <2>4 DEF PersonTake, Holders
    <3>2. Cardinality(Holders') = Cardinality(Holders) - 1
      BY <1>1, <1>2, <3>1, HoldersMoved
    <3>3. Cardinality(Occupied') = Cardinality(Occupied) - 1
      BY <1>2, <2>4, TakeMoves
    <3>4. QED
      BY <1>2, <1>3, <3>1, <3>2, <3>3
  <2>5. CASE PersonMiss(p)
    <3>1. sem'["ITEMS"] = sem["ITEMS"] + 1 /\ belt' = belt /\ Goto(p, "loop") /\ p \in Holders
      BY <1>2, <2>5 DEF PersonMiss, Holders
    <3>2. Cardinality(Holders') = Cardinality(Holders) - 1
      BY <1>1, <1>2, <3>1, HoldersMoved
    <3>3. QED
      BY <1>2, <1>3, <3>1, <3>2
  <2>6. CASE PersonStop(p) \/ PersonWantsPremium(p) \/ PersonWantsAnything(p) \/ PersonOrder(p)
    <3>1. PICK l \in {"done", "order", "items"} : Goto(p, l)
      BY <2>0, <2>6 DEF PersonStop, PersonWantsPremium, PersonWantsAnything, PersonOrder
    <3>2. p \notin Holders /\ belt' = belt /\ sem'["ITEMS"] = sem["ITEMS"]
      BY <1>2, <2>0, <2>6
         DEF PersonStop, PersonWantsPremium, PersonWantsAnything, PersonOrder, Holders
    <3>3. Cardinality(Holders') = Cardinality(Holders)
      BY <1>1, <1>2, <3>1, <3>2, HoldersMoved
    <3>4. QED
      BY <1>2, <1>3, <3>2, <3>3
  <2>7. QED
    BY <1>7, <2>1, <2>2, <2>3, <2>4, <2>5, <2>6 DEF PersonStep
<1>8. ASSUME NEW g \in Group, GroupFinish(g)
      PROVE  sem'["ITEMS"] + Cardinality(Holders') >= Cardinality(Occupied')
  BY <1>2, <1>3, <1>8 DEF GroupFinish, Holders
<1>9. CASE UNCHANGED vars
  BY <1>2, <1>3, <1>9 DEF vars, Holders
<1>10. QED
  BY <1>4, <1>5, <1>6, <1>7, <1>8, <1>9 DEF Next

LEMMA InitItems == Init => ItemsCoverDishes
<1> SUFFICES ASSUME Init PROVE ItemsCoverDishes
  OBVIOUS
<1>1. sem["ITEMS"] = 0 /\ Occupied = {}
  BY SemaphoreNames DEF Init, Occupied
<1>2. QED
  BY <1>1, FS_EmptySet, HoldersFinite DEF ItemsCoverDishes, Holders

(* No dish is without an item, so nobody waits for an item while a dish is *)
(* there that no semaphore announces.                                      *)
THEOREM EveryDishAnnounced == Spec => []ItemsCoverDishes
<1>1. Init => Inv /\ ItemsCoverDishes
  BY InitInv, InitItems
<1>2. Inv /\ ItemsCoverDishes /\ [Next]_vars => (Inv /\ ItemsCoverDishes)'
  BY NextInv, NextItems
<1>3. QED
  BY <1>1, <1>2, PTL DEF Spec
=============================================================================
