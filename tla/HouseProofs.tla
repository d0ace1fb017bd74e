---------------------------- MODULE HouseProofs ----------------------------
(***************************************************************************)
(* What the seats, the line and the guest list guarantee for every house   *)
(* and crowd: on top of the invariant of SeatingProofs, the account of the *)
(* seats, the line that never waits before an empty house, the order in    *)
(* which groups are seated, the refinement of GuestList, and what of all   *)
(* this a late manager leaves true.                                        *)
(***************************************************************************)
EXTENDS SeatingProofs, SeatingList, TallyProofs

---------------------------------------------------------------------------
(* Groups and tables are finitely many, and so are persons and seats.      *)
LEMMA Sizes == /\ IsFiniteSet(Group) /\ \A g \in Group : Size[g] \in Nat
               /\ IsFiniteSet(Table) /\ \A t \in Table : Capacity[t] \in Nat
<1>1. IsFiniteSet(0 .. TableCount - 1)
  <2>1. 0 \in Int /\ TableCount - 1 \in Int
    BY HouseAssumption
  <2>2. QED
    BY <2>1, FS_Interval
<1>2. QED
  BY <1>1, GuestsAssumption, HouseAssumption DEF Table

(* The persons of a group are counted once, whoever else is counted.       *)
LEMMA PeopleCount ==
  ASSUME NEW S \in SUBSET Group
  PROVE  /\ Cardinality(People(S)) \in Nat
         /\ \A g \in Group \ S : Cardinality(People(S \cup {g})) = Cardinality(People(S)) + Size[g]
         /\ \A g \in S : Cardinality(People(S \ {g})) = Cardinality(People(S)) - Size[g]
<1>1. IsFiniteSet(S) /\ \A g \in Group \ S : IsFiniteSet(S \cup {g})
  BY Sizes, FS_Subset, FS_AddElement
<1>2. \A T : People(T) = Numbered(T, Size)
  BY DEF People, Numbered
<1>3. Cardinality(People(S)) \in Nat
  <2>1. \A g \in S : Size[g] \in Nat
    BY Sizes
  <2>2. QED
    BY <1>1, <1>2, <2>1, NumberedFinite
<1>4. ASSUME NEW g \in S
      PROVE  Cardinality(People(S \ {g})) = Cardinality(People(S)) - Size[g]
  <2>1. \A h \in S : Size[h] \in Nat
    BY Sizes
  <2>2. Cardinality(Numbered(S, Size)) = Cardinality(Numbered(S \ {g}, Size)) + Size[g]
    BY <1>1, <2>1, NumberedMore
  <2>3. Cardinality(Numbered(S \ {g}, Size)) \in Nat
    <3>1. IsFiniteSet(S \ {g}) /\ \A h \in S \ {g} : Size[h] \in Nat
      BY <1>1, <2>1, FS_RemoveElement
    <3>2. QED
      BY <3>1, NumberedFinite
  <2>4. QED
    BY <1>2, <2>1, <2>2, <2>3
<1>5. ASSUME NEW g \in Group \ S
      PROVE  Cardinality(People(S \cup {g})) = Cardinality(People(S)) + Size[g]
  <2>1. \A h \in S \cup {g} : Size[h] \in Nat
    BY Sizes
  <2>2. (S \cup {g}) \ {g} = S
    OBVIOUS
  <2>3. Cardinality(Numbered(S \cup {g}, Size)) = Cardinality(Numbered((S \cup {g}) \ {g}, Size)) + Size[g]
    BY <1>1, <2>1, NumberedMore
  <2>4. QED
    BY <1>2, <2>2, <2>3
<1>6. QED
  BY <1>3, <1>4, <1>5

LEMMA TablesFilled == TypeOK => UNION {slots[t] : t \in Table} = Seated
  BY DEF TypeOK, Seated, TablesOf

---------------------------------------------------------------------------
(* A step leaves the house as it is, or seats a group, or clears its seats. *)
TakesSeats(g, t) == /\ g \notin Seated /\ Fits(g, t)
                    /\ slots' = [slots EXCEPT ![t] = @ \cup {g}]
                    /\ occupiedSeats' = [occupiedSeats EXCEPT ![t] = @ + Size[g]]
                    /\ guests' = guests + Size[g]
FreesSeats(g, t) == /\ g \in slots[t]
                    /\ slots' = [slots EXCEPT ![t] = @ \ {g}]
                    /\ occupiedSeats' = [occupiedSeats EXCEPT ![t] = @ - Size[g]]
                    /\ guests' = guests - Size[g]

LEMMA Seating1 ==
  ASSUME Inv, NEW g \in Group, NEW there, g \notin Seated, Seat(g, there)
  PROVE  TableFor(g) \in Table /\ TakesSeats(g, TableFor(g))
<1>1. TableFor(g) \in Table /\ Fits(g, TableFor(g))
  BY TableFound DEF Seat
<1>2. QED
  BY <1>1 DEF Seat, TakesSeats

LEMMA HouseSteps ==
  ASSUME Inv, [Next]_vars
  PROVE  /\ UNCHANGED opened
         /\ \/ UNCHANGED house
            \/ \E g \in Group, t \in Table : TakesSeats(g, t)
            \/ \E g \in Group, t \in Table : FreesSeats(g, t)
<1> DEFINE Q == \/ UNCHANGED house
                \/ \E g \in Group, t \in Table : TakesSeats(g, t)
                \/ \E g \in Group, t \in Table : FreesSeats(g, t)
<1>1. ASSUME NEW g \in Group, ClientFork(g) \/ GroupStep(g) PROVE UNCHANGED opened /\ UNCHANGED house
  BY <1>1 DEF ClientFork, GroupStep, GroupEnter, GroupAsk, GroupSit, GroupPay, staff
<1>2. ASSUME \/ ClientCount \/ ClientWake \/ ServiceRecv \/ ServiceHold \/ ServiceOpenGate
             \/ ServicePassGate \/ ServiceQueue \/ ServiceSeatNobody \/ ServiceReply
             \/ UNCHANGED vars
      PROVE  UNCHANGED opened /\ UNCHANGED house
  BY <1>2 DEF ClientCount, ClientWake, ServiceRecv, ServiceHold, ServiceOpenGate, ServicePassGate,
              ServiceQueue, ServiceSeatNobody, ServiceReply, staff, vars
<1>3. ASSUME ServiceSeatNow PROVE UNCHANGED opened /\ Q
  <2>1. request \in Asks /\ UNCHANGED opened
        /\ \E there : Seat(request.group, there)
    BY <1>3 DEF ServiceSeatNow, Inv, Control, staff
  <2>2. request.group \in Group /\ AtDoor = {request.group}
    BY <2>1, Hands
  <2>3. request.group \notin Seated
    BY <2>2 DEF Inv, Places
  <2>4. QED
    BY <2>1, <2>2, <2>3, Seating1
<1>4. ASSUME NEW c \in Class, ServiceSeatWaiting(c) PROVE UNCHANGED opened /\ Q
  <2> DEFINE i == Seatable(c)
  <2>1. TypeOK /\ NoDuplicates
    BY DEF Inv
  <2>2. i \in DOMAIN line[c]
    <3>1. Seatable(c) \in 0 .. Len(line[c]) /\ Seatable(c) > 0 /\ line[c] \in Seq(Group)
      BY <1>4, <2>1, First DEF ServiceSeatWaiting, TypeOK
    <3>2. QED
      BY <3>1, LenProperties
  <2>3. /\ line' = [line EXCEPT ![c] = RemoveAt(@, i)] /\ UNCHANGED opened
        /\ \E there : Seat(line[c][i], there)
    BY <1>4 DEF ServiceSeatWaiting, staff
  <2>4. line[c][i] \in Queued /\ line[c][i] \in Group
    <3> HIDE DEF i
    <3> QED
      BY <2>1, <2>2, <2>3, Calling
  <2>5. line[c][i] \notin Seated
    BY <2>4 DEF Inv, Places
  <2> HIDE DEF i
  <2>6. QED
    BY <2>3, <2>4, <2>5, Seating1
<1>5. ASSUME ServiceBill PROVE UNCHANGED opened /\ Q
  <2>1. request \in Bills
    BY <1>5 DEF ServiceBill, Inv, Control
  <2>2. request.group \in Group
    BY <2>1, Hands
  <2>3. UNCHANGED opened /\ \E t \in Table : FreesSeats(request.group, t)
    BY <1>5 DEF ServiceBill, FreesSeats, staff
  <2>4. QED
    BY <2>2, <2>3
<1>6. QED
  <2> HIDE DEF Q
  <2>1. UNCHANGED opened /\ Q
    <3>1. UNCHANGED house => Q
      BY DEF Q
    <3>2. QED
      BY <1>1, <1>2, <1>3, <1>4, <1>5, <3>1 DEF Next, ServiceStep, Quiet
  <2>2. QED
    BY <2>1 DEF Q

---------------------------------------------------------------------------
(* The seats taken at every table and in the house are those of the        *)
(* persons there, of whom there are none before the manager has opened.    *)
Accounts ==
  /\ ~opened => Seated = {}
  /\ \A t \in Table : /\ occupiedSeats[t] = Cardinality(People(slots[t]))
                      /\ occupiedSeats[t] <= Capacity[t]
                      /\ Capacity[t] = 1 => slots[t] \cap Vip = {}
  /\ guests = Cardinality(People(Seated))

LEMMA StartAccounts ==
  ASSUME NEW open \in BOOLEAN, Start(open)
  PROVE  Accounts
<1>1. /\ slots = [t \in Table |-> {}] /\ occupiedSeats = [t \in Table |-> 0]
      /\ guests = 0
  BY DEF Start
<1>2. Seated = {}
  BY <1>1 DEF Seated, TablesOf
<1>3. Cardinality(People({})) = 0
  BY FS_EmptySet DEF People
<1>4. \A t \in Table : Capacity[t] \in Nat
  BY Sizes
<1>5. QED
  BY <1>1, <1>2, <1>3, <1>4 DEF Accounts

(* Nobody fits a table that the manager has not set up.                    *)
LEMMA FitsWhenOpen ==
  ASSUME TypeOK, Accounts, NEW g \in Group, NEW t \in Table, Fits(g, t)
  PROVE  opened /\ Seats(t) = Capacity[t]
<1>1. SUFFICES ASSUME ~opened PROVE FALSE
  BY DEF Seats, TypeOK
<1>2. slots[t] = {}
  BY <1>1 DEF Accounts, Seated, TablesOf, TypeOK
<1>3. occupiedSeats[t] = 0
  BY <1>2, FS_EmptySet DEF Accounts, People
<1>4. 0 - 0 >= Size[g]
  BY <1>1, <1>3 DEF Fits, Seats
<1>5. QED
  BY <1>4, GuestsAssumption

LEMMA NextAccounts == Inv /\ Accounts /\ [Next]_vars => Accounts'
<1>1. SUFFICES ASSUME Inv, Accounts, [Next]_vars PROVE Accounts'
  OBVIOUS
<1>2. TypeOK /\ Places /\ opened' = opened
  BY <1>1, HouseSteps DEF Inv
<1>3. /\ \A t \in Table : Capacity[t] \in Nat /\ slots[t] \subseteq Group
      /\ Seated \subseteq Group /\ \A g \in Group : Size[g] \in Nat
  BY <1>2, Sizes DEF TypeOK, Seated
<1>4. CASE UNCHANGED house
  <2>1. Seated' = Seated
    BY <1>4, Kept DEF house
  <2>2. QED
    BY <1>1, <1>2, <1>4, <2>1 DEF Accounts, house
<1>5. ASSUME NEW g \in Group, NEW t \in Table, TakesSeats(g, t)
      PROVE  Accounts'
  <2>1. Seated' = Seated \cup {g} /\ g \notin Seated /\ g \notin slots[t]
    BY <1>2, <1>5, Sitting DEF TakesSeats, Seated, TablesOf
  <2>2. /\ \A u \in Table : slots'[u] = IF u = t THEN slots[t] \cup {g} ELSE slots[u]
        /\ \A u \in Table : occupiedSeats'[u] = IF u = t THEN occupiedSeats[t] + Size[g] ELSE occupiedSeats[u]
        /\ guests' = guests + Size[g]
    BY <1>2, <1>5 DEF TakesSeats, TypeOK
  <2>3. guests' = Cardinality(People(Seated'))
    BY <1>1, <1>3, <2>1, <2>2, PeopleCount DEF Accounts
  <2>4. occupiedSeats'[t] = Cardinality(People(slots'[t]))
    BY <1>1, <1>3, <2>1, <2>2, PeopleCount DEF Accounts
  <2>5. /\ Capacity[t] - occupiedSeats[t] >= Size[g]
        /\ ~(g \in Vip /\ Capacity[t] = 1)
        /\ opened
    BY <1>1, <1>2, <1>5, FitsWhenOpen DEF TakesSeats, Fits
  <2>6. occupiedSeats'[t] <= Capacity[t]
    BY <1>2, <1>3, <2>2, <2>5 DEF TypeOK
  <2>7. Capacity[t] = 1 => slots'[t] \cap Vip = {}
    BY <1>1, <2>2, <2>5 DEF Accounts
  <2>8. QED
    BY <1>1, <1>2, <2>2, <2>3, <2>4, <2>5, <2>6, <2>7 DEF Accounts
<1>6. ASSUME NEW g \in Group, NEW t \in Table, FreesSeats(g, t)
      PROVE  Accounts'
  <2>1. Seated' = Seated \ {g} /\ g \in Seated /\ g \in slots[t]
    BY <1>2, <1>6, Rising DEF FreesSeats
  <2>2. /\ \A u \in Table : slots'[u] = IF u = t THEN slots[t] \ {g} ELSE slots[u]
        /\ \A u \in Table : occupiedSeats'[u] = IF u = t THEN occupiedSeats[t] - Size[g] ELSE occupiedSeats[u]
        /\ guests' = guests - Size[g]
    BY <1>2, <1>6 DEF FreesSeats, TypeOK
  <2>3. guests' = Cardinality(People(Seated'))
    BY <1>1, <1>3, <2>1, <2>2, PeopleCount DEF Accounts
  <2>4. occupiedSeats'[t] = Cardinality(People(slots'[t]))
    BY <1>1, <1>3, <2>1, <2>2, PeopleCount DEF Accounts
  <2>5. occupiedSeats'[t] <= Capacity[t]
    BY <1>1, <1>2, <1>3, <2>2 DEF TypeOK, Accounts
  <2>6. Capacity[t] = 1 => slots'[t] \cap Vip = {}
    BY <1>1, <2>2 DEF Accounts
  <2>7. QED
    BY <1>1, <1>2, <2>1, <2>2, <2>3, <2>4, <2>5, <2>6 DEF Accounts
<1>7. QED
  BY <1>1, <1>4, <1>5, <1>6, HouseSteps

LEMMA SeatsTaken == Inv /\ Accounts => SeatsAccounted
  BY TablesFilled DEF Inv, Accounts, SeatsAccounted

(* The seats taken at a table and in the house are those of the groups the *)
(* service has put there, though counted one by one as groups come and go; *)
(* no table is overfull, and no VIP sits at a table for one.               *)
THEOREM SeatsAdmitOnlyWhoFits == Spec => []SeatsAccounted
<1>1. Init => Inv /\ Accounts
  BY InitInv, StartAccounts DEF Init
<1>2. Inv /\ Accounts /\ [Next]_vars => (Inv /\ Accounts)'
  BY NextInv, NextAccounts
<1>3. QED
  BY <1>1, <1>2, SeatsTaken, PTL DEF Spec

---------------------------------------------------------------------------
(* Who is called from a line is the first of those who can sit.            *)
LEMMA FirstOfLine ==
  ASSUME NEW c \in Class, TypeOK
  PROVE  /\ Seatable(c) = 0 => \A i \in DOMAIN line[c] : ~CanSit(line[c][i])
         /\ \A i \in DOMAIN line[c] : i < Seatable(c) => ~CanSit(line[c][i])
<1> DEFINE I == {i \in 1 .. Len(line[c]) : CanSit(line[c][i])}
<1>1. Seatable(c) = IF I # {} THEN CHOOSE x \in I : \A y \in I : x <= y ELSE 0
  BY DEF Seatable, SelectInSeq, Min
<1>2. Len(line[c]) \in Nat /\ DOMAIN line[c] = 1 .. Len(line[c])
  BY LenProperties DEF TypeOK
<1>3. CASE I # {}
  <2>1. I \in SUBSET Nat
    BY <1>2
  <2>2. \E x \in I : \A y \in I : x <= y
    BY <2>1, <1>3, LeastNat
  <2>3. Seatable(c) \in I /\ \A y \in I : Seatable(c) <= y
    BY <2>2, <1>1, <1>3
  <2>4. QED
    BY <2>3, <1>2
<1>4. CASE I = {}
  BY <1>1, <1>2, <1>4
<1>5. QED
  BY <1>3, <1>4

(* In a house that is open and empty there is a table for everybody.       *)
LEMMA RoomInEmptyHouse ==
  ASSUME Inv, Accounts, opened, Seated = {}, NEW g \in Group
  PROVE  CanSit(g) /\ TotalSeats - guests >= Size[g]
<1>1. PICK t \in Table : Capacity[t] >= Size[g] /\ (g \in Vip => Capacity[t] > 1)
  BY GuestsAssumption
<1>2. slots[t] = {} /\ \A u \in Table : slots[u] = {}
  BY DEF Seated, TablesOf, Inv, TypeOK
<1>3. Cardinality(People({})) = 0 /\ Cardinality({}) = 0
  BY FS_EmptySet DEF People
<1>4. occupiedSeats[t] = 0 /\ guests = 0
  BY <1>2, <1>3 DEF Accounts
<1>5. Size[g] \in Nat /\ Capacity[t] \in Nat
  BY Sizes
<1>6. Fits(g, t)
  BY <1>1, <1>2, <1>3, <1>4, <1>5, HouseAssumption DEF Fits, Seats
<1>7. TotalSeats \in Nat /\ Capacity[t] <= TotalSeats
  <2>1. TotalSeats = Cardinality(Numbered(Table, Capacity))
    BY DEF TotalSeats, Numbered
  <2>2. QED
    BY <2>1, Sizes, NumberedFinite, NumberedMore
<1>8. QED
  BY <1>1, <1>4, <1>5, <1>6, <1>7 DEF CanSit

(* Behind the gate somebody is in line only while somebody is at table,    *)
(* except while the service is calling the line.                           *)
Hope == ~Gated /\ service # "seat" /\ Queued # {} => Seated # {}

LEMMA InitHope == Init => Hope
<1>1. SUFFICES ASSUME Init PROVE Queued = {}
  BY DEF Hope
<1>2. line = [c \in Class |-> << >>]
  BY <1>1 DEF Init, Start
<1>3. QED
  BY <1>2, Names DEF Queued, Range

(* In the line of a class are those of its class.                          *)
LEMMA LineQueued ==
  ASSUME TypeOK, NoDuplicates
  PROVE  /\ \A c \in Class : line[c] # << >> <=> \E g \in Queued : ClassOf(g) = c
         /\ \A g \in Queued : \E i \in DOMAIN line[ClassOf(g)] : line[ClassOf(g)][i] = g
<1>1. \A g \in Queued : \E i \in DOMAIN line[ClassOf(g)] : line[ClassOf(g)][i] = g
  BY DEF Queued, Range
<1>2. \A g \in Group : ClassOf(g) \in Class
  BY Names
<1>3. ASSUME NEW c \in Class, line[c] # << >>
      PROVE  \E g \in Queued : ClassOf(g) = c
  <2>1. line[c] \in Seq(Group) /\ Len(line[c]) \in Nat /\ Len(line[c]) # 0
    BY <1>3, LenProperties, EmptySeq DEF TypeOK
  <2>2. 1 \in DOMAIN line[c] /\ line[c][1] \in Group
    BY <2>1, LenProperties, ElementOfSeq
  <2>3. line[c][1] \in Range(line[c])
    BY <2>2 DEF Range
  <2>4. ClassOf(line[c][1]) = c
    BY <2>3 DEF NoDuplicates
  <2>5. QED
    BY <2>2, <2>3, <2>4 DEF Queued
<1>4. ASSUME NEW g \in Queued PROVE line[ClassOf(g)] # << >>
  BY <1>1, <1>4
<1>5. QED
  BY <1>1, <1>3, <1>4

(* The group the service is answering has a table.                         *)
LEMMA Answered == Inv /\ service = "reply" => Seated # {}
<1>1. SUFFICES ASSUME Inv, service = "reply" PROVE Seated # {}
  OBVIOUS
<1>2. reply # None /\ reply \in Reply
  BY <1>1 DEF Inv, Control, TypeOK
<1>3. reply.to \in Group /\ reply \in AnswersTo(reply.to)
  BY <1>2 DEF Reply, AnswersTo
<1>4. TablesOf(reply.to) # {}
  BY <1>1, <1>3 DEF Inv, Answers, AnswersAreTrue
<1>5. QED
  BY <1>3, <1>4 DEF Seated

LEMMA NextHope == Inv /\ Accounts /\ opened /\ Gate /\ Hope /\ [Next]_vars /\ Inv' => Hope'
<1> SUFFICES ASSUME Inv, Accounts, opened, Gate, Hope, [Next]_vars, Inv' PROVE Hope'
  OBVIOUS
<1> USE Kept
<1>0. TypeOK /\ NoDuplicates /\ Control /\ Places
  BY DEF Inv
<1>1. ASSUME NEW g \in Group, ClientFork(g) \/ GroupStep(g) PROVE Hope'
  <2>1. UNCHANGED <<gateOpen, slots, line, service>>
    BY <1>1 DEF ClientFork, GroupStep, GroupEnter, GroupAsk, GroupSit, GroupPay, servant, house
  <2>2. QED
    BY <2>1 DEF Hope, Gated
<1>2. ASSUME \/ ClientCount \/ ClientWake \/ ServiceRecv \/ UNCHANGED vars PROVE Hope'
  <2>1. UNCHANGED <<gateOpen, slots, line>> /\ (UNCHANGED service \/ service = "recv")
    BY <1>2 DEF ClientCount, ClientWake, ServiceRecv, vars, servant, house
  <2>2. QED
    BY <2>1 DEF Hope, Gated
<1>3. ASSUME ServiceHold PROVE Hope'
  BY <1>3 DEF ServiceHold, Hope, Gated
<1>4. ASSUME ServiceOpenGate \/ ServiceBill PROVE Hope'
  BY <1>4 DEF ServiceOpenGate, ServiceBill, Hope
<1>5. ASSUME ServicePassGate \/ ServiceReply PROVE Hope'
  <2>1. UNCHANGED <<gateOpen, slots, line>> /\ service \in {"gate", "reply"}
    BY <1>5 DEF ServicePassGate, ServiceReply, house
  <2>2. QED
    BY <2>1 DEF Hope, Gated
<1>6. ASSUME ServiceQueue PROVE Hope'
  <2>1. /\ service = "admit" /\ request \in Asks /\ MustQueue(request.group)
        /\ UNCHANGED <<gateOpen, slots>>
    BY <1>0, <1>6 DEF ServiceQueue, Control, house
  <2>2. request.group \in Group /\ ~Gated
    BY <2>1, Hands DEF Gate
  <2>3. Seated # {}
    <3>1. CASE Queued # {}
      BY <2>1, <2>2, <3>1 DEF Hope
    <3>2. CASE Queued = {}
      <4>1. line[ClassOf(request.group)] = << >>
        BY <1>0, <2>2, <3>2, LineQueued, Names
      <4>2. ~(CanSit(request.group) /\ TotalSeats - guests >= Size[request.group])
        <5>1. TotalSeats - guests < Size[request.group] \/ ~CanSit(request.group)
          BY <2>1, <4>1 DEF MustQueue
        <5>2. TotalSeats \in Nat /\ guests \in Int /\ Size[request.group] \in Nat
          <6>1. TotalSeats = Cardinality(Numbered(Table, Capacity))
            BY DEF TotalSeats, Numbered
          <6>2. QED
            BY <1>0, <2>2, <6>1, Sizes, NumberedFinite DEF TypeOK
        <5>3. QED
          BY <5>1, <5>2
      <4>3. QED
        BY <2>2, <4>2, RoomInEmptyHouse
    <3>3. QED
      BY <3>1, <3>2
  <2>4. QED
    BY <2>1, <2>3 DEF Hope
<1>7. ASSUME \/ ServiceSeatNow \/ \E c \in Class : ServiceSeatWaiting(c) PROVE Hope'
  <2>1. service' = "reply"
    BY <1>7 DEF ServiceSeatNow, ServiceSeatWaiting, Seat
  <2>2. (Inv /\ service = "reply" => Seated # {})'
    BY Answered, PTL
  <2>3. QED
    BY <2>1, <2>2 DEF Hope
<1>8. ASSUME ServiceSeatNobody PROVE Hope'
  <2>1. (\A c \in Class : Seatable(c) = 0) /\ UNCHANGED <<slots, line>>
    BY <1>8 DEF ServiceSeatNobody, house
  <2>2. ASSUME NEW g \in Queued PROVE ~CanSit(g)
    <3>1. g \in Group /\ ClassOf(g) \in Class
      BY Names DEF Queued
    <3>2. PICK i \in DOMAIN line[ClassOf(g)] : line[ClassOf(g)][i] = g
      BY <1>0, LineQueued
    <3>3. QED
      BY <1>0, <2>1, <3>1, <3>2, FirstOfLine
  <2>3. Queued # {} => Seated # {}
    <3>1. SUFFICES ASSUME NEW g \in Queued PROVE Seated # {}
      OBVIOUS
    <3>2. QED
      BY <2>2, RoomInEmptyHouse DEF Queued
  <2>4. QED
    BY <2>1, <2>3 DEF Hope
<1>9. QED
  BY <1>1, <1>2, <1>3, <1>4, <1>5, <1>6, <1>7, <1>8 DEF Next, ServiceStep, Quiet

(* When the service has nothing to do, nobody stands in line before a      *)
(* house that is open and empty, so there will be another bill to call     *)
(* the line.                                                               *)
THEOREM LineIsCalled == Spec => []NobodyWaitsInVain
<1>1. Init => Inv /\ Accounts /\ opened /\ Gate /\ Hope
  BY InitInv, StartAccounts, StartGate, InitHope DEF Init, Start
<1>2. Inv /\ Accounts /\ opened /\ Gate /\ Hope /\ [Next]_vars
        => (Inv /\ Accounts /\ opened /\ Gate /\ Hope)'
  <2> SUFFICES ASSUME Inv, Accounts, opened, Gate, Hope, [Next]_vars
               PROVE  (Inv /\ Accounts /\ opened /\ Gate /\ Hope)'
    OBVIOUS
  <2>1. opened'
    BY HouseSteps
  <2>2. QED
    BY <2>1, NextInv, NextAccounts, NextGate, NextHope
<1>3. Inv /\ Hope => NobodyWaitsInVain
  <2>1. SUFFICES ASSUME Inv, Hope, service = "recv", ~Gated, NEW c \in Class, line[c] # << >>
                 PROVE  \E t \in Table : slots[t] # {}
    BY DEF NobodyWaitsInVain
  <2>2. Queued # {}
    BY <2>1, LineQueued DEF Inv
  <2>3. Seated # {}
    BY <2>1, <2>2 DEF Hope
  <2>4. QED
    BY <2>3 DEF Seated, TablesOf
<1>4. QED
  BY <1>1, <1>2, <1>3, PTL DEF Spec

---------------------------------------------------------------------------
(* x stands before y in a queue.                                           *)
BeforeIn(s, x, y) == \E i, j \in DOMAIN s : i < j /\ s[i] = x /\ s[j] = y

(* Who is ahead of whom, by the places they are in.                        *)
LEMMA AheadInPlaces ==
  ASSUME NEW h \in Group, NEW g \in Group
  PROVE  Ahead(h, g) <=>
           /\ ClassOf(h) = ClassOf(g)
           /\ \/ BeforeIn(line[ClassOf(g)], h, g)
              \/ h \in Queued /\ g \in AtDoor \cup Asked
              \/ h \in AtDoor /\ g \in Asked
              \/ BeforeIn(inbox, Message("ASSIGN", h), Message("ASSIGN", g))
<1>1. /\ InLine(h) # {} <=> h \in Queued
      /\ h \in InHand("ASSIGN") <=> h \in AtDoor
      /\ g \in InHand("ASSIGN") <=> g \in AtDoor
      /\ Sent("ASSIGN", g) # {} <=> g \in Asked
  BY DEF InLine, Queued, Range, AtDoor, Sent, Asked, Message
<1>2. ClassOf(h) = ClassOf(g) =>
        ((\E i \in InLine(h), j \in InLine(g) : i < j) <=> BeforeIn(line[ClassOf(g)], h, g))
  BY DEF InLine, BeforeIn
<1>3. (\E i \in Sent("ASSIGN", h), j \in Sent("ASSIGN", g) : i < j)
        <=> BeforeIn(inbox, Message("ASSIGN", h), Message("ASSIGN", g))
  BY DEF Sent, BeforeIn, Message
<1>4. QED
  BY <1>1, <1>2, <1>3 DEF Ahead

(* Those who are in a queue or on their way to it.                         *)
LEMMA BeforeMembers ==
  ASSUME NEW s, NEW x, NEW y, BeforeIn(s, x, y)
  PROVE  x \in Range(s) /\ y \in Range(s)
  BY DEF BeforeIn, Range

LEMMA AheadWaits ==
  ASSUME Places, NEW h \in Group, NEW g \in Group, Ahead(h, g)
  PROVE  /\ h \in Queued \cup AtDoor \cup Asked /\ g \in Queued \cup AtDoor \cup Asked
         /\ g \in AtDoor => h \in Queued
         /\ g \in Queued => BeforeIn(line[ClassOf(g)], h, g) \/ g \in AtDoor \cup Asked
<1>1. BeforeIn(line[ClassOf(g)], h, g) /\ ClassOf(h) = ClassOf(g) => h \in Queued /\ g \in Queued
  BY BeforeMembers DEF Queued
<1>2. BeforeIn(inbox, Message("ASSIGN", h), Message("ASSIGN", g)) => h \in Asked /\ g \in Asked
  BY BeforeMembers DEF Asked
<1>3. QED
  BY <1>1, <1>2, AheadInPlaces DEF Places

(* A group is given a table either at the door, where nobody of its class  *)
(* is in line, or as the first in line who can sit.                        *)
LEMMA SeatedInTurn ==
  ASSUME Inv, NEW g \in Group, NEW h \in Group, Ahead(h, g),
         \/ ServiceSeatNow /\ g \in AtDoor
         \/ \E c \in Class : ServiceSeatWaiting(c) /\ g = line[c][Seatable(c)]
  PROVE  ~CanSit(h)
<1>0. TypeOK /\ NoDuplicates /\ Control /\ Places
  BY DEF Inv
<1>1. CASE ServiceSeatNow /\ g \in AtDoor
  <2>1. service = "admit" /\ ~MustQueue(request.group)
    BY <1>1 DEF ServiceSeatNow
  <2>2. AtDoor = {request.group}
    BY <1>0, <2>1, Hands DEF Control
  <2>3. line[ClassOf(g)] = << >> /\ ClassOf(g) \in Class
    BY <1>1, <2>1, <2>2, Names DEF MustQueue
  <2>4. h \in Queued /\ ClassOf(h) = ClassOf(g)
    <3>1. h \in Queued
      BY <1>0, <1>1, AheadWaits
    <3>2. QED
      BY <3>1, AheadInPlaces
  <2>5. QED
    BY <1>0, <2>3, <2>4, LineQueued
<1>2. ASSUME NEW c \in Class, ServiceSeatWaiting(c), g = line[c][Seatable(c)]
      PROVE  ~CanSit(h)
  <2> DEFINE k == Seatable(c)
  <2>1. k \in DOMAIN line[c] /\ line[c] \in Seq(Group) /\ k \in Nat
    <3>1. Seatable(c) \in 0 .. Len(line[c]) /\ Seatable(c) > 0 /\ line[c] \in Seq(Group)
      BY <1>0, <1>2, First DEF ServiceSeatWaiting, TypeOK
    <3>2. QED
      BY <3>1, LenProperties
  <2> HIDE DEF k
  <2>2. g \in Range(line[c])
    BY <1>2, <2>1 DEF Range, k
  <2>3. g \in Queued /\ ClassOf(g) = c
    BY <1>0, <2>2 DEF NoDuplicates, Queued
  <2>4. g \notin AtDoor \cup Asked
    BY <1>0, <2>3 DEF Places
  <2>5. BeforeIn(line[c], h, g)
    BY <1>0, <2>3, <2>4, AheadWaits
  <2>6. PICK i, j \in DOMAIN line[c] : i < j /\ line[c][i] = h /\ line[c][j] = g
    BY <2>5 DEF BeforeIn
  <2>7. j = k
    BY <1>0, <1>2, <2>1, <2>6 DEF NoDuplicates, Unique, k
  <2>8. QED
    BY <1>0, <2>6, <2>7, FirstOfLine DEF k
<1>3. QED
  BY <1>1, <1>2

(* Only these two steps give anybody a table.                              *)
LEMMA GivesTable ==
  ASSUME Inv, [Next]_vars, NEW g \in Group, TablesOf(g) = {}, TablesOf(g)' # {}
  PROVE  \/ ServiceSeatNow /\ g \in AtDoor
         \/ \E c \in Class : ServiceSeatWaiting(c) /\ g = line[c][Seatable(c)]
<1> USE Kept
<1>0. TypeOK /\ NoDuplicates /\ Control /\ Places
  BY DEF Inv
<1>1. ASSUME NEW h \in Group, NEW there, h \notin Seated, Seat(h, there) PROVE h = g
  <2>1. TableFor(h) \in Table /\ slots' = [slots EXCEPT ![TableFor(h)] = @ \cup {h}]
    BY <1>1, TableFound DEF Seat
  <2>2. \A k \in Group : k # h => TablesOf(k)' = TablesOf(k)
    BY <1>0, <2>1, Sitting
  <2>3. QED
    BY <2>2
<1>2. ASSUME NEW h \in Group, ClientFork(h) \/ GroupStep(h) PROVE FALSE
  <2>1. UNCHANGED slots
    BY <1>2 DEF ClientFork, GroupStep, GroupEnter, GroupAsk, GroupSit, GroupPay, house
  <2>2. QED
    BY <2>1
<1>3. ASSUME \/ ClientCount \/ ClientWake \/ ServiceRecv \/ ServiceHold \/ ServiceOpenGate
             \/ ServicePassGate \/ ServiceQueue \/ ServiceSeatNobody \/ ServiceReply
             \/ UNCHANGED vars
      PROVE  FALSE
  <2>1. UNCHANGED slots
    BY <1>3 DEF ClientCount, ClientWake, ServiceRecv, ServiceHold, ServiceOpenGate, ServicePassGate,
              ServiceQueue, ServiceSeatNobody, ServiceReply, house, vars
  <2>2. QED
    BY <2>1
<1>4. ASSUME ServiceSeatNow PROVE g \in AtDoor
  <2>1. request \in Asks /\ \E there : Seat(request.group, there)
    BY <1>0, <1>4 DEF ServiceSeatNow, Control
  <2>2. request.group \in Group /\ AtDoor = {request.group}
    BY <2>1, Hands
  <2>3. request.group \notin Seated
    BY <1>0, <2>2 DEF Places
  <2>4. QED
    BY <1>1, <2>1, <2>2, <2>3
<1>5. ASSUME NEW c \in Class, ServiceSeatWaiting(c) PROVE g = line[c][Seatable(c)]
  <2> DEFINE i == Seatable(c)
  <2>1. i \in DOMAIN line[c]
    <3>1. Seatable(c) \in 0 .. Len(line[c]) /\ Seatable(c) > 0 /\ line[c] \in Seq(Group)
      BY <1>0, <1>5, First DEF ServiceSeatWaiting, TypeOK
    <3>2. QED
      BY <3>1, LenProperties
  <2>2. line' = [line EXCEPT ![c] = RemoveAt(@, i)] /\ \E there : Seat(line[c][i], there)
    BY <1>5 DEF ServiceSeatWaiting
  <2> HIDE DEF i
  <2>3. line[c][i] \in Queued /\ line[c][i] \in Group
    BY <1>0, <2>1, <2>2, Calling
  <2>4. line[c][i] \notin Seated
    BY <1>0, <2>3 DEF Places
  <2>5. QED
    BY <1>1, <2>2, <2>3, <2>4 DEF i
<1>6. ASSUME ServiceBill PROVE FALSE
  <2>1. request \in Bills /\ \E t \in Table : /\ request.group \in slots[t]
                                              /\ slots' = [slots EXCEPT ![t] = @ \ {request.group}]
    BY <1>0, <1>6 DEF ServiceBill, Control
  <2>2. request.group \in Group
    BY <2>1, Hands
  <2>3. \A k \in Group : TablesOf(k)' = IF k = request.group THEN {} ELSE TablesOf(k)
    BY <1>0, <2>1, <2>2, Rising
  <2>4. QED
    BY <2>3
<1>7. QED
  BY <1>2, <1>3, <1>4, <1>5, <1>6 DEF Next, ServiceStep, Quiet

LEMMA NobodyPassed ==
  ASSUME Inv, [Next]_vars
  PROVE  \A g \in Group : TablesOf(g) = {} /\ TablesOf(g)' # {} =>
           \A h \in Group : Ahead(h, g) => ~CanSit(h)
  BY GivesTable, SeatedInTurn

(* No group is given a table while one of its class who asked before it    *)
(* could have been.                                                        *)
THEOREM SeatedInOrder == Spec => NoOvertaking
<1>1. Inv /\ [Next]_vars => [\A g \in Group : TablesOf(g) = {} /\ TablesOf(g)' # {} =>
                               \A h \in Group : Ahead(h, g) => ~CanSit(h)]_vars
  BY NobodyPassed
<1>2. QED
  BY <1>1, InitInv, NextInv, PTL DEF Spec, NoOvertaking

---------------------------------------------------------------------------
(* What a queue that grows, moves up or loses a member does to who stands  *)
(* before whom.                                                            *)
LEMMA AppendBefore ==
  ASSUME NEW S, NEW s \in Seq(S), NEW z \in S, NEW x, NEW y
  PROVE  BeforeIn(Append(s, z), x, y) <=> BeforeIn(s, x, y) \/ (y = z /\ x \in Range(s))
<1> DEFINE a == Append(s, z)
           n == Len(s)
<1>1. /\ n \in Nat /\ DOMAIN s = 1 .. n /\ DOMAIN a = 1 .. (n + 1)
      /\ \A i \in 1 .. n : a[i] = s[i]
      /\ a[n + 1] = z
  BY AppendProperties, LenProperties
<1> HIDE DEF a, n
<1>2. BeforeIn(s, x, y) => BeforeIn(a, x, y)
  BY <1>1 DEF BeforeIn
<1>3. ASSUME y = z, x \in Range(s) PROVE BeforeIn(a, x, y)
  <2>1. PICK i \in 1 .. n : s[i] = x
    BY <1>1, <1>3 DEF Range
  <2>2. i < n + 1 /\ a[i] = x /\ a[n + 1] = y /\ i \in DOMAIN a /\ n + 1 \in DOMAIN a
    BY <1>1, <1>3, <2>1
  <2>3. QED
    BY <2>2 DEF BeforeIn
<1>4. ASSUME BeforeIn(a, x, y) PROVE BeforeIn(s, x, y) \/ (y = z /\ x \in Range(s))
  <2>1. PICK i, j \in 1 .. (n + 1) : i < j /\ a[i] = x /\ a[j] = y
    BY <1>1, <1>4 DEF BeforeIn
  <2>2. i \in 1 .. n /\ s[i] = x
    BY <1>1, <2>1
  <2>3. CASE j \in 1 .. n
    BY <1>1, <2>1, <2>2, <2>3 DEF BeforeIn
  <2>4. CASE j = n + 1
    BY <1>1, <2>1, <2>2, <2>4 DEF Range
  <2>5. QED
    BY <1>1, <2>1, <2>3, <2>4
<1>5. QED
  BY <1>2, <1>3, <1>4 DEF a

LEMMA TailBefore ==
  ASSUME NEW S, NEW s \in Seq(S), s # << >>, NEW x, NEW y
  PROVE  BeforeIn(s, x, y) <=> BeforeIn(Tail(s), x, y) \/ (x = Head(s) /\ y \in Range(Tail(s)))
<1> DEFINE r == Tail(s)
           n == Len(s)
<1>1. /\ n \in Nat \ {0} /\ DOMAIN s = 1 .. n /\ DOMAIN r = 1 .. (n - 1)
      /\ \A i \in 1 .. (n - 1) : r[i] = s[i + 1]
      /\ Head(s) = s[1]
  BY HeadTailProperties, LenProperties
<1> HIDE DEF r, n
<1>2. ASSUME BeforeIn(r, x, y) PROVE BeforeIn(s, x, y)
  <2>1. PICK i, j \in 1 .. (n - 1) : i < j /\ r[i] = x /\ r[j] = y
    BY <1>1, <1>2 DEF BeforeIn
  <2>2. i + 1 \in DOMAIN s /\ j + 1 \in DOMAIN s /\ i + 1 < j + 1 /\ s[i + 1] = x /\ s[j + 1] = y
    BY <1>1, <2>1
  <2>3. QED
    BY <2>2 DEF BeforeIn
<1>3. ASSUME x = Head(s), y \in Range(r) PROVE BeforeIn(s, x, y)
  <2>1. PICK j \in 1 .. (n - 1) : r[j] = y
    BY <1>1, <1>3 DEF Range
  <2>2. 1 \in DOMAIN s /\ j + 1 \in DOMAIN s /\ 1 < j + 1 /\ s[1] = x /\ s[j + 1] = y
    BY <1>1, <1>3, <2>1
  <2>3. QED
    BY <2>2 DEF BeforeIn
<1>4. ASSUME BeforeIn(s, x, y) PROVE BeforeIn(r, x, y) \/ (x = Head(s) /\ y \in Range(r))
  <2>1. PICK i, j \in 1 .. n : i < j /\ s[i] = x /\ s[j] = y
    BY <1>1, <1>4 DEF BeforeIn
  <2>2. j - 1 \in DOMAIN r /\ r[j - 1] = y
    BY <1>1, <2>1
  <2>3. CASE i = 1
    BY <1>1, <2>1, <2>2, <2>3 DEF Range
  <2>4. CASE i # 1
    <3>1. i - 1 \in DOMAIN r /\ r[i - 1] = x /\ i - 1 < j - 1
      BY <1>1, <2>1, <2>4
    <3>2. QED
      BY <2>2, <3>1 DEF BeforeIn
  <2>5. QED
    BY <2>3, <2>4
<1>5. QED
  BY <1>2, <1>3, <1>4 DEF r

LEMMA RemoveBefore ==
  ASSUME NEW S, NEW s \in Seq(S), NEW k \in DOMAIN s, Unique(s, S), NEW x \in S, NEW y \in S
  PROVE  BeforeIn(RemoveAt(s, k), x, y) <=> BeforeIn(s, x, y) /\ s[k] \notin {x, y}
<1> DEFINE r == RemoveAt(s, k)
           n == Len(s)
<1>1. /\ n \in Nat /\ k \in 1 .. n /\ DOMAIN s = 1 .. n /\ DOMAIN r = 1 .. (n - 1)
      /\ \A i \in 1 .. (n - 1) : r[i] = IF i < k THEN s[i] ELSE s[i + 1]
  BY Removed
<1>2. s[k] \in S
  BY ElementOfSeq, LenProperties
<1> HIDE DEF r, n
<1>3. ASSUME BeforeIn(r, x, y) PROVE BeforeIn(s, x, y) /\ s[k] \notin {x, y}
  <2>1. PICK i, j \in 1 .. (n - 1) : i < j /\ r[i] = x /\ r[j] = y
    BY <1>1, <1>3 DEF BeforeIn
  <2>2. PICK a \in 1 .. n : a = (IF i < k THEN i ELSE i + 1) /\ s[a] = x /\ a # k
    BY <1>1, <2>1
  <2>3. PICK b \in 1 .. n : b = (IF j < k THEN j ELSE j + 1) /\ s[b] = y /\ b # k
    BY <1>1, <2>1
  <2>4. a < b
    BY <1>1, <2>1, <2>2, <2>3
  <2>5. s[k] \notin {x, y}
    BY <1>1, <2>2, <2>3 DEF Unique
  <2>6. QED
    BY <1>1, <2>2, <2>3, <2>4, <2>5 DEF BeforeIn
<1>4. ASSUME BeforeIn(s, x, y), s[k] \notin {x, y} PROVE BeforeIn(r, x, y)
  <2>1. PICK i, j \in 1 .. n : i < j /\ s[i] = x /\ s[j] = y /\ i # k /\ j # k
    BY <1>1, <1>4 DEF BeforeIn
  <2>0. ASSUME NEW m \in 1 .. n, m # k
        PROVE  \E a \in 1 .. (n - 1) : a = (IF m < k THEN m ELSE m - 1) /\ r[a] = s[m]
    <3>1. CASE m < k
      BY <1>1, <3>1
    <3>2. CASE m > k
      <4>1. m - 1 \in 1 .. (n - 1) /\ ~(m - 1 < k) /\ (m - 1) + 1 = m
        BY <1>1, <3>2
      <4>2. r[m - 1] = s[m]
        BY <1>1, <4>1
      <4>3. QED
        BY <1>1, <3>2, <4>1, <4>2
    <3>3. QED
      BY <1>1, <2>0, <3>1, <3>2
  <2>2. PICK a \in 1 .. (n - 1) : a = (IF i < k THEN i ELSE i - 1) /\ r[a] = x
    BY <2>0, <2>1
  <2>3. PICK b \in 1 .. (n - 1) : b = (IF j < k THEN j ELSE j - 1) /\ r[b] = y
    BY <2>0, <2>1
  <2>4. a < b
    <3>1. i \in Int /\ j \in Int /\ k \in Int /\ i < j /\ i # k /\ j # k
      BY <1>1, <2>1
    <3>2. a = (IF i < k THEN i ELSE i - 1) /\ b = (IF j < k THEN j ELSE j - 1)
      BY <2>2, <2>3
    <3>3. QED
      BY <3>1, <3>2
  <2>5. QED
    BY <1>1, <2>2, <2>3, <2>4 DEF BeforeIn
<1>5. QED
  BY <1>3, <1>4 DEF r

---------------------------------------------------------------------------
(* The requests are messages, one for every group, apart from all others.  *)
LEMMA Requests ==
  /\ \A g \in Group : Message("ASSIGN", g) \in Request /\ Message("FINISHED", g) \in Request
  /\ Message("BARRIER", None) \in Request
  /\ \A g, h \in Group : /\ Message("ASSIGN", g) = Message("ASSIGN", h) <=> g = h
                         /\ Message("ASSIGN", g) # Message("FINISHED", h)
  /\ \A g \in Group : Message("ASSIGN", g) # Message("BARRIER", None)
  BY DEF Message, Request

(* AheadInPlaces after a step.                                             *)
LEMMA AheadInPlaces1 ==
  ASSUME NEW h \in Group, NEW g \in Group
  PROVE  Ahead(h, g)' <=>
           /\ ClassOf(h) = ClassOf(g)
           /\ \/ BeforeIn(line'[ClassOf(g)], h, g)
              \/ h \in Queued' /\ g \in AtDoor' \cup Asked'
              \/ h \in AtDoor' /\ g \in Asked'
              \/ BeforeIn(inbox', Message("ASSIGN", h), Message("ASSIGN", g))
<1>1. /\ InLine(h)' # {} <=> h \in Queued'
      /\ h \in InHand("ASSIGN")' <=> h \in AtDoor'
      /\ g \in InHand("ASSIGN")' <=> g \in AtDoor'
      /\ Sent("ASSIGN", g)' # {} <=> g \in Asked'
  BY DEF InLine, Queued, Range, AtDoor, Sent, Asked, Message
<1>2. ClassOf(h) = ClassOf(g) =>
        ((\E i \in InLine(h)', j \in InLine(g)' : i < j) <=> BeforeIn(line'[ClassOf(g)], h, g))
  BY DEF InLine, BeforeIn
<1>3. (\E i \in Sent("ASSIGN", h)', j \in Sent("ASSIGN", g)' : i < j)
        <=> BeforeIn(inbox', Message("ASSIGN", h), Message("ASSIGN", g))
  BY DEF Sent, BeforeIn, Message
<1>4. QED
  BY <1>1, <1>2, <1>3 DEF Ahead

(* Nobody asks, nobody is queued or called: the order stays.               *)
LEMMA AheadKept ==
  ASSUME UNCHANGED <<inbox, line>>, AtDoor' = AtDoor, NEW h \in Group, NEW g \in Group
  PROVE  Ahead(h, g)' <=> Ahead(h, g)
<1>1. Asked' = Asked /\ Queued' = Queued
  BY Kept
<1>2. QED
  BY <1>1, AheadInPlaces, AheadInPlaces1

(* A message that asks for no table does not change the order.             *)
LEMMA AheadOther ==
  ASSUME TypeOK, UNCHANGED <<line, request>>, NEW m \in Request,
         \A k \in Group : m # Message("ASSIGN", k), inbox' = Append(inbox, m),
         NEW h \in Group, NEW g \in Group
  PROVE  Ahead(h, g)' <=> Ahead(h, g)
<1>1. Asked' = Asked
  <2>1. Range(inbox') = Range(inbox) \cup {m}
    BY AppendMember DEF TypeOK
  <2>2. QED
    BY <2>1 DEF Asked
<1>2. BeforeIn(inbox', Message("ASSIGN", h), Message("ASSIGN", g))
        <=> BeforeIn(inbox, Message("ASSIGN", h), Message("ASSIGN", g))
  BY AppendBefore DEF TypeOK
<1>3. AtDoor' = AtDoor /\ Queued' = Queued
  BY Kept
<1>4. QED
  BY <1>1, <1>2, <1>3, AheadInPlaces, AheadInPlaces1

(* Who asks comes after all of its class who wait.                         *)
LEMMA AheadAsking ==
  ASSUME TypeOK, NoDuplicates, UNCHANGED <<line, request>>, NEW k \in Group,
         k \notin Asked \cup AtDoor \cup Queued, inbox' = Append(inbox, Message("ASSIGN", k)),
         NEW h \in Group, NEW g \in Group
  PROVE  Ahead(h, g)' <=> \/ Ahead(h, g)
                          \/ /\ g = k /\ ClassOf(h) = ClassOf(k)
                             /\ h \in Asked \cup AtDoor \cup Queued
<1>1. Asked' = Asked \cup {k}
  BY Asking
<1>2. BeforeIn(inbox', Message("ASSIGN", h), Message("ASSIGN", g))
        <=> BeforeIn(inbox, Message("ASSIGN", h), Message("ASSIGN", g)) \/ (g = k /\ h \in Asked)
  <2>1. BeforeIn(inbox', Message("ASSIGN", h), Message("ASSIGN", g))
          <=> \/ BeforeIn(inbox, Message("ASSIGN", h), Message("ASSIGN", g))
              \/ Message("ASSIGN", g) = Message("ASSIGN", k) /\ Message("ASSIGN", h) \in Range(inbox)
    BY AppendBefore, Requests DEF TypeOK
  <2>2. QED
    BY <2>1, Requests DEF Asked
<1>3. AtDoor' = AtDoor /\ Queued' = Queued
  BY Kept
<1>4. QED
  BY <1>1, <1>2, <1>3, AheadInPlaces, AheadInPlaces1

(* Who is taken from the queue to the door is before those who stay in it. *)
LEMMA AheadTaking ==
  ASSUME TypeOK, NoDuplicates, UNCHANGED line, inbox # << >>, AtDoor = {},
         request' = Head(inbox), inbox' = Tail(inbox), NEW h \in Group, NEW g \in Group
  PROVE  Ahead(h, g)' <=> Ahead(h, g)
<1>1. Asked' = Asked \ AtDoor' /\ AtDoor' \subseteq Asked /\ Queued' = Queued
  BY Taking, Kept
<1>2. BeforeIn(inbox, Message("ASSIGN", h), Message("ASSIGN", g))
        <=> \/ BeforeIn(inbox', Message("ASSIGN", h), Message("ASSIGN", g))
            \/ Message("ASSIGN", h) = request' /\ Message("ASSIGN", g) \in Range(inbox')
  BY TailBefore DEF TypeOK
<1>3. Message("ASSIGN", h) = request' <=> h \in AtDoor'
  BY DEF AtDoor, InHand, Message
<1>4. Message("ASSIGN", g) \in Range(inbox') <=> g \in Asked'
  BY DEF Asked
<1>5. QED
  BY <1>1, <1>2, <1>3, <1>4, AheadInPlaces, AheadInPlaces1

(* Who goes from the door to the end of the line stays where it was in the *)
(* order: behind those in line, before those who are not yet at the door.  *)
LEMMA AheadQueueing ==
  ASSUME TypeOK, NoDuplicates, UNCHANGED inbox, NEW k \in Group, AtDoor = {k}, AtDoor' = {},
         k \notin Queued \cup Asked, Push(k), NEW h \in Group, NEW g \in Group
  PROVE  Ahead(h, g)' <=> Ahead(h, g)
<1>1. Asked' = Asked /\ Queued' = Queued \cup {k}
  BY Queueing, Kept
<1>2. ClassOf(h) = ClassOf(g) =>
        (BeforeIn(line'[ClassOf(g)], h, g) <=> BeforeIn(line[ClassOf(g)], h, g) \/ (g = k /\ h \in Queued))
  <2>1. CASE ClassOf(g) = ClassOf(k)
    <3>1. line'[ClassOf(g)] = Append(line[ClassOf(g)], k) /\ line[ClassOf(g)] \in Seq(Group)
      BY <2>1, Names DEF Push, TypeOK
    <3>2. BeforeIn(line'[ClassOf(g)], h, g)
            <=> BeforeIn(line[ClassOf(g)], h, g) \/ (g = k /\ h \in Range(line[ClassOf(g)]))
      BY <3>1, AppendBefore
    <3>3. QED
      BY <3>2 DEF Queued
  <2>2. CASE ClassOf(g) # ClassOf(k)
    BY <2>2, Names DEF Push, TypeOK
  <2>3. QED
    BY <2>1, <2>2
<1>3. QED
  BY <1>1, <1>2, AheadInPlaces, AheadInPlaces1

(* Who is given a table leaves the order, the others stay in it.           *)
LEMMA AheadServed ==
  ASSUME Inv, UNCHANGED inbox, NEW k \in Group,
         \/ AtDoor = {k} /\ AtDoor' = {} /\ UNCHANGED line /\ line[ClassOf(k)] = << >>
         \/ /\ UNCHANGED request
            /\ \E c \in Class : \E i \in DOMAIN line[c] :
                 line[c][i] = k /\ line' = [line EXCEPT ![c] = RemoveAt(@, i)],
         NEW h \in Group, NEW g \in Group
  PROVE  Ahead(h, g)' <=> Ahead(h, g) /\ k \notin {h, g}
<1>0. TypeOK /\ NoDuplicates /\ Places
  BY DEF Inv
<1>1. Asked' = Asked
  BY Kept
<1>2. BeforeIn(inbox, Message("ASSIGN", h), Message("ASSIGN", g)) => h \in Asked /\ g \in Asked
  BY BeforeMembers DEF Asked
<1>3. ClassOf(h) = ClassOf(g) /\ BeforeIn(line[ClassOf(g)], h, g) => h \in Queued /\ g \in Queued
  BY BeforeMembers DEF Queued
<1>4. CASE AtDoor = {k} /\ AtDoor' = {} /\ UNCHANGED line /\ line[ClassOf(k)] = << >>
  <2>1. Queued' = Queued
    BY <1>4, Kept
  <2>2. ClassOf(h) = ClassOf(k) => h \notin Queued
    BY <1>4 DEF Queued, Range
  <2>3. k \notin Asked \cup Queued
    BY <1>0, <1>4 DEF Places
  <2>4. QED
    BY <1>1, <1>2, <1>3, <1>4, <2>1, <2>2, <2>3, AheadInPlaces, AheadInPlaces1
<1>5. ASSUME UNCHANGED request, NEW c \in Class, NEW i \in DOMAIN line[c], line[c][i] = k,
             line' = [line EXCEPT ![c] = RemoveAt(@, i)]
      PROVE  Ahead(h, g)' <=> Ahead(h, g) /\ k \notin {h, g}
  <2>1. k \in Queued /\ ClassOf(k) = c /\ Queued' = Queued \ {k}
    BY <1>0, <1>5, Calling
  <2>2. k \notin Asked \cup AtDoor
    BY <1>0, <2>1 DEF Places
  <2>3. AtDoor' = AtDoor
    BY <1>5, Kept
  <2>4. ClassOf(h) = ClassOf(g) =>
          (BeforeIn(line'[ClassOf(g)], h, g) <=> BeforeIn(line[ClassOf(g)], h, g) /\ k \notin {h, g})
    <3>1. CASE ClassOf(g) = c
      <4>1. line[c] \in Seq(Group) /\ Unique(line[c], Group)
        BY <1>0 DEF TypeOK, NoDuplicates
      <4>2. BeforeIn(RemoveAt(line[c], i), h, g) <=> BeforeIn(line[c], h, g) /\ line[c][i] \notin {h, g}
        BY <4>1, RemoveBefore
      <4>3. line'[c] = RemoveAt(line[c], i)
        BY <1>0, <1>5 DEF TypeOK
      <4>4. QED
        BY <1>5, <3>1, <4>2, <4>3
    <3>2. CASE ClassOf(g) # c
      <4>1. line'[ClassOf(g)] = line[ClassOf(g)]
        BY <1>0, <1>5, <3>2, Names DEF TypeOK
      <4>2. QED
        BY <2>1, <3>2, <4>1
    <3>3. QED
      BY <3>1, <3>2
  <2>5. QED
    BY <1>1, <1>2, <2>1, <2>2, <2>3, <2>4, AheadInPlaces, AheadInPlaces1
<1>6. QED
  BY <1>4, <1>5

---------------------------------------------------------------------------
(* The list as the house keeps it: who has come, who is before whom, who   *)
(* has paid.                                                               *)
Came  == {g \in Group : stage[g] \in {"waiting", "eating", "gone"}}
Order == {p \in Group \X Group : Ahead(p[1], p[2])}
Paid  == {g \in Group : stage[g] = "gone"}

(* A group knows its table only from the moment it sits.                   *)
Shown == \A g \in Group : tableIndex[g] # None => stage[g] \in {"eating", "gone"}

ListInv == Inv /\ Accounts /\ Shown

LEMMA StartListInv ==
  ASSUME NEW open \in BOOLEAN, Start(open)
  PROVE  ListInv
<1>1. Shown
  BY DEF Start, Shown
<1>2. QED
  BY <1>1, StartInv, StartAccounts DEF ListInv

LEMMA NextShown == Inv /\ Shown /\ [Next]_vars => Shown'
<1>1. SUFFICES ASSUME Inv, Shown, [Next]_vars PROVE Shown'
  OBVIOUS
<1>2. TypeOK
  BY <1>1 DEF Inv
<1>3. ASSUME NEW g \in Group, ClientFork(g) \/ GroupEnter(g) \/ GroupAsk(g) \/ GroupPay(g)
      PROVE  Shown'
  <2>1. /\ UNCHANGED tableIndex
        /\ \A h \in Group : \/ stage'[h] = stage[h]
                            \/ stage[h] \in {"unborn", "arriving", "asking"}
                            \/ stage'[h] = "gone"
    BY <1>2, <1>3 DEF ClientFork, GroupEnter, GroupAsk, GroupPay, TypeOK
  <2>2. QED
    BY <1>1, <2>1 DEF Shown
<1>4. ASSUME NEW g \in Group, GroupSit(g)
      PROVE  Shown'
  <2>1. \A h \in Group : \/ stage'[h] = stage[h] /\ tableIndex'[h] = tableIndex[h]
                         \/ stage'[h] = "eating"
    BY <1>2, <1>4 DEF GroupSit, TypeOK
  <2>2. QED
    BY <1>1, <2>1 DEF Shown
<1>5. CASE ClientCount \/ ClientWake \/ ServiceStep \/ UNCHANGED vars
  <2>1. UNCHANGED groups
    BY <1>5 DEF ClientCount, ClientWake, ServiceStep, ServiceRecv, ServiceHold, ServiceOpenGate,
              ServicePassGate, ServiceQueue, ServiceSeatNow, ServiceSeatNobody, ServiceReply,
              ServiceSeatWaiting, ServiceBill, vars
  <2>2. QED
    BY <1>1, <2>1 DEF groups, Shown
<1>6. QED
  BY <1>1, <1>3, <1>4, <1>5 DEF Next, GroupStep, Quiet

(* Who waits on the list has asked and been given no table, and a table    *)
(* suits on the list where the service would seat the group.               *)
LEMMA ListWaiting ==
  ASSUME ListInv
  PROVE  /\ List!Given = Seated
         /\ List!Waiting = Asked \cup AtDoor \cup Queued
         /\ \A g \in Group : g \in Asked \cup AtDoor \cup Queued => stage[g] = "waiting"
<1>1. TypeOK /\ Places
  BY DEF ListInv, Inv
<1>2. List!Given = Seated
  BY <1>1, TablesFilled DEF List!Given
<1>3. \A g \in Group : g \in Asked \cup AtDoor \cup Queued <=> stage[g] = "waiting" /\ g \notin Seated
  BY <1>1 DEF Places, TypeOK
<1>4. List!Left = {g \in Group : stage[g] = "gone" /\ g \notin Seated}
  BY <1>2 DEF List!Left
<1>5. \A g \in Group : stage[g] = "eating" => g \in Seated
  BY <1>1 DEF Places
<1>6. Asked \cup AtDoor \cup Queued \subseteq Group
  BY DEF Asked, AtDoor, Queued, InHand
<1>7. List!Waiting = Asked \cup AtDoor \cup Queued
  BY <1>2, <1>3, <1>4, <1>5, <1>6 DEF List!Waiting
<1>8. QED
  BY <1>2, <1>3, <1>7

LEMMA ListSuits ==
  ASSUME ListInv, opened, NEW g \in Group, NEW t \in Table
  PROVE  List!Suits(g, t) <=> Fits(g, t)
<1>1. /\ occupiedSeats[t] = Cardinality(People(slots[t]))
      /\ slots[t] \in SUBSET Group
  BY DEF ListInv, Inv, TypeOK, Accounts
<1>2. Cardinality(People(slots[t])) \in Nat /\ Size[g] \in Nat /\ Capacity[t] \in Nat
  BY <1>1, PeopleCount, Sizes
<1>3. List!People(slots[t]) = People(slots[t])
  BY DEF List!People, People
<1>4. Cardinality(People(slots[t])) + Size[g] <= Capacity[t]
        <=> Capacity[t] - Cardinality(People(slots[t])) >= Size[g]
  BY <1>2
<1>5. \A S : List!Cardinality(S) = Cardinality(S)
  BY DEF List!Cardinality, Cardinality
<1>6. QED
  BY <1>1, <1>3, <1>4, <1>5 DEF List!Suits, Fits, Seats

---------------------------------------------------------------------------
(* Nothing on the list changes.                                            *)
LEMMA ListKept ==
  ASSUME UNCHANGED <<slots, tableIndex>>, Came' = Came, Paid' = Paid,
         \A h, g \in Group : Ahead(h, g)' <=> Ahead(h, g)
  PROVE  UNCHANGED List!vars
<1>1. Order' = Order
  BY DEF Order
<1>2. QED
  BY <1>1 DEF List!vars, Came, Order, Paid

(* The service gives a table to somebody at the door or in the line.       *)
LEMMA ListGive ==
  ASSUME ListInv, NEW k \in Group, NEW there, Seat(k, there),
         k \in AtDoor \cup Queued, UNCHANGED <<stage, tableIndex>>,
         \A h, g \in Group : Ahead(h, g)' <=> Ahead(h, g) /\ k \notin {h, g},
         \A h \in Group : Ahead(h, k) => ~CanSit(h)
  PROVE  \E t \in Table : List!Give(k, t)
<1> DEFINE t == TableFor(k)
<1>1. t \in Table /\ Fits(k, t) /\ slots' = [slots EXCEPT ![t] = @ \cup {k}]
  BY TableFound DEF Seat
<1> HIDE DEF t
<1>2. opened
  BY <1>1, FitsWhenOpen DEF ListInv, Inv
<1>3. k \in List!Waiting /\ List!Suits(k, t)
  BY <1>1, <1>2, ListWaiting, ListSuits
<1>4. \A h \in Group : Ahead(h, k) => \A u \in Table : ~List!Suits(h, u)
  BY <1>2, ListSuits DEF CanSit
<1>5. \A h \in Group : <<h, k>> \in Order => \A u \in Table : ~List!Suits(h, u)
  BY <1>4 DEF Order
<1>6. Order' = {p \in Order : k \notin {p[1], p[2]}}
  BY DEF Order
<1>7. List!Give(k, t)
  BY <1>1, <1>3, <1>5, <1>6 DEF List!Give, Order, Came, Paid
<1>8. QED
  BY <1>1, <1>7

LEMMA ListStep == ListInv /\ [Next]_vars => [List!Next]_(List!vars)
<1> SUFFICES ASSUME ListInv, [Next]_vars PROVE List!Next \/ UNCHANGED List!vars
  OBVIOUS
<1> USE Kept
<1>0. TypeOK /\ Control /\ NoDuplicates /\ Places /\ Inv
  BY DEF ListInv, Inv
<1>1. ASSUME NEW k \in Group, ClientFork(k) \/ GroupEnter(k) PROVE UNCHANGED List!vars
  <2>1. /\ UNCHANGED <<inbox, line, request, slots, tableIndex>>
        /\ \A h \in Group : \/ stage'[h] = stage[h]
                            \/ /\ stage[h] \in {"unborn", "arriving"}
                               /\ stage'[h] \in {"arriving", "asking"}
    BY <1>0, <1>1 DEF ClientFork, GroupEnter, house, servant, TypeOK
  <2>2. Came' = Came /\ Paid' = Paid
    BY <2>1 DEF Came, Paid
  <2>3. QED
    BY <2>1, <2>2, AheadKept, ListKept
<1>2. ASSUME \/ ClientCount \/ ServiceSeatNobody \/ ServiceReply \/ ServiceOpenGate
             \/ ServicePassGate \/ UNCHANGED vars
      PROVE  UNCHANGED List!vars
  <2>1. UNCHANGED <<inbox, line, slots, tableIndex, stage>>
    BY <1>2 DEF ClientCount, ServiceSeatNobody, ServiceReply, ServiceOpenGate, ServicePassGate,
              house, groups, vars
  <2>2. AtDoor' = AtDoor
    <3>1. CASE UNCHANGED request
      BY <3>1
    <3>2. CASE ServiceOpenGate \/ ServicePassGate
      <4>1. request \in Request \ Bills /\ request' = IF request.type = "ASSIGN" THEN request ELSE None
        BY <1>0, <3>2 DEF ServiceOpenGate, ServicePassGate, Control
      <4>2. QED
        BY <4>1, Hands, Hands1
    <3>3. QED
      BY <1>2, <3>1, <3>2 DEF ClientCount, ServiceSeatNobody, ServiceReply, servant, vars
  <2>3. Came' = Came /\ Paid' = Paid
    BY <2>1 DEF Came, Paid
  <2>4. QED
    BY <2>1, <2>2, <2>3, AheadKept, ListKept
<1>3. CASE ClientWake
  <2>1. /\ UNCHANGED <<line, request, slots, tableIndex, stage>>
        /\ inbox' = Append(inbox, Message("BARRIER", None))
    BY <1>3 DEF ClientWake, house, servant, groups, Message
  <2>2. Came' = Came /\ Paid' = Paid
    BY <2>1 DEF Came, Paid
  <2>3. \A h, g \in Group : Ahead(h, g)' <=> Ahead(h, g)
    BY <1>0, <2>1, AheadOther, Requests
  <2>4. QED
    BY <2>1, <2>2, <2>3, ListKept
<1>4. ASSUME NEW k \in Group, GroupAsk(k) PROVE List!Ask(k)
  <2>1. /\ UNCHANGED <<line, request, slots, tableIndex>>
        /\ inbox' = Append(inbox, Message("ASSIGN", k)) /\ stage[k] = "asking"
        /\ \A h \in Group : stage'[h] = IF h = k THEN "waiting" ELSE stage[h]
    BY <1>0, <1>4 DEF GroupAsk, house, servant, staff, Message, TypeOK
  <2>2. k \notin Asked \cup AtDoor \cup Queued
    BY <1>0, <2>1 DEF Places
  <2>3. k \notin Came /\ Came' = Came \cup {k} /\ Paid' = Paid
    BY <2>1 DEF Came, Paid
  <2>4. \A h, g \in Group : Ahead(h, g)' <=> \/ Ahead(h, g)
                                             \/ /\ g = k /\ ClassOf(h) = ClassOf(k)
                                                /\ h \in List!Waiting
    <3>1. List!Waiting = Asked \cup AtDoor \cup Queued
      BY ListWaiting
    <3>2. QED
      BY <1>0, <2>1, <2>2, <3>1, AheadAsking
  <2>5. \A h \in Group : List!OfOneClass(h, k) <=> ClassOf(h) = ClassOf(k)
    BY DEF List!OfOneClass, ClassOf
  <2>6. List!Waiting \subseteq Group
    BY DEF List!Waiting
  <2>7. Order' = Order \cup {<<h, k>> : h \in {h \in List!Waiting : List!OfOneClass(h, k)}}
    BY <2>4, <2>5, <2>6 DEF Order
  <2>8. QED
    BY <2>1, <2>3, <2>7 DEF List!Ask, Came, Order, Paid
<1>5. ASSUME NEW k \in Group, GroupSit(k) PROVE \E t \in Table : List!SitDown(k, t)
  <2>1. /\ UNCHANGED <<inbox, line, request, slots>> /\ stage[k] = "waiting"
        /\ \A h \in Group : stage'[h] = IF h = k THEN "eating" ELSE stage[h]
    BY <1>0, <1>5 DEF GroupSit, house, servant, staff, TypeOK
  <2>2. PICK m \in mail : m.to = k /\ tableIndex' = [tableIndex EXCEPT ![k] = m.table]
    BY <1>5 DEF GroupSit
  <2>3. m \in AnswersTo(k) /\ AnswersTo(k) = {[to |-> k, table |-> t] : t \in TablesOf(k)}
    BY <2>1, <2>2 DEF AnswersTo, ListInv, Inv, Answers, AnswersAreTrue
  <2>4. PICK t \in Table : k \in slots[t] /\ m.table = t
    BY <2>3 DEF TablesOf
  <2>5. tableIndex[k] = None
    BY <2>1 DEF ListInv, Shown
  <2>6. Came' = Came /\ Paid' = Paid
    BY <2>1 DEF Came, Paid
  <2>7. Order' = Order
    BY <2>1, AheadKept DEF Order
  <2>8. List!SitDown(k, t)
    BY <2>1, <2>2, <2>4, <2>5, <2>6, <2>7 DEF List!SitDown, Came, Order, Paid
  <2>9. QED
    BY <2>8
<1>6. ASSUME NEW k \in Group, GroupPay(k) PROVE List!Pay(k)
  <2>1. /\ UNCHANGED <<line, request, slots, tableIndex>>
        /\ inbox' = Append(inbox, Message("FINISHED", k)) /\ stage[k] = "eating"
        /\ \A h \in Group : stage'[h] = IF h = k THEN "gone" ELSE stage[h]
    BY <1>0, <1>6 DEF GroupPay, house, servant, staff, Message, TypeOK
  <2>2. tableIndex[k] # None
    <3>1. TablesOf(k) = {tableIndex[k]}
      BY <2>1 DEF ListInv, Inv, Answers, AnswersAreTrue
    <3>2. QED
      BY <3>1, GuestsAssumption DEF TablesOf
  <2>3. Came' = Came /\ Paid' = Paid \cup {k} /\ k \notin Paid
    BY <2>1 DEF Came, Paid
  <2>4. \A h, g \in Group : Ahead(h, g)' <=> Ahead(h, g)
    BY <1>0, <2>1, AheadOther, Requests
  <2>5. Order' = Order
    BY <2>4 DEF Order
  <2>6. QED
    BY <2>1, <2>2, <2>3, <2>5 DEF List!Pay, Came, Order, Paid
<1>7. CASE ServiceRecv
  <2>1. /\ UNCHANGED <<line, slots, tableIndex, stage>> /\ service = "recv"
        /\ inbox # << >> /\ request' = Head(inbox) /\ inbox' = Tail(inbox)
    BY <1>7 DEF ServiceRecv, house, groups
  <2>2. AtDoor = {}
    BY <1>0, <2>1, Hands DEF Control
  <2>3. Came' = Came /\ Paid' = Paid
    BY <2>1 DEF Came, Paid
  <2>4. \A h, g \in Group : Ahead(h, g)' <=> Ahead(h, g)
    BY <1>0, <2>1, <2>2, AheadTaking
  <2>5. QED
    BY <2>1, <2>3, <2>4, ListKept
<1>8. CASE ServiceHold \/ ServiceQueue
  <2>1. /\ UNCHANGED <<inbox, slots, tableIndex, stage>> /\ request' = None
        /\ request \in Request \ Bills
        /\ IF request.type = "ASSIGN" THEN Push(request.group) ELSE UNCHANGED line
    BY <1>0, <1>8, Messages DEF ServiceHold, ServiceQueue, house, groups, Control
  <2>2. Came' = Came /\ Paid' = Paid /\ AtDoor' = {}
    BY <2>1, Hands1 DEF Came, Paid
  <2>3. CASE request.type = "ASSIGN"
    <3>1. request.group \in Group /\ AtDoor = {request.group}
      BY <2>1, <2>3, Messages, Hands
    <3>2. request.group \notin Queued \cup Asked
      BY <1>0, <3>1 DEF Places
    <3>3. \A h, g \in Group : Ahead(h, g)' <=> Ahead(h, g)
      BY <1>0, <2>1, <2>2, <2>3, <3>1, <3>2, AheadQueueing
    <3>4. QED
      BY <2>1, <2>2, <3>3, ListKept
  <2>4. CASE request.type # "ASSIGN"
    <3>1. AtDoor = {}
      BY <2>1, <2>4, Hands
    <3>2. QED
      BY <2>1, <2>2, <2>4, <3>1, AheadKept, ListKept
  <2>5. QED
    BY <2>3, <2>4
<1>9. CASE ServiceSeatNow
  <2> DEFINE k == request.group
  <2>1. /\ UNCHANGED <<inbox, line, tableIndex, stage>> /\ request' = None
        /\ request \in Asks /\ ~MustQueue(k) /\ \E there : Seat(k, there)
    BY <1>0, <1>9 DEF ServiceSeatNow, groups, Control
  <2>2. k \in Group /\ AtDoor = {k} /\ AtDoor' = {}
    BY <2>1, Hands, Hands1
  <2>3. line[ClassOf(k)] = << >>
    BY <2>1 DEF MustQueue
  <2>4. \A h \in Group : Ahead(h, k) => ~CanSit(h)
    BY <1>0, <1>9, <2>2, SeatedInTurn
  <2> HIDE DEF k
  <2>5. \A h, g \in Group : Ahead(h, g)' <=> Ahead(h, g) /\ k \notin {h, g}
    BY <1>0, <2>1, <2>2, <2>3, AheadServed
  <2>6. \E t \in Table : List!Give(k, t)
    BY <2>1, <2>2, <2>4, <2>5, ListGive
  <2>7. QED
    BY <2>2, <2>6 DEF List!Next
<1>10. ASSUME NEW c \in Class, ServiceSeatWaiting(c) PROVE List!Next
  <2> DEFINE i == Seatable(c)
             k == line[c][i]
  <2>1. /\ UNCHANGED <<inbox, tableIndex, stage, request>>
        /\ line' = [line EXCEPT ![c] = RemoveAt(@, i)] /\ \E there : Seat(k, there)
    BY <1>10 DEF ServiceSeatWaiting, groups
  <2>2. i \in DOMAIN line[c]
    <3>1. Seatable(c) \in 0 .. Len(line[c]) /\ Seatable(c) > 0 /\ line[c] \in Seq(Group)
      BY <1>0, <1>10, First DEF ServiceSeatWaiting, TypeOK
    <3>2. QED
      BY <3>1, LenProperties
  <2>3. k \in Queued /\ k \in Group
    <3> HIDE DEF i
    <3> QED
      BY <1>0, <2>1, <2>2, Calling
  <2>4. \A h \in Group : Ahead(h, k) => ~CanSit(h)
    BY <1>0, <1>10, <2>3, SeatedInTurn
  <2>5. \A h, g \in Group : Ahead(h, g)' <=> Ahead(h, g) /\ k \notin {h, g}
    <3> HIDE DEF i
    <3> QED
      BY <1>0, <2>1, <2>2, <2>3, AheadServed
  <2> HIDE DEF i, k
  <2>6. \E t \in Table : List!Give(k, t)
    BY <2>1, <2>3, <2>4, <2>5, ListGive
  <2>7. QED
    BY <2>3, <2>6 DEF List!Next
<1>11. CASE ServiceBill
  <2> DEFINE k == request.group
  <2>1. /\ UNCHANGED <<inbox, line, tableIndex, stage>> /\ request' = None /\ request \in Bills
    BY <1>0, <1>11 DEF ServiceBill, groups, Control
  <2>2. PICK t \in Table : k \in slots[t] /\ slots' = [slots EXCEPT ![t] = @ \ {k}]
    BY <1>11 DEF ServiceBill
  <2>3. AtDoor' = {} /\ AtDoor = {} /\ Paying = {k} /\ k \in Group
    BY <2>1, Hands, Hands1
  <2> HIDE DEF k
  <2>4. k \in Paid
    BY <1>0, <2>3 DEF Places, Paid
  <2>5. Came' = Came /\ Paid' = Paid
    BY <2>1 DEF Came, Paid
  <2>6. Order' = Order
    BY <2>1, <2>3, AheadKept DEF Order
  <2>7. List!Clear(k, t)
    BY <2>1, <2>2, <2>4, <2>5, <2>6 DEF List!Clear, Came, Order, Paid
  <2>8. QED
    BY <2>3, <2>7 DEF List!Next
<1>12. QED
  BY <1>1, <1>2, <1>3, <1>4, <1>5, <1>6, <1>7, <1>8, <1>9, <1>10, <1>11
     DEF Next, GroupStep, ServiceStep, Quiet, List!Next

LEMMA StartList ==
  ASSUME NEW open \in BOOLEAN, Start(open)
  PROVE  List!Init
<1>1. /\ inbox = << >> /\ request = None
      /\ line = [c \in Class |-> << >>] /\ slots = [t \in Table |-> {}]
      /\ stage = [g \in Group |-> "unborn"] /\ tableIndex = [g \in Group |-> None]
  BY DEF Start
<1>2. Places
  BY StartPlaces
<1>3. Asked = {} /\ Queued = {} /\ AtDoor = {}
  BY <1>1, Hands, Names DEF Asked, Queued, Range
<1>4. \A h, g \in Group : ~Ahead(h, g)
  BY <1>2, <1>3, AheadWaits
<1>5. QED
  BY <1>1, <1>4 DEF List!Init

(* Every behaviour of clients, groups and service is one of the guest list *)
(* that GuestList specifies: who has asked is given a table in the order   *)
(* of asking as far as tables suit, once, with room for it, sits down      *)
(* there, and frees the seats only after it has paid.                      *)
THEOREM KeepsTheGuestList == Spec => ImplementsGuestList
<1>1. Init => ListInv /\ List!Init
  BY StartListInv, StartList DEF Init
<1>2. ListInv /\ [Next]_vars => ListInv'
  BY NextInv, NextAccounts, NextShown DEF ListInv
<1>3. ListInv /\ [Next]_vars => [List!Next]_(List!vars)
  BY ListStep
<1>4. QED
  BY <1>1, <1>2, <1>3, PTL DEF Spec, ImplementsGuestList, List!Spec

---------------------------------------------------------------------------
(* The manager may be late: main starts it first and waits for nothing.    *)
(* Until it has set up the tables nobody can sit, so that when it does     *)
(* nothing changes but the number of seats.                                *)
LEMMA Opening ==
  ASSUME Inv, Accounts, ManagerOpen
  PROVE  /\ opened' = TRUE
         /\ UNCHANGED <<sem, created, client, stage, tableIndex, inbox, mail, line, slots,
                       occupiedSeats, guests, gateOpen, finished, service, stack, request, reply>>
<1>1. /\ Seated = {} /\ slots \in [Table -> SUBSET Group] /\ occupiedSeats \in [Table -> Int]
  BY DEF ManagerOpen, Accounts, Inv, TypeOK
<1>2. ASSUME NEW t \in Table PROVE slots[t] = {} /\ occupiedSeats[t] = 0
  <2>1. slots[t] = {}
    BY <1>1 DEF Seated, TablesOf
  <2>2. QED
    BY <2>1, FS_EmptySet DEF Accounts, People
<1>3. slots = [t \in Table |-> {}] /\ occupiedSeats = [t \in Table |-> 0]
  BY <1>1, <1>2
<1>4. QED
  BY <1>3 DEF ManagerOpen, groups, servant

ColdInv == ListInv /\ Gate /\ Room

LEMMA OpeningKeeps ==
  ASSUME ColdInv, ManagerOpen
  PROVE  ColdInv'
<1> USE Kept
<1>1. /\ opened' = TRUE
      /\ UNCHANGED <<sem, created, client, stage, tableIndex, inbox, mail, line, slots,
                    occupiedSeats, guests, gateOpen, finished, service, stack, request, reply>>
  BY Opening DEF ColdInv, ListInv
<1>2. TypeOK'
  BY <1>1 DEF ColdInv, ListInv, Inv, TypeOK
<1>3. Control'
  BY <1>1 DEF ColdInv, ListInv, Inv, Control
<1>4. NoDuplicates' /\ Places'
  BY <1>1 DEF ColdInv, ListInv, Inv, NoDuplicates, Places
<1>5. Answers'
  BY <1>1, Told DEF ColdInv, ListInv, Inv
<1>6. Accounts'
  BY <1>1 DEF ColdInv, ListInv, Accounts
<1>7. Shown'
  BY <1>1 DEF ColdInv, ListInv, Shown
<1>8. Gate'
  BY <1>1 DEF ColdInv, Gate, Gated
<1>9. Room'
  <2>1. \A c \in Class : Holding(c)' = Holding(c)
    BY <1>1 DEF Holding
  <2>2. QED
    BY <1>1, <2>1 DEF ColdInv, Room
<1>10. QED
  BY <1>2, <1>3, <1>4, <1>5, <1>6, <1>7, <1>8, <1>9 DEF ColdInv, ListInv, Inv

LEMMA StartColdInv == Start(FALSE) => ColdInv
  BY StartListInv, StartGate, StartRoom DEF ColdInv

LEMMA NextColdInv == ColdInv /\ [Next \/ ManagerOpen]_vars => ColdInv'
<1> SUFFICES ASSUME ColdInv, [Next \/ ManagerOpen]_vars PROVE ColdInv'
  OBVIOUS
<1>1. CASE ManagerOpen
  BY <1>1, OpeningKeeps
<1>2. CASE [Next]_vars
  BY <1>2, NextInv, NextAccounts, NextShown, NextGate, NextRoom DEF ColdInv, ListInv
<1>3. QED
  BY <1>1, <1>2

(* However late the manager is, no group is lost or told a table that is   *)
(* not its own, the seats are counted right, the lines are never overfull  *)
(* and nobody sits before the gate opens.  What does fail is that the line *)
(* is called: groups may wait for ever (EverybodySeated).                  *)
THEOREM LateManagerHarmsNobody ==
  ColdSpec => [](/\ TypeOK /\ OnePlaceEach /\ AnswersAreTrue /\ SeatsAccounted
                 /\ RoomToQueue /\ NobodyBeforeTheGate)
<1>1. ColdInv => /\ TypeOK /\ OnePlaceEach /\ AnswersAreTrue /\ SeatsAccounted
                 /\ RoomToQueue /\ NobodyBeforeTheGate
  BY OnePlace, SeatsTaken, RoomIsLeft, GateShut DEF ColdInv, ListInv, Inv, Answers
<1>2. QED
  BY StartColdInv, NextColdInv, <1>1, PTL DEF ColdSpec

(* Nor does a late manager change whose turn it is: nobody is seated       *)
(* before one of their class who asked earlier and could have been, and    *)
(* every entry in the guest list is made as promised.                      *)
THEOREM LateManagerKeepsTheOrder == ColdSpec => NoOvertaking /\ ImplementsGuestList
<1>1. ASSUME ColdInv, ManagerOpen
      PROVE  UNCHANGED List!vars /\ \A g \in Group : TablesOf(g)' = TablesOf(g)
  <2>1. UNCHANGED <<inbox, line, slots, tableIndex, stage, request>>
    BY <1>1, Opening DEF ColdInv, ListInv
  <2>2. Came' = Came /\ Paid' = Paid /\ AtDoor' = AtDoor
    BY <2>1, Kept DEF Came, Paid
  <2>3. QED
    BY <2>1, <2>2, Kept, AheadKept, ListKept
<1>2. ColdInv /\ [Next \/ ManagerOpen]_vars =>
        /\ [\A g \in Group : TablesOf(g) = {} /\ TablesOf(g)' # {} =>
              \A h \in Group : Ahead(h, g) => ~CanSit(h)]_vars
        /\ [List!Next]_(List!vars)
  <2> SUFFICES ASSUME ColdInv, [Next \/ ManagerOpen]_vars
               PROVE  /\ \A g \in Group : TablesOf(g) = {} /\ TablesOf(g)' # {} =>
                           \A h \in Group : Ahead(h, g) => ~CanSit(h)
                      /\ [List!Next]_(List!vars)
    OBVIOUS
  <2>1. CASE ManagerOpen
    BY <1>1, <2>1
  <2>2. CASE [Next]_vars
    BY <2>2, NobodyPassed, ListStep DEF ColdInv, ListInv
  <2>3. QED
    BY <2>1, <2>2
<1>3. Start(FALSE) => List!Init
  BY StartList
<1>4. QED
  BY StartColdInv, NextColdInv, <1>2, <1>3, PTL
     DEF ColdSpec, NoOvertaking, ImplementsGuestList, List!Spec
=============================================================================
