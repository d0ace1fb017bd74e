------------------------------ MODULE Seating ------------------------------
(***************************************************************************)
(* How a group gets from the street to a table: the client process that    *)
(* forks the groups (startClients), the groups themselves (groupLoop) and  *)
(* the service that queues them, seats them and clears their tables        *)
(* (startService).  They talk through two message queues, each bounded by  *)
(* a semaphore, and a waiting line per class bounded by a third one.       *)
(*                                                                         *)
(* A step is what a process does between two calls that can wait.  The     *)
(* lines and the tables are touched by the service alone, so the sections  *)
(* under SEM_MUTEX_QUEUE and SEM_MUTEX_STATE are one step each.  What a    *)
(* group does at its table is the subject of module Belt.                  *)
(***************************************************************************)
EXTENDS Integers, Sequences, FiniteSets, SequencesExt

CONSTANTS
  Group,             \* the groups that come
  Vip,               \* those with vipStatus
  Size,              \* groupSize
  TableCount,        \* TABLE_COUNT
  Capacity,          \* the seats of a table
  MaxTableSlots,     \* MAX_TABLE_SLOTS, the groups that may share a table
  MaxQueue,          \* MAX_QUEUE
  ClientQueueSize,   \* CLIENT_QUEUE_SIZE
  ServiceQueueSize,  \* SERVICE_QUEUE_SIZE
  FixedGroupCount,   \* FIXED_GROUP_COUNT; negative: no admission gate
  None               \* nobody, nothing

Table == 0 .. TableCount - 1
Class == {"VIP", "NORMAL"}
ClassOf(g) == IF g \in Vip THEN "VIP" ELSE "NORMAL"
QueueFree(c) == IF c = "VIP" THEN "QUEUE_FREE_VIP" ELSE "QUEUE_FREE_NORMAL"
Semaphore == {"CLIENT_FREE", "SERVICE_FREE", "QUEUE_FREE_VIP", "QUEUE_FREE_NORMAL", "TABLES"}
Request == [type : {"ASSIGN", "FINISHED"}, group : Group] \cup [type : {"BARRIER"}, group : {None}]
Reply   == [to : Group, table : Table]

ASSUME HouseAssumption ==
  /\ TableCount \in Nat \ {0} /\ MaxTableSlots \in Nat \ {0}
  /\ MaxQueue \in Nat \ {0}
  /\ ClientQueueSize \in Nat \ {0} /\ ServiceQueueSize \in Nat \ {0}
  /\ Capacity \in [Table -> Nat \ {0}]

ASSUME GuestsAssumption ==
  /\ IsFiniteSet(Group) /\ Vip \subseteq Group
  /\ None \notin Group \cup Table /\ None \notin Request \cup Reply
  /\ Size \in [Group -> Nat \ {0}]
  /\ FixedGroupCount \in Int /\ FixedGroupCount <= Cardinality(Group)
  /\ \A g \in Group : \E t \in Table :
       Capacity[t] >= Size[g] /\ (g \in Vip => Capacity[t] > 1)

VARIABLES
  sem,            \* the semaphores
  opened,         \* the manager has set up the tables
  created,        \* state->totalGroupsCreated
  client,         \* where the client process is
  stage,          \* how far a group has come
  tableIndex,     \* Group::tableIndex
  inbox,          \* the message queue to the service
  mail,           \* the message queue to the groups, addressed by mtype
  line,           \* vipQueue and normalQueue
  slots,          \* the groups in Table::slots
  occupiedSeats,  \* Table::occupiedSeats
  guests,         \* state->currentGuestCount
  gateOpen,       \* admissionGateOpen
  finished,       \* finishedGroups
  service,        \* where the service is
  stack,          \* where it returns to from tryAssignPendingGroups and a send
  request,        \* the request it works on, None when it has placed the group
  reply           \* the answer it is sending

house    == <<slots, occupiedSeats, guests>>
groups   == <<stage, tableIndex>>
staff    == <<opened, created, client>>
servant  == <<gateOpen, finished, service, stack, request, reply>>
vars == <<sem, staff, groups, inbox, mail, line, house, servant>>

---------------------------------------------------------------------------
(* The tables are zeroes until the manager has set them up.                *)
Seats(t) == IF opened THEN Capacity[t] ELSE 0
TotalSeats == Cardinality(UNION {{t} \X (1 .. Capacity[t]) : t \in Table})

(* Mutant: seats already taken are not deducted.                           *)
FitsEmpty(g, t) == /\ ~(g \in Vip /\ Seats(t) = 1)
                   /\ Seats(t) >= Size[g]
                   /\ Cardinality(slots[t]) < MaxTableSlots

(* assignTable: room, no VIP at a table for one, guests of one size only,  *)
(* and a free entry.                                                       *)
Fits(g, t) == /\ ~(g \in Vip /\ Seats(t) = 1)
              /\ Seats(t) - occupiedSeats[t] >= Size[g]
              /\ \A h, k \in slots[t] : Size[h] = Size[k]
              /\ Cardinality(slots[t]) < MaxTableSlots
CanSit(g) == \E t \in Table : Fits(g, t)
TableFor(g) == CHOOSE t \in Table : Fits(g, t) /\ \A u \in Table : Fits(g, u) => t <= u

(* The table is taken and the group's place in the line given back; the    *)
(* answer is still to be sent, after which the service goes on at there.   *)
Seat(g, there) ==
  LET t == TableFor(g) IN
  /\ CanSit(g)
  /\ slots' = [slots EXCEPT ![t] = @ \cup {g}]
  /\ occupiedSeats' = [occupiedSeats EXCEPT ![t] = @ + Size[g]]
  /\ guests' = guests + Size[g]
  /\ sem' = [sem EXCEPT ![QueueFree(ClassOf(g))] = @ + 1]
  /\ reply' = [to |-> g, table |-> t]
  /\ service' = "reply" /\ stack' = there

(* Mutant: the line is called from its end.                                *)
SeatableLast(c) == SelectLastInSeq(line[c], CanSit)

(* The first in line, if any, for whom there is a table.                   *)
Seatable(c) == SelectInSeq(line[c], CanSit)

Gated == FixedGroupCount > 0 /\ ~gateOpen

(* Mutant: the group gets into the line before the others.                 *)
PushFirst(g) == line' = [line EXCEPT ![ClassOf(g)] = <<g>> \o @]

Push(g) == line' = [line EXCEPT ![ClassOf(g)] = Append(@, g)]

---------------------------------------------------------------------------
Start(open) ==
  /\ sem = [s \in Semaphore |-> CASE s = "CLIENT_FREE" -> ClientQueueSize
                                  [] s = "SERVICE_FREE" -> ServiceQueueSize
                                  [] s \in {"QUEUE_FREE_VIP", "QUEUE_FREE_NORMAL"} -> MaxQueue
                                  [] s = "TABLES" -> TableCount]
  /\ opened = open
  /\ created = 0 /\ client = "fork"
  /\ stage = [g \in Group |-> "unborn"]
  /\ tableIndex = [g \in Group |-> None]
  /\ inbox = << >> /\ mail = {}
  /\ line = [c \in Class |-> << >>]
  /\ slots = [t \in Table |-> {}]
  /\ occupiedSeats = [t \in Table |-> 0]
  /\ guests = 0
  /\ gateOpen = FALSE /\ finished = 0
  /\ service = "recv" /\ stack = << >>
  /\ request = None /\ reply = None

Init == Start(TRUE)

---------------------------------------------------------------------------
(* Client process: startClients and handleCreateGroup.  The child runs     *)
(* before its parent has counted it.                                       *)
ClientFork(g) ==
  /\ client = "fork"
  /\ FixedGroupCount < 0 \/ created < FixedGroupCount
  /\ sem["CLIENT_FREE"] > 0
  /\ stage[g] = "unborn"
  /\ stage' = [stage EXCEPT ![g] = "arriving"]
  /\ client' = "count"
  /\ UNCHANGED <<sem, opened, created, tableIndex, inbox, mail, line, house, servant>>

(* Mutant: the service is not woken after the last group.                  *)
ClientCountOnly ==
  /\ client = "count" /\ client' = "fork"
  /\ created' = created + 1
  /\ UNCHANGED <<sem, opened, groups, inbox, mail, line, house, servant>>

ClientCount ==
  /\ client = "count"
  /\ created' = created + 1
  /\ client' = IF FixedGroupCount > 0 /\ created' = FixedGroupCount THEN "wake" ELSE "fork"
  /\ UNCHANGED <<sem, opened, groups, inbox, mail, line, house, servant>>

(* After the last group the service is told to look at the count again.    *)
ClientWake ==
  /\ client = "wake"
  /\ sem["CLIENT_FREE"] > 0
  /\ sem' = [sem EXCEPT !["CLIENT_FREE"] = @ - 1]
  /\ inbox' = Append(inbox, [type |-> "BARRIER", group |-> None])
  /\ client' = "fork"
  /\ UNCHANGED <<opened, created, groups, mail, line, house, servant>>

---------------------------------------------------------------------------
(* Mutant: the group does not wait for a place in the line.                *)
GroupEnterBold(g) ==
  /\ stage[g] = "arriving" /\ stage' = [stage EXCEPT ![g] = "asking"]
  /\ UNCHANGED <<sem, staff, tableIndex, inbox, mail, line, house, servant>>

(* Group process: groupLoop, admission control, request, answer, bill.     *)
GroupEnter(g) ==
  LET free == QueueFree(ClassOf(g)) IN
  /\ stage[g] = "arriving"
  /\ sem[free] > 0
  /\ sem' = [sem EXCEPT ![free] = @ - 1]
  /\ stage' = [stage EXCEPT ![g] = "asking"]
  /\ UNCHANGED <<staff, tableIndex, inbox, mail, line, house, servant>>

(* Mutant: queueSend does not wait for room in the queue.                  *)
GroupAskAtOnce(g) ==
  /\ stage[g] = "asking" /\ stage' = [stage EXCEPT ![g] = "waiting"]
  /\ sem' = [sem EXCEPT !["CLIENT_FREE"] = @ - 1]
  /\ inbox' = Append(inbox, [type |-> "ASSIGN", group |-> g])
  /\ UNCHANGED <<staff, tableIndex, mail, line, house, servant>>

GroupAsk(g) ==
  /\ stage[g] = "asking"
  /\ sem["CLIENT_FREE"] > 0
  /\ sem' = [sem EXCEPT !["CLIENT_FREE"] = @ - 1]
  /\ inbox' = Append(inbox, [type |-> "ASSIGN", group |-> g])
  /\ stage' = [stage EXCEPT ![g] = "waiting"]
  /\ UNCHANGED <<staff, tableIndex, mail, line, house, servant>>

(* Mutant: the group takes any answer, not that to its pid.                *)
GroupSitAnywhere(g) ==
  /\ stage[g] = "waiting" /\ stage' = [stage EXCEPT ![g] = "eating"]
  /\ \E m \in mail : mail' = mail \ {m} /\ tableIndex' = [tableIndex EXCEPT ![g] = m.table]
  /\ sem' = [sem EXCEPT !["SERVICE_FREE"] = @ + 1]
  /\ UNCHANGED <<staff, inbox, line, house, servant>>

GroupSit(g) ==
  /\ stage[g] = "waiting"
  /\ \E m \in mail : /\ m.to = g
                     /\ mail' = mail \ {m}
                     /\ tableIndex' = [tableIndex EXCEPT ![g] = m.table]
  /\ sem' = [sem EXCEPT !["SERVICE_FREE"] = @ + 1]
  /\ stage' = [stage EXCEPT ![g] = "eating"]
  /\ UNCHANGED <<staff, inbox, line, house, servant>>

GroupPay(g) ==
  /\ stage[g] = "eating"
  /\ sem["CLIENT_FREE"] > 0
  /\ sem' = [sem EXCEPT !["CLIENT_FREE"] = @ - 1]
  /\ inbox' = Append(inbox, [type |-> "FINISHED", group |-> g])
  /\ stage' = [stage EXCEPT ![g] = "gone"]
  /\ UNCHANGED <<staff, tableIndex, mail, line, house, servant>>

GroupStep(g) == GroupEnter(g) \/ GroupAsk(g) \/ GroupSit(g) \/ GroupPay(g)

---------------------------------------------------------------------------
(* Service: startService.                                                  *)
ServiceRecv ==
  /\ service = "recv" /\ inbox # << >>
  /\ request' = Head(inbox) /\ inbox' = Tail(inbox)
  /\ sem' = [sem EXCEPT !["CLIENT_FREE"] = @ + 1]
  /\ service' = IF request'.type = "FINISHED" THEN "bill" ELSE "gate"
  /\ UNCHANGED <<staff, groups, mail, line, house, gateOpen, finished, stack, reply>>

(* The gate is shut: a group that asks has to queue.                       *)
ServiceHold ==
  /\ service = "gate" /\ Gated /\ created < FixedGroupCount
  /\ IF request.type = "ASSIGN" THEN Push(request.group) ELSE UNCHANGED line
  /\ request' = None /\ service' = "recv"
  /\ UNCHANGED <<sem, staff, groups, inbox, mail, house, gateOpen, finished, stack, reply>>

(* All groups are there: those in line are seated first.                   *)
ServiceOpenGate ==
  /\ service = "gate" /\ Gated /\ created >= FixedGroupCount
  /\ gateOpen' = TRUE
  /\ service' = "seat"
  /\ stack' = << IF request.type = "ASSIGN" THEN "admit" ELSE "recv" >>
  /\ request' = IF request.type = "ASSIGN" THEN request ELSE None
  /\ UNCHANGED <<sem, staff, groups, inbox, mail, line, house, finished, reply>>

(* Mutant: nobody is held back at the gate.                                *)
ServicePassGateAlways ==
  /\ service = "gate"
  /\ IF request.type = "ASSIGN" THEN service' = "admit" /\ UNCHANGED request
                                ELSE service' = "recv" /\ request' = None
  /\ UNCHANGED <<sem, staff, groups, inbox, mail, line, house, gateOpen, finished, stack, reply>>

ServicePassGate ==
  /\ service = "gate" /\ ~Gated
  /\ IF request.type = "ASSIGN" THEN service' = "admit" /\ UNCHANGED request
                                ELSE service' = "recv" /\ request' = None
  /\ UNCHANGED <<sem, staff, groups, inbox, mail, line, house, gateOpen, finished, stack, reply>>

(* handleAssignGroup past the gate: the line comes first, then the seats   *)
(* of the house, then those of a table.                                    *)
MustQueue(g) == \/ line[ClassOf(g)] # << >>
                \/ TotalSeats - guests < Size[g]
                \/ ~CanSit(g)

ServiceQueue ==
  /\ service = "admit" /\ MustQueue(request.group)
  /\ Push(request.group)
  /\ request' = None /\ service' = "recv"
  /\ UNCHANGED <<sem, staff, groups, inbox, mail, house, gateOpen, finished, stack, reply>>

ServiceSeatNow ==
  /\ service = "admit" /\ ~MustQueue(request.group)
  /\ Seat(request.group, IF gateOpen THEN <<"seat", "recv">> ELSE <<"recv">>)
  /\ request' = None
  /\ UNCHANGED <<staff, groups, inbox, mail, line, gateOpen, finished>>

(* Mutant: the group that is seated stays in the line.                     *)
ServiceSeatWaitingTwice(c) ==
  /\ service = "seat" /\ Seatable(c) > 0
  /\ c = "NORMAL" => Seatable("VIP") = 0
  /\ Seat(line[c][Seatable(c)], <<"seat">> \o stack)
  /\ UNCHANGED <<staff, groups, inbox, mail, line, gateOpen, finished, request>>

(* tryAssignPendingGroups, one round: VIPs first.                          *)
ServiceSeatWaiting(c) ==
  LET i == Seatable(c) IN
  /\ service = "seat"
  /\ i > 0
  /\ c = "NORMAL" => Seatable("VIP") = 0
  /\ Seat(line[c][i], <<"seat">> \o stack)
  /\ line' = [line EXCEPT ![c] = RemoveAt(@, i)]
  /\ UNCHANGED <<staff, groups, inbox, mail, gateOpen, finished, request>>

ServiceSeatNobody ==
  /\ service = "seat" /\ \A c \in Class : Seatable(c) = 0
  /\ service' = Head(stack) /\ stack' = Tail(stack)
  /\ UNCHANGED <<sem, staff, groups, inbox, mail, line, house, gateOpen, finished, request, reply>>

ServiceReply ==
  /\ service = "reply"
  /\ sem["SERVICE_FREE"] > 0
  /\ sem' = [sem EXCEPT !["SERVICE_FREE"] = @ - 1]
  /\ mail' = mail \cup {reply}
  /\ reply' = None
  /\ service' = Head(stack) /\ stack' = Tail(stack)
  /\ UNCHANGED <<staff, groups, inbox, line, house, gateOpen, finished, request>>

(* Mutant: nobody is called from the line when a table is cleared.         *)
ServiceBillQuietly ==
  LET g == request.group IN
  /\ service = "bill"
  /\ \E t \in Table :
       /\ g \in slots[t]
       /\ slots' = [slots EXCEPT ![t] = @ \ {g}]
       /\ occupiedSeats' = [occupiedSeats EXCEPT ![t] = @ - Size[g]]
       /\ sem' = [sem EXCEPT !["TABLES"] = IF occupiedSeats'[t] = 0 THEN @ + 1 ELSE @]
  /\ guests' = guests - Size[g]
  /\ finished' = finished + 1
  /\ request' = None /\ service' = "recv"
  /\ UNCHANGED <<staff, groups, inbox, mail, line, gateOpen, stack, reply>>

(* handleGroupFinished: the table is cleared and the line called.  When    *)
(* finished reaches FixedGroupCount, main is told to shut down.            *)
ServiceBill ==
  LET g == request.group IN
  /\ service = "bill"
  /\ \E t \in Table :
       /\ g \in slots[t]
       /\ slots' = [slots EXCEPT ![t] = @ \ {g}]
       /\ occupiedSeats' = [occupiedSeats EXCEPT ![t] = @ - Size[g]]
       /\ sem' = [sem EXCEPT !["TABLES"] = IF occupiedSeats'[t] = 0 THEN @ + 1 ELSE @]
  /\ guests' = guests - Size[g]
  /\ finished' = finished + 1
  /\ request' = None
  /\ service' = "seat" /\ stack' = <<"recv">>
  /\ UNCHANGED <<staff, groups, inbox, mail, line, gateOpen, reply>>

ServiceStep == \/ ServiceRecv \/ ServiceHold \/ ServiceOpenGate \/ ServicePassGate
               \/ ServiceQueue \/ ServiceSeatNow \/ ServiceSeatNobody \/ ServiceReply
               \/ (\E c \in Class : ServiceSeatWaiting(c)) \/ ServiceBill

---------------------------------------------------------------------------
(* The end of the day: nobody is left to come, to wait or to pay.          *)
Quiet == /\ \A g \in Group : stage[g] = "gone"
         /\ inbox = << >> /\ service = "recv" /\ client = "fork"
         /\ UNCHANGED vars

Next == \/ \E g \in Group : ClientFork(g) \/ GroupStep(g)
        \/ ClientCount \/ ClientWake
        \/ ServiceStep
        \/ Quiet

Spec == Init /\ [][Next]_vars

(* Processes run, P() is granted in order of arrival, and a group at its   *)
(* table finishes eating (see ServedUnlessClogged in module Belt).         *)
Fairness == /\ WF_vars(\E g \in Group : ClientFork(g)) /\ WF_vars(ClientCount)
            /\ SF_vars(ClientWake)
            /\ \A g \in Group : SF_vars(GroupStep(g))
            /\ SF_vars(ServiceStep)

FairSpec == Spec /\ Fairness

(* main waits for nobody: the service may run before the manager has set   *)
(* up the tables.                                                          *)
ManagerOpen == /\ ~opened
               /\ opened' = TRUE
               /\ slots' = [t \in Table |-> {}]
               /\ occupiedSeats' = [t \in Table |-> 0]
               /\ UNCHANGED <<sem, created, client, groups, inbox, mail, line, guests, servant>>

ColdSpec == /\ Start(FALSE) /\ [][Next \/ ManagerOpen]_vars
            /\ Fairness /\ WF_vars(ManagerOpen)

---------------------------------------------------------------------------
(* The type of every variable.                                             *)
TypeOK ==
  /\ sem \in [Semaphore -> Nat]
  /\ opened \in BOOLEAN
  /\ created \in Nat
  /\ client \in {"fork", "count", "wake"}
  /\ stage \in [Group -> {"unborn", "arriving", "asking", "waiting", "eating", "gone"}]
  /\ tableIndex \in [Group -> Table \cup {None}]
  /\ inbox \in Seq(Request)
  /\ mail \subseteq Reply
  /\ line \in [Class -> Seq(Group)]
  /\ slots \in [Table -> SUBSET Group]
  /\ occupiedSeats \in [Table -> Int]
  /\ guests \in Int
  /\ gateOpen \in BOOLEAN
  /\ finished \in Nat
  /\ service \in {"recv", "gate", "admit", "seat", "reply", "bill"}
  /\ stack \in Seq({"recv", "admit", "seat"})
  /\ request \in Request \cup {None}
  /\ reply \in Reply \cup {None}

InHand(type) == {g \in Group : request = [type |-> type, group |-> g]}
InLine(g) == {i \in DOMAIN line[ClassOf(g)] : line[ClassOf(g)][i] = g}
Sent(type, g) == {i \in DOMAIN inbox : inbox[i] = [type |-> type, group |-> g]}
TablesOf(g) == {t \in Table : g \in slots[t]}
AnswersTo(g) == {m \in mail \cup ({reply} \ {None}) : m.to = g}

(* A group that has asked is in exactly one place, on its way to the       *)
(* service, in its hands, in the line or at one table, until its bill is   *)
(* handled: never lost, never seated twice.                                *)
OnePlaceEach == \A g \in Group :
  LET places == Cardinality(Sent("ASSIGN", g)) + Cardinality(InHand("ASSIGN") \cap {g})
                + Cardinality(InLine(g)) + Cardinality(TablesOf(g))
      billed == stage[g] = "gone" /\ Sent("FINISHED", g) = {} /\ g \notin InHand("FINISHED")
  IN places = IF stage[g] \in {"waiting", "eating", "gone"} /\ ~billed THEN 1 ELSE 0

(* The only answers under way are those to groups that wait and have been  *)
(* given a table, and a group eats at the table the service keeps for it.  *)
AnswersAreTrue == \A g \in Group :
  /\ AnswersTo(g) = IF stage[g] = "waiting" THEN {[to |-> g, table |-> t] : t \in TablesOf(g)}
                                            ELSE {}
  /\ stage[g] = "eating" => TablesOf(g) = {tableIndex[g]}

(* service.cpp:199, the line is "protected by semaphore backpressure":     *)
(* when the service comes to queue a group there is room, in spite of      *)
(* places given back before the answer is sent.                            *)
RoomToQueue ==
  /\ \A g \in InHand("ASSIGN") : Len(line[ClassOf(g)]) < MaxQueue
  /\ \A c \in Class :
       sem[QueueFree(c)] + Cardinality({g \in Group : /\ ClassOf(g) = c
                                                      /\ stage[g] \in {"asking", "waiting"}
                                                      /\ TablesOf(g) = {}}) = MaxQueue

(* The persons of a set of groups, each in a seat of their own.            *)
People(S) == UNION {{g} \X (1 .. Size[g]) : g \in S}

(* Seats are counted per table and for the house, nobody sits on the       *)
(* floor, and no VIP at a table for one.                                   *)
SeatsAccounted ==
  /\ \A t \in Table :
       /\ occupiedSeats[t] = Cardinality(People(slots[t]))
       /\ occupiedSeats[t] <= Capacity[t]
       /\ Capacity[t] = 1 => slots[t] \cap Vip = {}
  /\ guests = Cardinality(People(UNION {slots[t] : t \in Table}))

(* service.cpp:211, "Wait for all N groups to be created before letting    *)
(* ANYONE in", although requests overtake the count.                       *)
NobodyBeforeTheGate ==
  FixedGroupCount > 0 /\ created < FixedGroupCount => \A t \in Table : slots[t] = {}

(* Nobody waits in vain: when the service rests with the gate open, people *)
(* are in line only while others are at table, whose leaving will call     *)
(* them.                                                                   *)
NobodyWaitsInVain ==
  service = "recv" /\ ~Gated /\ (\E c \in Class : line[c] # << >>) =>
    \E t \in Table : slots[t] # {}

(* Of two groups of a class that wait, h has asked before g.               *)
Ahead(h, g) ==
  /\ ClassOf(h) = ClassOf(g)
  /\ \/ \E i \in InLine(h), j \in InLine(g) : i < j
     \/ InLine(h) # {} /\ (g \in InHand("ASSIGN") \/ Sent("ASSIGN", g) # {})
     \/ h \in InHand("ASSIGN") /\ Sent("ASSIGN", g) # {}
     \/ \E i \in Sent("ASSIGN", h), j \in Sent("ASSIGN", g) : i < j

(* service.cpp:232, "new groups MUST queue first": no group is seated      *)
(* while one of its class that asked before it could have been.            *)
NoOvertaking ==
  [][\A g \in Group : TablesOf(g) = {} /\ TablesOf(g)' # {} =>
       \A h \in Group : Ahead(h, g) => ~CanSit(h)]_vars

(* README.md:346: every group is served, however the line, the gate, the   *)
(* queues and the tables are sized.                                        *)
EverybodySeated == \A g \in Group : <>(stage[g] = "eating")
===========================================================================
