-------------------------- MODULE ShutdownProofs --------------------------
(***************************************************************************)
(* What module Shutdown guarantees for every number of groups and every    *)
(* moment of a signal: the tokens of the reaper add up, when main reports, *)
(* every process it and its children have forked is gone, and the service  *)
(* ends the evening only after the last bill.                              *)
(*                                                                         *)
(* The argument: a process is only where its code goes (Roles); groups are *)
(* born in order, so a fork is a birth (Births); the tokens follow the     *)
(* groups (TokensSuffice); hence the reaper cannot leave before the main   *)
(* thread has closed and the last group is gone (Order), and main waits    *)
(* for that thread.  The last bill is the last because a group that has    *)
(* neither left nor paid is counted (House, Bills).                        *)
(***************************************************************************)
EXTENDS Shutdown, FiniteSetTheorems, SequenceTheorems, TLAPS

GroupStages   == {"unborn", "enter", "loop", "recv", "eat", "zombie", "gone"}
ClientsStages == {"loop", "fork", "count", "nap", "close", "join", "done"}
ManagerStages == {"loop", "pause", "woken", "reset", "done"}
ServiceStages == {"loop", "recv", "serve", "done", "crashed"}

Roles ==
  /\ \A g \in Group : stage[g] \in GroupStages
  /\ stage["clients"] \in ClientsStages
  /\ stage["manager"] \in ManagerStages
  /\ stage["service"] \in ServiceStages

(* Those that are still to be reaped.                                      *)
Living == {g \in Group : stage[g] \notin {"unborn", "gone"}}

LEMMA Apart ==
  /\ \A g \in Group : g \notin {"clients", "manager", "service", "main"} /\ g \in Process
  /\ {"clients", "manager", "service"} \subseteq Process /\ "main" \notin Process
  BY StaffAssumption DEF Staff, Process

LEMMA GroupFinite == IsFiniteSet(Group)
<1> DEFINE f == [i \in 1 .. Len(Groups) |-> Groups[i]]
<1>1. Groups \in Seq(Group) /\ Len(Groups) \in Nat /\ DOMAIN Groups = 1 .. Len(Groups)
  BY StaffAssumption, LenProperties
<1>2. f \in Surjection(1 .. Len(Groups), Group)
  <2>1. f \in [1 .. Len(Groups) -> Group]
    BY <1>1 DEF Group
  <2>2. \A g \in Group : \E i \in 1 .. Len(Groups) : f[i] = g
    BY <1>1 DEF Group
  <2>3. QED
    BY <2>1, <2>2 DEF Surjection
<1>3. IsFiniteSet(1 .. Len(Groups))
  BY <1>1, FS_Interval
<1> HIDE DEF f
<1>4. QED
  BY <1>2, <1>3, FS_Surjection

LEMMA LivingFinite == IsFiniteSet(Living) /\ Cardinality(Living) \in Nat
<1>1. Living \in SUBSET Group
  BY DEF Living
<1>2. IsFiniteSet(Living)
  BY <1>1, GroupFinite, FS_Subset
<1>3. QED
  BY <1>2, FS_CardinalityType

(* The first n groups are n.                                               *)
LEMMA FirstGroups ==
  ASSUME NEW n \in 0 .. Len(Groups)
  PROVE  Cardinality({Groups[i] : i \in 1 .. n}) = n
<1> DEFINE f == [i \in 1 .. n |-> Groups[i]]
           S == {Groups[i] : i \in 1 .. n}
<1>1. Len(Groups) \in Nat /\ DOMAIN Groups = 1 .. Len(Groups)
  BY StaffAssumption, LenProperties
<1>2. \A i, j \in 1 .. n : Groups[i] = Groups[j] => i = j
  BY <1>1, StaffAssumption
<1>3. f \in Bijection(1 .. n, S)
  <2>1. f \in [1 .. n -> S]
    OBVIOUS
  <2>2. \A i, j \in 1 .. n : f[i] = f[j] => i = j
    BY <1>2
  <2>3. \A x \in S : \E i \in 1 .. n : f[i] = x
    OBVIOUS
  <2>4. QED
    BY <2>1, <2>2, <2>3 DEF Bijection, Injection, IsInjective, Surjection
<1>4. IsFiniteSet(1 .. n) /\ Cardinality(1 .. n) = n
  BY <1>1, FS_Interval
<1> HIDE DEF f, S
<1>5. Cardinality(S) = n
  BY <1>3, <1>4, FS_Bijection DEF ExistsBijection
<1>6. QED
  BY <1>5 DEF S

---------------------------------------------------------------------------
(* A signal moves nobody but those who sleep, and wakes them.              *)
LEMMA Signalled ==
  ASSUME TypeOK, Roles, NEW s, NEW sender \in {"main", "manager", "clients"},
         SignalAll(sender, s)
  PROVE  /\ \A p \in Process : p # sender =>
              /\ stage[p] \in {"recv", "nap"} => stage'[p] = "loop"
              /\ stage[p] = "pause" => stage'[p] = "woken"
              /\ stage[p] \notin {"recv", "nap", "pause"} => stage'[p] = stage[p]
         /\ sender \in Process => stage'[sender] = s /\ flag'[sender]
         /\ DOMAIN stage' = Process /\ flag' \in [Process -> BOOLEAN]
         /\ \A p \in Process : flag[p] => flag'[p]
         /\ managerCmd' = "close"
<1>1. stage' = [p \in Process |-> IF p = sender THEN s ELSE Woken(p)]
  BY DEF SignalAll
<1>2. \A p \in Process : /\ stage[p] \in {"recv", "nap"} => Woken(p) = "loop"
                         /\ stage[p] = "pause" => Woken(p) = "woken"
                         /\ stage[p] \notin {"recv", "nap", "pause"} => Woken(p) = stage[p]
  BY DEF Woken, At
<1>3. flag' = [p \in Process |-> flag[p] \/ p = sender \/ (Alive(p) /\ p # "manager")]
      /\ managerCmd' = "close"
  BY DEF SignalAll
<1>4. \A p \in Process : p # sender => stage'[p] = Woken(p)
  BY <1>1
<1>5. sender \in Process => stage'[sender] = s
  BY <1>1
<1>6. DOMAIN stage' = Process
  BY <1>1
<1>7. flag' \in [Process -> BOOLEAN] /\ (sender \in Process => flag'[sender])
      /\ \A p \in Process : flag[p] => flag'[p]
  BY <1>3
<1>8. QED
  BY <1>2, <1>3, <1>4, <1>5, <1>6, <1>7

(* What the signal costs the reaper.                                       *)
LEMMA Hit ==
  ASSUME TypeOK, NEW n \in Nat, ReaperHit(n)
  PROVE  /\ tokens' = tokens + n
         /\ \/ reaper = "reap" /\ reaper' = "sem" /\ spoilt' = spoilt + 1
            \/ UNCHANGED <<reaper, spoilt>>
  BY DEF ReaperHit

Stages == GroupStages \cup ClientsStages \cup ManagerStages \cup ServiceStages
Staged == stage \in [Process -> Stages] /\ Roles

(* A process goes to a place of its own.                                   *)
LEMMA Going ==
  ASSUME Staged, NEW p \in Process, NEW s, Goto(p, s),
         p \in Group => s \in GroupStages, p = "clients" => s \in ClientsStages,
         p = "manager" => s \in ManagerStages, p = "service" => s \in ServiceStages
  PROVE  Staged' /\ \A q \in Process : stage'[q] = IF q = p THEN s ELSE stage[q]
<1>1. stage' = [stage EXCEPT ![p] = s] /\ stage \in [Process -> Stages]
  BY DEF Goto, Staged
<1>2. s \in Stages
  BY DEF Stages, Process, Staff
<1>3. stage' \in [Process -> Stages] /\ \A q \in Process : stage'[q] = IF q = p THEN s ELSE stage[q]
  BY <1>1, <1>2
<1>4. Roles'
  BY <1>3, Apart DEF Roles, Staged
<1>5. QED
  BY <1>3, <1>4 DEF Staged

LEMMA SignalledStages ==
  ASSUME TypeOK, Staged, NEW s, NEW sender \in {"main", "manager", "clients"},
         SignalAll(sender, s),
         sender = "clients" => s = "join", sender = "manager" => s = "reset"
  PROVE  Staged'
<1>1. /\ \A p \in Process : p # sender =>
              /\ stage[p] \in {"recv", "nap"} => stage'[p] = "loop"
              /\ stage[p] = "pause" => stage'[p] = "woken"
              /\ stage[p] \notin {"recv", "nap", "pause"} => stage'[p] = stage[p]
      /\ sender \in Process => stage'[sender] = s
  BY Signalled DEF Staged
<1>2. stage' = [p \in Process |-> IF p = sender THEN s ELSE Woken(p)]
  BY DEF SignalAll
<1>3. \A g \in Group : stage'[g] \in GroupStages
  <2>1. SUFFICES ASSUME NEW g \in Group PROVE stage'[g] \in GroupStages
    OBVIOUS
  <2>2. g \in Process /\ g # sender /\ stage[g] \in GroupStages
    BY Apart DEF Staged, Roles
  <2>3. QED
    BY <1>1, <2>2 DEF GroupStages
<1>4. stage'["clients"] \in ClientsStages
  BY <1>1, Apart DEF Staged, Roles, ClientsStages
<1>5. stage'["manager"] \in ManagerStages
  BY <1>1, Apart DEF Staged, Roles, ManagerStages
<1>6. stage'["service"] \in ServiceStages
  BY <1>1, Apart DEF Staged, Roles, ServiceStages
<1>7. Roles'
  BY <1>3, <1>4, <1>5, <1>6 DEF Roles
<1>8. stage' \in [Process -> Stages]
  <2>1. \A p \in Process : stage'[p] \in Stages
    BY <1>3, <1>4, <1>5, <1>6 DEF Stages, Process, Staff
  <2>2. QED
    BY <1>2, <2>1
<1>9. QED
  BY <1>7, <1>8 DEF Staged

(* The variables but the stages.                                           *)
Typed == /\ flag \in [Process -> BOOLEAN]
         /\ managerCmd \in {"none", "speed", "close"} /\ changes \in 0 .. SpeedSignals
         /\ interrupt \in BOOLEAN
         /\ main \in {"wait", "done"}
         /\ tokens \in Nat /\ reaper \in {"sem", "reap", "done"} /\ spoilt \in Nat
         /\ inbox \subseteq {"ASSIGN", "FINISHED", "BARRIER"} \X Group
         /\ line \subseteq Group /\ mail \subseteq Group /\ seated \subseteq Group
         /\ finished \in Nat

LEMMA Types == TypeOK <=> stage \in [Process -> Stages] /\ Typed
<1>1. Stages = {"unborn", "loop", "pause", "woken", "reset",
                "recv", "serve", "fork", "count", "nap", "close", "join",
                "enter", "eat", "zombie", "gone", "done", "crashed"}
  BY DEF Stages, GroupStages, ClientsStages, ManagerStages, ServiceStages
<1>2. QED
  BY <1>1 DEF TypeOK, Typed

LEMMA InitTypes == Init => Staged /\ Typed
<1>1. SUFFICES ASSUME Init PROVE Staged /\ Typed
  OBVIOUS
<1>2. /\ \A g \in Group : stage[g] = "unborn"
      /\ stage["clients"] = "loop" /\ stage["manager"] = "loop" /\ stage["service"] = "loop"
  BY <1>1, Apart DEF Init
<1>3. Roles
  BY <1>2 DEF Roles, GroupStages, ClientsStages, ManagerStages, ServiceStages
<1>4. stage \in [Process -> Stages]
  BY <1>1 DEF Init, Stages, GroupStages, ClientsStages
<1>5. Typed
  <2>1. changes \in 0 .. SpeedSignals /\ tokens \in Nat /\ spoilt \in Nat /\ finished \in Nat
    BY <1>1, StaffAssumption DEF Init
  <2>2. flag \in [Process -> BOOLEAN] /\ interrupt \in BOOLEAN
    BY <1>1 DEF Init
  <2>3. QED
    BY <1>1, <2>1, <2>2 DEF Init, Typed
<1>6. QED
  BY <1>3, <1>4, <1>5 DEF Staged

(* The manager, the service and the groups keep to their places.           *)
LEMMA StaffTypes ==
  ASSUME Staged, Typed,
         ManagerStep \/ ServiceStep \/ (\E g \in Group : GroupStep(g)) \/ MainEnd \/ UserSpeed
  PROVE  Staged' /\ Typed'
<1>0. {"clients", "manager", "service"} \subseteq Process /\ "manager" \notin Group
      /\ "service" \notin Group
      /\ \A g \in Group : g \in Process /\ g \notin {"clients", "manager", "service"}
  BY Apart
<1>1. TypeOK
  BY Types DEF Staged
<1>2. ASSUME ManagerLoop \/ ManagerSpeed \/ ManagerReset \/ UserSpeed PROVE Staged' /\ Typed'
  <2>1. PICK s \in {"done", "pause", "reset", "loop", stage["manager"], "woken"} : Goto("manager", s)
    BY <1>2 DEF ManagerLoop, ManagerSpeed, ManagerReset, UserSpeed, Woken
  <2>2. s \in ManagerStages
    BY <2>1 DEF Staged, Roles, ManagerStages
  <2>3. Staged'
    BY <1>0, <2>1, <2>2, Going
  <2>4. Typed'
    BY <1>2, StaffAssumption
       DEF ManagerLoop, ManagerSpeed, ManagerReset, UserSpeed, Typed, command, reaping, house
  <2>5. QED
    BY <2>3, <2>4
<1>3. ASSUME ManagerClose PROVE Staged' /\ Typed'
  <2>1. SignalAll("manager", "reset") /\ UNCHANGED <<changes, interrupt, main, house>>
        /\ (ReaperHit(0) \/ UNCHANGED reaping)
    BY <1>3 DEF ManagerClose, KillAll
  <2>2. Staged'
    BY <1>1, <2>1, SignalledStages
  <2>3. flag' \in [Process -> BOOLEAN] /\ managerCmd' = "close"
    BY <1>1, <2>1, Signalled DEF Staged
  <2>4. tokens' \in Nat /\ reaper' \in {"sem", "reap", "done"} /\ spoilt' \in Nat
    BY <2>1 DEF ReaperHit, reaping, Typed
  <2>5. QED
    BY <2>1, <2>2, <2>3, <2>4 DEF Typed, house
<1>4. ASSUME ServiceLoop \/ ServiceRecv PROVE Staged' /\ Typed'
  <2>1. PICK s \in {"done", "recv", "serve"} : Goto("service", s)
    BY <1>4 DEF ServiceLoop, ServiceRecv
  <2>2. Staged'
    BY <1>0, <2>1, Going DEF ServiceStages
  <2>3. QED
    BY <1>4, <2>2 DEF ServiceLoop, ServiceRecv, Typed, command, reaping, house
<1>5. ASSUME NEW type \in {"ASSIGN", "FINISHED", "BARRIER"}, NEW g \in Group, ServiceServe(type, g)
      PROVE  Staged' /\ Typed'
  <2>1. PICK S \in SUBSET Group :
          LET waiting == line \cup (IF type = "ASSIGN" THEN {g} ELSE {})
              staying == seated \ (IF type = "FINISHED" THEN {g} ELSE {})
          IN /\ seated' = staying \cup S
             /\ \/ line' = line \ S /\ UNCHANGED mail
                   /\ Goto("service", IF type = "ASSIGN" /\ g \notin S THEN "crashed" ELSE "loop")
                \/ line' = waiting \ S /\ mail' = mail \cup S /\ Goto("service", "loop")
    BY <1>5 DEF ServiceServe
  <2>2. line' \subseteq Group /\ mail' \subseteq Group /\ seated' \subseteq Group
    BY <2>1 DEF Typed
  <2>3. PICK s \in {"crashed", "loop"} : Goto("service", s)
    BY <2>1
  <2>4. Staged'
    BY <1>0, <2>3, Going DEF ServiceStages
  <2>5. inbox' = inbox \ {<<type, g>>} /\ finished' \in Nat /\ interrupt' \in BOOLEAN
        /\ UNCHANGED <<flag, command, main, reaping>>
    BY <1>5 DEF ServiceServe, Typed
  <2>6. QED
    BY <2>2, <2>4, <2>5 DEF Typed, command, reaping
<1>6. ASSUME NEW g \in Group, GroupStep(g) PROVE Staged' /\ Typed'
  <2>1. PICK s \in {"loop", "zombie", "recv", "eat"} : Goto(g, s)
    BY <1>6 DEF GroupStep, GroupAsk, GroupLoop, GroupSit, GroupLeave
  <2>2. Staged'
    BY <1>0, <2>1, Going DEF GroupStages
  <2>3. /\ inbox' \subseteq inbox \cup ({"ASSIGN", "FINISHED"} \X Group)
        /\ mail' \subseteq mail
        /\ UNCHANGED <<flag, command, interrupt, main, reaping, line, seated, finished>>
    BY <1>6 DEF GroupStep, GroupAsk, GroupLoop, GroupSit, GroupLeave, house
  <2>4. inbox' \subseteq {"ASSIGN", "FINISHED", "BARRIER"} \X Group
    BY <2>3 DEF Typed
  <2>5. QED
    BY <2>2, <2>3, <2>4 DEF Typed, command, reaping
<1>7. ASSUME MainEnd PROVE Staged' /\ Typed'
  BY <1>7 DEF MainEnd, Staged, Roles, Typed, command, reaping, house
<1>8. QED
  BY <1>2, <1>3, <1>4, <1>5, <1>6, <1>7 DEF ManagerStep, ServiceStep

LEMMA ClientsTypes ==
  ASSUME Staged, Typed,
         ClientsStep \/ ReaperStep \/ MainForward \/ UserInterrupt \/ UNCHANGED vars
  PROVE  Staged' /\ Typed'
<1>0. "clients" \in Process /\ "clients" \notin Group
      /\ \A g \in Group : g \in Process /\ g \notin {"clients", "manager", "service"}
  BY Apart
<1>1. TypeOK
  BY Types DEF Staged
<1>2. ASSUME ClientsLoop \/ ClientsJoin PROVE Staged' /\ Typed'
  <2>1. PICK s \in {"close", "fork", "nap", "done"} : Goto("clients", s)
    BY <1>2 DEF ClientsLoop, ClientsJoin
  <2>2. Staged'
    BY <1>0, <2>1, Going DEF ClientsStages
  <2>3. QED
    BY <1>2, <2>2 DEF ClientsLoop, ClientsJoin, Typed, command, reaping, house
<1>3. ASSUME NEW g \in Group, ClientsFork(g) PROVE Staged' /\ Typed'
  <2>1. stage' = [stage EXCEPT !["clients"] = "count", ![g] = "enter"]
        /\ flag' = [flag EXCEPT ![g] = flag["clients"]]
        /\ UNCHANGED <<command, interrupt, main, reaping, house>>
    BY <1>3 DEF ClientsFork
  <2>2. stage' \in [Process -> Stages]
        /\ \A p \in Process : stage'[p] = IF p = g THEN "enter"
                                          ELSE IF p = "clients" THEN "count" ELSE stage[p]
    BY <1>0, <2>1 DEF Staged, Stages, GroupStages, ClientsStages
  <2>3. Roles'
    BY <2>2, Apart DEF Staged, Roles, GroupStages, ClientsStages
  <2>4. flag' \in [Process -> BOOLEAN]
    BY <1>0, <2>1 DEF Typed
  <2>5. QED
    BY <2>1, <2>2, <2>3, <2>4 DEF Staged, Typed, command, reaping, house
<1>4. ASSUME ClientsCount PROVE Staged' /\ Typed'
  <2>1. Staged'
    BY <1>0, <1>4, Going DEF ClientsCount, ClientsStages
  <2>2. inbox' \subseteq inbox \cup {<<"BARRIER", Groups[1]>>} /\ tokens' = tokens + 1
        /\ UNCHANGED <<flag, command, interrupt, main, reaper, spoilt, line, mail, seated, finished>>
    BY <1>4 DEF ClientsCount
  <2>3. Groups[1] \in Group
    BY StaffAssumption, LenProperties, EmptySeq DEF Group
  <2>4. QED
    BY <2>1, <2>2, <2>3 DEF Typed, command
<1>5. ASSUME ClientsClose \/ MainForward \/ UserInterrupt PROVE Staged' /\ Typed'
  <2>1. /\ \/ SignalAll("clients", "join") \/ SignalAll("main", "wait")
        /\ UNCHANGED <<changes, main, house>> /\ interrupt' \in BOOLEAN
        /\ (ReaperHit(0) \/ ReaperHit(1) \/ UNCHANGED reaping)
    BY <1>5 DEF ClientsClose, MainForward, UserInterrupt, KillAll, Typed
  <2>2. Staged'
    BY <1>1, <2>1, SignalledStages
  <2>3. flag' \in [Process -> BOOLEAN] /\ managerCmd' = "close"
    BY <1>1, <2>1, Signalled DEF Staged
  <2>4. tokens' \in Nat /\ reaper' \in {"sem", "reap", "done"} /\ spoilt' \in Nat
    BY <2>1 DEF ReaperHit, reaping, Typed
  <2>5. QED
    BY <2>1, <2>2, <2>3, <2>4 DEF Typed, house
<1>6. ASSUME ReaperTake \/ ReaperNobody PROVE Staged' /\ Typed'
  BY <1>6 DEF ReaperTake, ReaperNobody, Staged, Roles, Typed, command, house
<1>7. ASSUME NEW g \in Group, ReaperReap(g) PROVE Staged' /\ Typed'
  <2>1. Staged'
    BY <1>0, <1>7, Going DEF ReaperReap, GroupStages
  <2>2. QED
    BY <1>7, <2>1 DEF ReaperReap, Typed, command, house
<1>8. ASSUME UNCHANGED vars PROVE Staged' /\ Typed'
  BY <1>8 DEF vars, Staged, Roles, Typed, command, reaping, house
<1>9. QED
  BY <1>2, <1>3, <1>4, <1>5, <1>6, <1>7, <1>8 DEF ClientsStep, ReaperStep

LEMMA StepTypes == Staged /\ Typed /\ [Next]_vars => Staged' /\ Typed'
  BY StaffTypes, ClientsTypes DEF Next, Finished

---------------------------------------------------------------------------
(* The groups are born in order, and there is one left when one is forked. *)
Births ==
  /\ \E n \in 0 .. Len(Groups) : Born = {Groups[i] : i \in 1 .. n}
  /\ stage["clients"] = "fork" => Born # Group

(* The next group is one that is still unborn.                             *)
LEMMA NextBorn ==
  ASSUME Births, NEW g \in Group, g = Groups[Cardinality(Born) + 1], stage["clients"] = "fork"
  PROVE  /\ stage[g] = "unborn"
         /\ \E n \in 0 .. Len(Groups) : Born \cup {g} = {Groups[i] : i \in 1 .. n}
<1>0. Len(Groups) \in Nat /\ DOMAIN Groups = 1 .. Len(Groups)
  BY StaffAssumption, LenProperties
<1>1. PICK n \in 0 .. Len(Groups) : Born = {Groups[i] : i \in 1 .. n}
  BY DEF Births
<1>2. Cardinality(Born) = n
  BY <1>1, FirstGroups
<1>3. n # Len(Groups)
  <2>1. Group = {Groups[i] : i \in 1 .. Len(Groups)}
    BY <1>0 DEF Group
  <2>2. Born # Group
    BY DEF Births
  <2>3. QED
    BY <1>1, <2>1, <2>2
<1>4. n + 1 \in 1 .. Len(Groups) /\ g = Groups[n + 1]
  <2>1. n + 1 \in 1 .. Len(Groups)
    <3>1. Len(Groups) \in Nat /\ n \in 0 .. Len(Groups)
      BY <1>0, <1>1
    <3>2. QED
      BY <3>1, <1>3
  <2>2. g = Groups[n + 1]
    BY <1>2
  <2>3. QED
    BY <2>1, <2>2
<1>5. \A i \in 1 .. n : Groups[i] # g
  BY <1>0, <1>4, StaffAssumption
<1>6. g \notin Born
  BY <1>1, <1>5
<1>7. Born \cup {g} = {Groups[i] : i \in 1 .. n + 1}
  <2>1. n \in Nat /\ 1 .. n + 1 = (1 .. n) \cup {n + 1}
    BY <1>0, <1>1
  <2>2. QED
    BY <1>1, <1>4, <2>1
<1>8. n + 1 \in 0 .. Len(Groups)
  BY <1>0, <1>4
<1>9. QED
  BY <1>6, <1>7, <1>8 DEF Born, At

(* Who is born and who is left to reap changes only in three steps.        *)
LEMMA Kept ==
  ASSUME Staged, Staged', \A g \in Group : stage'[g] = "unborn" <=> stage[g] = "unborn"
  PROVE  /\ Born' = Born
         /\ (\A g \in Group : stage'[g] = "gone" <=> stage[g] = "gone") => Living' = Living
  BY DEF Born, Living, At

---------------------------------------------------------------------------
(* The tokens there are and will be, and those that were spoilt.           *)
Held == tokens + (IF reaper = "reap" THEN 1 ELSE 0)
               + (IF stage["clients"] = "count" THEN 1 ELSE 0)
               + (IF stage["clients"] = "join" THEN 0 ELSE 1) + spoilt
Enough == reaper # "done" => Held = Cardinality(Living) + 1

LEMMA EnoughSuffices == Staged => (Enough <=> TokensSuffice)
<1> SUFFICES ASSUME Staged PROVE Enough <=> TokensSuffice
  OBVIOUS
<1>1. Living = {g \in Group : Alive(g) \/ At(g, "zombie")}
  BY DEF Living, Alive, At, Staged, Roles, GroupStages
<1>2. QED
  BY <1>1 DEF Enough, Held, TokensSuffice, At

(* The reaper leaves after the last group and after the main thread has    *)
(* closed, which then follows it.                                          *)
Order ==
  /\ stage["clients"] = "join" => flag["clients"]
  /\ stage["clients"] = "done" => reaper = "done"
  /\ reaper = "done" => stage["clients"] \in {"join", "done"} /\ Living = {}

Inv == Staged /\ Typed /\ Births /\ Enough /\ Order

LEMMA InitInv == Init => Inv
<1> SUFFICES ASSUME Init PROVE Inv
  OBVIOUS
<1>1. Staged /\ Typed
  BY InitTypes
<1>2. Born = {} /\ Living = {} /\ stage["clients"] = "loop"
  BY Apart DEF Init, Born, Living, At
<1>3. Births
  <2>1. Len(Groups) \in Nat
    BY StaffAssumption, LenProperties
  <2>2. 0 \in 0 .. Len(Groups) /\ Born = {Groups[i] : i \in 1 .. 0}
    BY <1>2, <2>1
  <2>3. QED
    BY <1>2, <2>2 DEF Births
<1>4. Enough
  BY <1>2, FS_EmptySet DEF Init, Enough, Held
<1>5. Order
  BY <1>2 DEF Init, Order
<1>6. QED
  BY <1>1, <1>3, <1>4, <1>5 DEF Inv

(* Steps in which no group is born or reaped and no token is passed.       *)
LEMMA Calm ==
  ASSUME Inv, Staged', Typed',
         \A g \in Group : /\ stage'[g] = "unborn" <=> stage[g] = "unborn"
                          /\ stage'[g] = "gone" <=> stage[g] = "gone",
         \/ stage'["clients"] = stage["clients"]
         \/ stage["clients"] = "loop" /\ stage'["clients"] \in {"fork", "close", "nap"}
              /\ (stage'["clients"] = "fork" => Born # Group)
         \/ stage["clients"] = "nap" /\ stage'["clients"] = "loop",
         flag["clients"] => flag'["clients"],
         ReaperHit(0) \/ UNCHANGED reaping
  PROVE  Births' /\ Enough' /\ Order'
<1>1. Born' = Born /\ Living' = Living
  BY Kept DEF Inv
<1>2. /\ tokens' = tokens
      /\ \/ reaper = "reap" /\ reaper' = "sem" /\ spoilt' = spoilt + 1
         \/ UNCHANGED <<reaper, spoilt>>
  BY DEF ReaperHit, reaping, Inv, Typed
<1>3. Births'
  BY <1>1 DEF Births, Inv
<1>4. Enough'
  BY <1>1, <1>2 DEF Inv, Enough, Held, Typed
<1>5. Order'
  BY <1>1, <1>2 DEF Inv, Order
<1>6. QED
  BY <1>3, <1>4, <1>5

(* A signal to all is such a step for everybody but the one who closes.    *)
LEMMA CalmSignal ==
  ASSUME Inv, Staged', Typed', NEW s, NEW sender \in {"main", "manager"}, KillAll(sender, s)
  PROVE  Births' /\ Enough' /\ Order'
<1>1. SignalAll(sender, s) /\ (ReaperHit(0) \/ UNCHANGED reaping)
  BY DEF KillAll
<1>2. TypeOK /\ Roles
  BY Types DEF Inv, Staged
<1>3. /\ \A p \in Process : p # sender =>
              /\ stage[p] \in {"recv", "nap"} => stage'[p] = "loop"
              /\ stage[p] = "pause" => stage'[p] = "woken"
              /\ stage[p] \notin {"recv", "nap", "pause"} => stage'[p] = stage[p]
      /\ \A p \in Process : flag[p] => flag'[p]
  BY <1>1, <1>2, Signalled
<1>4. \A g \in Group : /\ stage'[g] = "unborn" <=> stage[g] = "unborn"
                       /\ stage'[g] = "gone" <=> stage[g] = "gone"
  <2>1. SUFFICES ASSUME NEW g \in Group
                 PROVE  /\ stage'[g] = "unborn" <=> stage[g] = "unborn"
                        /\ stage'[g] = "gone" <=> stage[g] = "gone"
    OBVIOUS
  <2>2. g \in Process /\ g # sender /\ stage[g] \in GroupStages
    BY <1>2, Apart DEF Roles
  <2>3. QED
    BY <1>3, <2>2 DEF GroupStages
<1>5. \/ stage'["clients"] = stage["clients"]
      \/ stage["clients"] = "nap" /\ stage'["clients"] = "loop"
  BY <1>2, <1>3, Apart DEF Roles, ClientsStages
<1>6. flag["clients"] => flag'["clients"]
  BY <1>3, Apart
<1>7. QED
  BY <1>1, <1>4, <1>5, <1>6, Calm

LEMMA NextInv == Inv /\ [Next]_vars => Inv'
<1> SUFFICES ASSUME Inv, [Next]_vars PROVE Inv'
  OBVIOUS
<1>0. Staged /\ Typed /\ Staged' /\ Typed'
  BY StepTypes DEF Inv
<1>a. SUFFICES Births' /\ Enough' /\ Order'
  BY <1>0 DEF Inv
<1>b. {"clients", "manager", "service"} \subseteq Process
      /\ \A g \in Group : g \in Process /\ g \notin {"clients", "manager", "service"}
  BY Apart
<1>c. ASSUME NEW p \in Process, NEW s, Goto(p, s)
      PROVE  \A q \in Process : stage'[q] = IF q = p THEN s ELSE stage[q]
  BY <1>0, <1>c DEF Goto, Staged
<1>1. ASSUME ManagerLoop \/ ManagerSpeed \/ ManagerReset \/ UserSpeed
      PROVE  Births' /\ Enough' /\ Order'
  <2>1. (\E s : Goto("manager", s)) /\ UNCHANGED <<flag, reaping>>
    BY <1>1 DEF ManagerLoop, ManagerSpeed, ManagerReset, UserSpeed
  <2>2. \A q \in Process : q # "manager" => stage'[q] = stage[q]
    BY <1>b, <1>c, <2>1
  <2>3. stage'["clients"] = stage["clients"] /\ \A g \in Group : stage'[g] = stage[g]
    BY <1>b, <2>2
  <2>4. QED
    BY <1>0, <2>1, <2>3, Calm
<1>2. ASSUME ManagerClose \/ MainForward \/ UserInterrupt PROVE Births' /\ Enough' /\ Order'
  BY <1>0, <1>2, CalmSignal DEF ManagerClose, MainForward, UserInterrupt
<1>3. ASSUME ServiceStep PROVE Births' /\ Enough' /\ Order'
  <2>1. (\E s : Goto("service", s)) /\ UNCHANGED <<flag, reaping>>
    BY <1>3 DEF ServiceStep, ServiceLoop, ServiceRecv, ServiceServe
  <2>2. \A q \in Process : q # "service" => stage'[q] = stage[q]
    BY <1>b, <1>c, <2>1
  <2>3. stage'["clients"] = stage["clients"] /\ \A g \in Group : stage'[g] = stage[g]
    BY <1>b, <2>2
  <2>4. QED
    BY <1>0, <2>1, <2>3, Calm
<1>4. ASSUME NEW g \in Group, GroupStep(g) PROVE Births' /\ Enough' /\ Order'
  <2>1. /\ \E s \in {"loop", "zombie", "recv", "eat"} : Goto(g, s)
        /\ stage[g] \in {"enter", "loop", "recv", "eat"}
        /\ UNCHANGED <<flag, reaping>>
    BY <1>4 DEF GroupStep, GroupAsk, GroupLoop, GroupSit, GroupLeave, At
  <2>2. stage'[g] \in {"loop", "zombie", "recv", "eat"}
        /\ \A q \in Process : q # g => stage'[q] = stage[q]
    BY <1>b, <1>c, <2>1
  <2>3. stage'["clients"] = stage["clients"] /\ \A h \in Group : h # g => stage'[h] = stage[h]
    BY <1>b, <2>2
  <2>4. \A h \in Group : /\ stage'[h] = "unborn" <=> stage[h] = "unborn"
                         /\ stage'[h] = "gone" <=> stage[h] = "gone"
    BY <2>1, <2>2, <2>3
  <2>5. QED
    BY <1>0, <2>1, <2>3, <2>4, Calm
<1>5. ASSUME ClientsLoop PROVE Births' /\ Enough' /\ Order'
  <2>1. PICK s \in {"close", "fork", "nap"} : Goto("clients", s) /\ (s = "fork" => Born # Group)
    BY <1>5 DEF ClientsLoop
  <2>2. stage["clients"] = "loop" /\ UNCHANGED <<flag, reaping>>
    BY <1>5 DEF ClientsLoop, At
  <2>3. stage'["clients"] = s /\ \A q \in Process : q # "clients" => stage'[q] = stage[q]
    BY <1>b, <1>c, <2>1
  <2>4. \A g \in Group : stage'[g] = stage[g]
    BY <1>b, <2>3
  <2>5. QED
    BY <1>0, <2>1, <2>2, <2>3, <2>4, Calm
<1>6. ASSUME NEW g \in Group, ClientsFork(g) PROVE Births' /\ Enough' /\ Order'
  <2>1. /\ stage["clients"] = "fork" /\ g = Groups[Cardinality(Born) + 1]
        /\ stage' = [stage EXCEPT !["clients"] = "count", ![g] = "enter"]
        /\ UNCHANGED reaping
    BY <1>6 DEF ClientsFork, At
  <2>2. /\ stage[g] = "unborn"
        /\ \E n \in 0 .. Len(Groups) : Born \cup {g} = {Groups[i] : i \in 1 .. n}
    BY <2>1, NextBorn DEF Inv
  <2>3. /\ stage'["clients"] = "count" /\ stage'[g] = "enter"
        /\ \A h \in Group : h # g => stage'[h] = stage[h]
    BY <1>0, <1>b, <2>1 DEF Staged
  <2>4. Born' = Born \cup {g} /\ Living' = Living \cup {g} /\ g \notin Living
    BY <2>2, <2>3 DEF Born, Living, At
  <2>5. Births'
    BY <2>2, <2>3, <2>4 DEF Births
  <2>6. Cardinality(Living') = Cardinality(Living) + 1 /\ Cardinality(Living) \in Nat
    BY <2>4, LivingFinite, FS_AddElement
  <2>7. reaper # "done" /\ UNCHANGED <<tokens, reaper, spoilt>>
    BY <2>1 DEF Inv, Order, reaping
  <2>8. Enough'
    BY <2>1, <2>3, <2>6, <2>7 DEF Inv, Enough, Held, Typed
  <2>9. Order'
    BY <2>3, <2>7 DEF Order
  <2>10. QED
    BY <2>5, <2>8, <2>9
<1>7. ASSUME ClientsCount PROVE Births' /\ Enough' /\ Order'
  <2>1. Goto("clients", "loop") /\ stage["clients"] = "count" /\ tokens' = tokens + 1
        /\ UNCHANGED <<reaper, spoilt>>
    BY <1>7 DEF ClientsCount, At
  <2>2. stage'["clients"] = "loop" /\ \A q \in Process : q # "clients" => stage'[q] = stage[q]
    BY <1>b, <1>c, <2>1
  <2>3. \A g \in Group : stage'[g] = stage[g]
    BY <1>b, <2>2
  <2>4. Born' = Born /\ Living' = Living
    BY <1>0, <2>3, Kept
  <2>5. Births'
    BY <2>2, <2>4 DEF Births, Inv
  <2>6. Enough'
    BY <2>1, <2>2, <2>4, LivingFinite DEF Inv, Enough, Held, Typed
  <2>7. Order'
    BY <2>1, <2>2, <2>4 DEF Inv, Order
  <2>8. QED
    BY <2>5, <2>6, <2>7
<1>8. ASSUME ClientsClose PROVE Births' /\ Enough' /\ Order'
  <2>1. SignalAll("clients", "join") /\ ReaperHit(1) /\ stage["clients"] = "close"
    BY <1>8 DEF ClientsClose, At
  <2>2. TypeOK /\ Roles
    BY <1>0, Types DEF Staged
  <2>3. /\ \A p \in Process : p # "clients" =>
              /\ stage[p] \in {"recv", "nap"} => stage'[p] = "loop"
              /\ stage[p] = "pause" => stage'[p] = "woken"
              /\ stage[p] \notin {"recv", "nap", "pause"} => stage'[p] = stage[p]
        /\ stage'["clients"] = "join" /\ flag'["clients"]
    BY <1>b, <2>1, <2>2, Signalled
  <2>4. \A g \in Group : /\ stage'[g] = "unborn" <=> stage[g] = "unborn"
                         /\ stage'[g] = "gone" <=> stage[g] = "gone"
    <3>1. SUFFICES ASSUME NEW g \in Group
                   PROVE  /\ stage'[g] = "unborn" <=> stage[g] = "unborn"
                          /\ stage'[g] = "gone" <=> stage[g] = "gone"
      OBVIOUS
    <3>2. g \in Process /\ g # "clients" /\ stage[g] \in GroupStages
      BY <1>b, <2>2 DEF Roles
    <3>3. QED
      BY <2>3, <3>2 DEF GroupStages
  <2>5. Born' = Born /\ Living' = Living
    BY <1>0, <2>4, Kept
  <2>6. /\ tokens' = tokens + 1
        /\ \/ reaper = "reap" /\ reaper' = "sem" /\ spoilt' = spoilt + 1
           \/ UNCHANGED <<reaper, spoilt>>
    BY <2>1, <2>2, Hit
  <2>7. Births'
    BY <2>3, <2>5 DEF Births, Inv
  <2>8. Enough'
    BY <2>1, <2>3, <2>5, <2>6, LivingFinite DEF Inv, Enough, Held, Typed
  <2>9. Order'
    BY <2>1, <2>3, <2>5, <2>6 DEF Inv, Order
  <2>10. QED
    BY <2>7, <2>8, <2>9
<1>9. ASSUME ClientsJoin PROVE Births' /\ Enough' /\ Order'
  <2>1. Goto("clients", "done") /\ reaper = "done" /\ UNCHANGED <<tokens, reaper, spoilt>>
    BY <1>9 DEF ClientsJoin, reaping
  <2>2. stage'["clients"] = "done" /\ \A q \in Process : q # "clients" => stage'[q] = stage[q]
    BY <1>b, <1>c, <2>1
  <2>3. \A g \in Group : stage'[g] = stage[g]
    BY <1>b, <2>2
  <2>4. Born' = Born /\ Living' = Living
    BY <1>0, <2>3, Kept
  <2>5. QED
    BY <2>1, <2>2, <2>4 DEF Inv, Births, Enough, Order
<1>10. ASSUME ReaperTake PROVE Births' /\ Enough' /\ Order'
  <2>1. /\ reaper = "sem" /\ reaper' = "reap" /\ tokens' = tokens - 1
        /\ UNCHANGED <<stage, flag, spoilt>>
    BY <1>10 DEF ReaperTake
  <2>2. Born' = Born /\ Living' = Living
    BY <2>1 DEF Born, Living, At
  <2>3. Enough'
    BY <2>1, <2>2, LivingFinite DEF Inv, Enough, Held, Typed
  <2>4. QED
    BY <2>1, <2>2, <2>3 DEF Inv, Births, Order
<1>11. ASSUME NEW g \in Group, ReaperReap(g) PROVE Births' /\ Enough' /\ Order'
  <2>1. /\ reaper = "reap" /\ reaper' = "sem" /\ stage[g] = "zombie" /\ Goto(g, "gone")
        /\ UNCHANGED <<flag, tokens, spoilt>>
    BY <1>11 DEF ReaperReap, At
  <2>2. stage'[g] = "gone" /\ \A q \in Process : q # g => stage'[q] = stage[q]
    BY <1>b, <1>c, <2>1
  <2>3. stage'["clients"] = stage["clients"] /\ \A h \in Group : h # g => stage'[h] = stage[h]
    BY <1>b, <2>2
  <2>4. Born' = Born /\ Living' = Living \ {g} /\ g \in Living
    BY <2>1, <2>2, <2>3 DEF Born, Living, At
  <2>5. Cardinality(Living') = Cardinality(Living) - 1
    BY <2>4, LivingFinite, FS_RemoveElement
  <2>6. Enough'
    BY <2>1, <2>3, <2>5, LivingFinite DEF Inv, Enough, Held, Typed
  <2>7. QED
    BY <2>1, <2>3, <2>4, <2>6 DEF Inv, Births, Order
<1>12. ASSUME ReaperNobody PROVE Births' /\ Enough' /\ Order'
  <2>1. /\ reaper = "reap" /\ Zombies = {} /\ Children = {}
        /\ UNCHANGED <<stage, flag, tokens, spoilt>>
        /\ reaper' = IF flag["clients"] THEN "done" ELSE "sem"
    BY <1>12 DEF ReaperNobody
  <2>2. Born' = Born /\ Living' = Living
    BY <2>1 DEF Born, Living, At
  <2>3. Living = {}
    BY <1>0, <2>1 DEF Living, Zombies, Children, Alive, At, Staged, Roles, GroupStages
  <2>4. Held = 1
    BY <2>1, <2>3, FS_EmptySet DEF Inv, Enough
  <2>5. stage["clients"] = "join"
    BY <2>1, <2>4 DEF Held, Inv, Typed
  <2>6. reaper' = "done"
    BY <2>1, <2>5 DEF Inv, Order
  <2>7. QED
    BY <2>1, <2>2, <2>3, <2>5, <2>6 DEF Inv, Births, Enough, Order
<1>13. ASSUME MainEnd \/ UNCHANGED vars PROVE Births' /\ Enough' /\ Order'
  <2>1. UNCHANGED <<stage, flag, reaping>>
    BY <1>13 DEF MainEnd, vars
  <2>2. QED
    BY <1>0, <2>1, Calm
<1>14. QED
  BY <1>1, <1>2, <1>3, <1>4, <1>5, <1>6, <1>7, <1>8, <1>9, <1>10, <1>11, <1>12, <1>13
     DEF Next, ManagerStep, ClientsStep, ReaperStep, Finished

(* Every variable keeps its type: no process is where its code cannot be,  *)
(* and no token is taken that is not there.                                *)
THEOREM TypesCorrect == Spec => []TypeOK
<1>1. Inv => TypeOK
  BY Types DEF Inv, Staged
<1>2. QED
  BY InitInv, NextInv, <1>1, PTL DEF Spec

(* The reaper has exactly the tokens it needs, less those a signal has     *)
(* spoilt.                                                                 *)
THEOREM TokensAddUp == Spec => []TokensSuffice
<1>1. Inv => TokensSuffice
  BY EnoughSuffices DEF Inv
<1>2. QED
  BY InitInv, NextInv, <1>1, PTL DEF Spec

---------------------------------------------------------------------------
(* main ends when its children have, and they do not come back.            *)
Ended == main = "done" => \A p \in Staff : stage[p] \in {"done", "crashed"}

LEMMA StaffStays ==
  ASSUME Inv, [Next]_vars, NEW p \in Staff, stage[p] \in {"done", "crashed"}
  PROVE  stage'[p] = stage[p]
<1>0. Staged /\ TypeOK /\ Roles
  BY Types DEF Inv, Staged
<1>b. p \in Process /\ p \in {"clients", "manager", "service"} /\ p # "main"
      /\ \A g \in Group : g \in Process /\ g # p
  BY Apart DEF Staff, Process
<1>c. ASSUME NEW q \in Process, NEW s, Goto(q, s), q # p
      PROVE  stage'[p] = stage[p]
  BY <1>0, <1>b, <1>c DEF Goto, Staged
<1>d. ASSUME NEW sender \in {"main", "manager", "clients"}, sender # p, NEW s, SignalAll(sender, s)
      PROVE  stage'[p] = stage[p]
  BY <1>0, <1>b, <1>d, Signalled
<1>1. ASSUME ManagerStep PROVE stage'[p] = stage[p]
  <2>1. /\ stage["manager"] \in {"loop", "woken", "reset"}
        /\ (\E s : Goto("manager", s)) \/ SignalAll("manager", "reset")
    BY <1>1 DEF ManagerStep, ManagerLoop, ManagerSpeed, ManagerClose, ManagerReset, KillAll, At
  <2>2. p # "manager"
    BY <2>1
  <2>3. QED
    BY <2>1, <2>2, <1>c, <1>d, Apart
<1>2. ASSUME ServiceStep PROVE stage'[p] = stage[p]
  <2>1. stage["service"] \in {"loop", "recv", "serve"} /\ \E s : Goto("service", s)
    BY <1>2 DEF ServiceStep, ServiceLoop, ServiceRecv, ServiceServe, At
  <2>2. p # "service"
    BY <2>1
  <2>3. QED
    BY <2>1, <2>2, <1>c, Apart
<1>3. ASSUME ClientsStep PROVE stage'[p] = stage[p]
  <2>1. p # "clients"
    BY <1>3 DEF ClientsStep, ClientsLoop, ClientsFork, ClientsCount, ClientsClose, ClientsJoin, At
  <2>2. CASE (\E s : Goto("clients", s)) \/ SignalAll("clients", "join")
    BY <2>1, <2>2, <1>c, <1>d, Apart
  <2>3. CASE \E g \in Group : ClientsFork(g)
    BY <2>1, <2>3, <1>0, <1>b DEF ClientsFork, Staged
  <2>4. QED
    BY <1>3, <2>2, <2>3 DEF ClientsStep, ClientsLoop, ClientsCount, ClientsClose, ClientsJoin
<1>4. ASSUME ReaperStep PROVE stage'[p] = stage[p]
  <2>1. UNCHANGED stage \/ \E g \in Group : \E s : Goto(g, s)
    BY <1>4 DEF ReaperStep, ReaperTake, ReaperReap, ReaperNobody
  <2>2. QED
    BY <2>1, <1>b, <1>c
<1>5. ASSUME NEW g \in Group, GroupStep(g) PROVE stage'[p] = stage[p]
  <2>1. \E s : Goto(g, s)
    BY <1>5 DEF GroupStep, GroupAsk, GroupLoop, GroupSit, GroupLeave
  <2>2. QED
    BY <2>1, <1>b, <1>c
<1>6. ASSUME MainForward \/ UserInterrupt PROVE stage'[p] = stage[p]
  <2>1. SignalAll("main", "wait")
    BY <1>6 DEF MainForward, UserInterrupt, KillAll
  <2>2. QED
    BY <2>1, <1>b, <1>d
<1>7. ASSUME UserSpeed PROVE stage'[p] = stage[p]
  <2>1. stage["manager"] \notin {"done", "crashed"} /\ \E s : Goto("manager", s)
    BY <1>7 DEF UserSpeed, Alive
  <2>2. p # "manager"
    BY <2>1
  <2>3. QED
    BY <2>1, <2>2, <1>c, Apart
<1>8. ASSUME MainEnd \/ UNCHANGED vars PROVE stage'[p] = stage[p]
  BY <1>8 DEF MainEnd, vars
<1>9. QED
  BY <1>1, <1>2, <1>3, <1>4, <1>5, <1>6, <1>7, <1>8 DEF Next, Finished

LEMMA NextEnded == Inv /\ Ended /\ [Next]_vars => Ended'
<1> SUFFICES ASSUME Inv, Ended, [Next]_vars, main' = "done", NEW p \in Staff
             PROVE  stage'[p] \in {"done", "crashed"}
  BY DEF Ended
<1>1. CASE main = "done"
  BY <1>1, StaffStays DEF Ended
<1>2. CASE main # "done"
  <2>1. MainEnd
    BY <1>2 DEF Next, ManagerStep, ManagerLoop, ManagerSpeed, ManagerClose, ManagerReset,
                ServiceStep, ServiceLoop, ServiceRecv, ServiceServe, ClientsStep, ClientsLoop,
                ClientsFork, ClientsCount, ClientsClose, ClientsJoin, ReaperStep, ReaperTake,
                ReaperReap, ReaperNobody, GroupStep, GroupAsk, GroupLoop, GroupSit, GroupLeave,
                MainForward, UserInterrupt, UserSpeed, Finished, vars
  <2>2. QED
    BY <2>1 DEF MainEnd
<1>3. QED
  BY <1>1, <1>2

(* When main reports and removes the IPC, all that it and the clients      *)
(* process have forked is gone, though main waits for its own children.    *)
THEOREM ReportsAfterAll == Spec => []ReportsLast
<1>1. Init => Inv /\ Ended
  <2>1. Init => Ended
    BY DEF Init, Ended
  <2>2. QED
    BY <2>1, InitInv
<1>2. Inv /\ Ended /\ [Next]_vars => (Inv /\ Ended)'
  BY NextInv, NextEnded
<1>3. Inv /\ Ended => ReportsLast
  <2>1. SUFFICES ASSUME Inv, Ended, main = "done"
                 PROVE  /\ \A p \in Staff : ~Alive(p)
                        /\ \A g \in Group : stage[g] \in {"unborn", "gone"}
    BY DEF ReportsLast
  <2>2. \A p \in Staff : ~Alive(p)
    BY <2>1 DEF Ended, Alive
  <2>3. stage["clients"] = "done"
    BY <2>1 DEF Ended, Staff, Inv, Staged, Roles, ClientsStages
  <2>4. Living = {}
    BY <2>1, <2>3 DEF Inv, Order
  <2>5. QED
    BY <2>2, <2>4 DEF Living
<1>4. QED
  BY <1>1, <1>2, <1>3, PTL DEF Spec

---------------------------------------------------------------------------
(* Where the groups are in the house, and those who have not yet paid.     *)
Asking == {g \in Group : <<"ASSIGN", g>> \in inbox}
Paying == {g \in Group : <<"FINISHED", g>> \in inbox}
Open   == {g \in Group : stage[g] \notin {"zombie", "gone"}} \cup Asking \cup line \cup seated

House ==
  /\ line \cap seated = {} /\ Asking \cap (line \cup seated) = {}
  /\ mail \subseteq seated
  /\ \A g \in Group :
       /\ stage[g] \in {"unborn", "enter"} => g \notin Asking \cup line \cup seated
       /\ stage[g] = "eat" => g \in seated /\ g \notin mail \cup Paying
       /\ g \in Paying => stage[g] \in {"zombie", "gone"} /\ g \in seated \ mail

(* A bill is that of a group that has not paid before, and the last one    *)
(* tells main.                                                             *)
Bills == /\ finished + Cardinality(Open) <= Cardinality(Group)
         /\ interrupt => finished >= Cardinality(Group)

(* Fewer groups are open, and no bill is paid.                             *)
LEMMA StillOpen ==
  ASSUME Typed, Bills, Open' \subseteq Open, Open \subseteq Group,
         UNCHANGED finished, interrupt' => interrupt
  PROVE  Bills'
<1>1. IsFiniteSet(Open) /\ IsFiniteSet(Open')
  BY GroupFinite, FS_Subset
<1>2. Cardinality(Open') <= Cardinality(Open)
  BY <1>1, FS_Subset
<1>3. Cardinality(Open) \in Nat /\ Cardinality(Open') \in Nat /\ Cardinality(Group) \in Nat
  BY <1>1, GroupFinite, FS_CardinalityType
<1>4. finished + Cardinality(Open') <= Cardinality(Group)
  BY <1>2, <1>3 DEF Typed, Bills
<1>5. interrupt' => finished' >= Cardinality(Group)
  BY DEF Bills
<1>6. QED
  BY <1>4, <1>5 DEF Bills

LEMMA OpenGroups == Typed => Open \subseteq Group
  BY DEF Open, Asking, Typed

LEMMA InitHouse == Init => House /\ Bills
<1> SUFFICES ASSUME Init PROVE House /\ Bills
  OBVIOUS
<1>1. /\ \A g \in Group : stage[g] = "unborn"
      /\ inbox = {} /\ line = {} /\ mail = {} /\ seated = {} /\ finished = 0 /\ interrupt = FALSE
  BY Apart DEF Init
<1>2. House
  BY <1>1 DEF House, Asking, Paying
<1>3. Open = Group
  BY <1>1 DEF Open, Asking
<1>4. Cardinality(Group) \in Nat
  BY GroupFinite, FS_CardinalityType
<1>5. QED
  BY <1>1, <1>2, <1>3, <1>4 DEF Bills

(* Steps that leave the house alone: groups may wake or be reaped.         *)
LEMMA Outside ==
  ASSUME Inv, House, Bills, UNCHANGED house, interrupt' => interrupt,
         \A g \in Group : \/ stage'[g] = stage[g]
                          \/ stage[g] = "recv" /\ stage'[g] = "loop"
                          \/ stage[g] = "zombie" /\ stage'[g] = "gone"
  PROVE  House' /\ Bills'
<1>1. Asking' = Asking /\ Paying' = Paying /\ UNCHANGED <<line, mail, seated, finished>>
  BY DEF house, Asking, Paying
<1>2. House'
  BY <1>1 DEF House
<1>3. Open' = Open
  BY <1>1 DEF Open
<1>4. Open \subseteq Group
  BY OpenGroups DEF Inv
<1>5. QED
  BY <1>1, <1>2, <1>3, <1>4, StillOpen DEF Inv

(* What a request does to those who wait and sit.                          *)
LEMMA Serving ==
  ASSUME Inv, House, Bills, NEW type \in {"ASSIGN", "FINISHED", "BARRIER"}, NEW g \in Group,
         ServiceServe(type, g), \A h \in Group : stage'[h] = stage[h]
  PROVE  House' /\ Bills'
<1> DEFINE waiting == line \cup (IF type = "ASSIGN" THEN {g} ELSE {})
           staying == seated \ (IF type = "FINISHED" THEN {g} ELSE {})
<1>1. PICK S \in SUBSET Group :
        /\ S \subseteq waiting /\ seated' = staying \cup S
        /\ \/ line' = line \ S /\ UNCHANGED mail
           \/ line' = waiting \ S /\ mail' = mail \cup S
        /\ flag["service"] => line' = line \ S /\ UNCHANGED mail
        /\ ~flag["service"] => line' = waiting \ S /\ mail' = mail \cup S
  BY DEF ServiceServe
<1>2. /\ <<type, g>> \in inbox /\ inbox' = inbox \ {<<type, g>>}
      /\ finished' = IF type = "FINISHED" THEN finished + 1 ELSE finished
      /\ interrupt' = (interrupt \/ (type = "FINISHED" /\ LastBill(finished + 1)))
  BY DEF ServiceServe
<1>3. CASE type # "FINISHED"
  <2>1. Paying' = Paying /\ Asking' = Asking \ (IF type = "ASSIGN" THEN {g} ELSE {})
        /\ (type = "ASSIGN" => g \in Asking)
    BY <1>2, <1>3 DEF Paying, Asking
  <2>2. House'
    <3>1. seated' = seated \cup S /\ mail' \subseteq mail \cup S /\ line' \subseteq waiting \ S
      BY <1>1, <1>3, <2>1 DEF House
    <3>2. /\ line' \cap seated' = {} /\ Asking' \cap (line' \cup seated') = {}
          /\ mail' \subseteq seated'
      BY <1>1, <2>1, <3>1 DEF House
    <3>3. ASSUME NEW h \in Group
          PROVE  /\ stage[h] \in {"unborn", "enter"} => h \notin Asking' \cup line' \cup seated'
                 /\ stage[h] = "eat" => h \in seated' /\ h \notin mail' \cup Paying'
                 /\ h \in Paying' => stage[h] \in {"zombie", "gone"} /\ h \in seated' \ mail'
      <4>1. h \in S => h \in line \cup Asking /\ h \notin seated
        BY <1>1, <2>1 DEF House
      <4>2. QED
        BY <1>1, <2>1, <3>1, <4>1 DEF House
    <3>4. QED
      BY <3>2, <3>3 DEF House
  <2>3. Open' \subseteq Open
    BY <1>1, <1>3, <2>1 DEF Open
  <2>4. Open \subseteq Group
    BY OpenGroups DEF Inv
  <2>5. QED
    BY <1>2, <1>3, <2>2, <2>3, <2>4, StillOpen DEF Inv
<1>4. CASE type = "FINISHED"
  <2>1. g \in Paying /\ Paying' = Paying \ {g} /\ Asking' = Asking
    BY <1>2, <1>4 DEF Paying, Asking
  <2>2. /\ stage[g] \in {"zombie", "gone"} /\ g \in seated /\ g \notin line /\ g \notin Asking
    BY <2>1 DEF House
  <2>3. S \subseteq line /\ seated' = (seated \ {g}) \cup S /\ line' = line \ S
        /\ mail' \subseteq mail \cup S
    BY <1>1, <1>4
  <2>4. House'
    <3>1. g \notin S /\ g \notin mail
      BY <2>1, <2>2, <2>3 DEF House
    <3>2. /\ line' \cap seated' = {} /\ Asking' \cap (line' \cup seated') = {}
          /\ mail' \subseteq seated'
      BY <2>1, <2>3, <3>1 DEF House
    <3>3. ASSUME NEW h \in Group
          PROVE  /\ stage[h] \in {"unborn", "enter"} => h \notin Asking' \cup line' \cup seated'
                 /\ stage[h] = "eat" => h \in seated' /\ h \notin mail' \cup Paying'
                 /\ h \in Paying' => stage[h] \in {"zombie", "gone"} /\ h \in seated' \ mail'
      <4>1. h \in S => h \in line /\ h \notin seated
        BY <2>3 DEF House
      <4>2. QED
        BY <2>1, <2>2, <2>3, <4>1 DEF House
    <3>4. QED
      BY <3>2, <3>3 DEF House
  <2>5. Open' \subseteq Open \ {g} /\ g \in Open
    BY <2>1, <2>2, <2>3 DEF Open
  <2>6. IsFiniteSet(Open) /\ Open \subseteq Group
    BY OpenGroups, GroupFinite, FS_Subset DEF Inv
  <2>7. /\ IsFiniteSet(Open \ {g}) /\ Cardinality(Open \ {g}) = Cardinality(Open) - 1
    BY <2>5, <2>6, FS_RemoveElement
  <2>8. IsFiniteSet(Open') /\ Cardinality(Open') <= Cardinality(Open \ {g})
    BY <2>5, <2>7, FS_Subset
  <2>9. /\ Cardinality(Open) \in Nat /\ Cardinality(Open') \in Nat /\ Cardinality(Group) \in Nat
        /\ finished \in Nat
    BY <2>6, <2>8, GroupFinite, FS_CardinalityType DEF Inv, Typed
  <2>10. finished' = finished + 1
    BY <1>2, <1>4
  <2>11. finished' + Cardinality(Open') <= Cardinality(Group)
    BY <2>7, <2>8, <2>9, <2>10 DEF Bills
  <2>12. interrupt' => finished' >= Cardinality(Group)
    <3>1. interrupt' => interrupt \/ LastBill(finished + 1)
      BY <1>2
    <3>2. interrupt => finished >= Cardinality(Group)
      BY DEF Bills
    <3>3. LastBill(finished + 1) => finished' >= Cardinality(Group)
      BY <2>10 DEF LastBill
    <3>4. finished >= Cardinality(Group) => finished' >= Cardinality(Group)
      BY <2>9, <2>10
    <3>5. QED
      BY <3>1, <3>2, <3>3, <3>4
  <2>13. QED
    BY <2>4, <2>11, <2>12 DEF Bills
<1>5. QED
  BY <1>3, <1>4

LEMMA NextHouse == Inv /\ House /\ Bills /\ [Next]_vars => House' /\ Bills'
<1> SUFFICES ASSUME Inv, House, Bills, [Next]_vars PROVE House' /\ Bills'
  OBVIOUS
<1>0. Staged /\ Typed /\ TypeOK /\ Roles /\ Open \subseteq Group
  BY Types, OpenGroups DEF Inv, Staged
<1>b. {"clients", "manager", "service"} \subseteq Process
      /\ \A g \in Group : g \in Process /\ g \notin {"clients", "manager", "service", "main"}
  BY Apart
<1>c. ASSUME NEW p \in Process, NEW s, Goto(p, s)
      PROVE  \A q \in Process : stage'[q] = IF q = p THEN s ELSE stage[q]
  BY <1>0, <1>c DEF Goto, Staged
<1>d. ASSUME NEW p \in {"clients", "manager", "service"}, NEW s, Goto(p, s)
      PROVE  \A g \in Group : stage'[g] = stage[g]
  <2>1. \A q \in Process : stage'[q] = IF q = p THEN s ELSE stage[q]
    BY <1>b, <1>c, <1>d
  <2>2. QED
    BY <1>b, <2>1
<1>e. ASSUME NEW sender \in {"main", "manager", "clients"}, NEW s, SignalAll(sender, s)
      PROVE  \A g \in Group : stage'[g] = stage[g] \/ (stage[g] = "recv" /\ stage'[g] = "loop")
  <2>1. SUFFICES ASSUME NEW g \in Group
                 PROVE  stage'[g] = stage[g] \/ (stage[g] = "recv" /\ stage'[g] = "loop")
    OBVIOUS
  <2>2. g \in Process /\ g # sender /\ stage[g] \in GroupStages
    BY <1>0, <1>b DEF Roles
  <2>3. /\ stage[g] \in {"recv", "nap"} => stage'[g] = "loop"
        /\ stage[g] \notin {"recv", "nap", "pause"} => stage'[g] = stage[g]
    BY <1>0, <1>e, <2>2, Signalled
  <2>4. QED
    BY <2>2, <2>3 DEF GroupStages
<1>1. ASSUME ManagerLoop \/ ManagerSpeed \/ ManagerReset \/ UserSpeed PROVE House' /\ Bills'
  <2>1. (\E s : Goto("manager", s)) /\ UNCHANGED <<house, interrupt>>
    BY <1>1 DEF ManagerLoop, ManagerSpeed, ManagerReset, UserSpeed
  <2>2. QED
    BY <2>1, <1>d, Outside
<1>2. ASSUME ManagerClose \/ MainForward \/ UserInterrupt \/ ClientsClose PROVE House' /\ Bills'
  <2>1. /\ \E sender \in {"main", "manager", "clients"} : \E s : SignalAll(sender, s)
        /\ UNCHANGED house /\ (interrupt' => interrupt)
    BY <1>2 DEF ManagerClose, MainForward, UserInterrupt, ClientsClose, KillAll
  <2>2. QED
    BY <2>1, <1>e, Outside
<1>3. ASSUME ServiceLoop \/ ServiceRecv PROVE House' /\ Bills'
  <2>1. (\E s : Goto("service", s)) /\ UNCHANGED <<house, interrupt>>
    BY <1>3 DEF ServiceLoop, ServiceRecv
  <2>2. QED
    BY <2>1, <1>d, Outside
<1>4. ASSUME NEW type \in {"ASSIGN", "FINISHED", "BARRIER"}, NEW g \in Group, ServiceServe(type, g)
      PROVE  House' /\ Bills'
  <2>1. \E s : Goto("service", s)
    BY <1>4 DEF ServiceServe
  <2>2. QED
    BY <1>4, <2>1, <1>d, Serving
<1>5. ASSUME NEW g \in Group, GroupAsk(g) PROVE House' /\ Bills'
  <2>1. /\ stage[g] = "enter" /\ Goto(g, "loop")
        /\ inbox' = inbox \/ inbox' = inbox \cup {<<"ASSIGN", g>>}
        /\ UNCHANGED <<interrupt, line, mail, seated, finished>>
    BY <1>5 DEF GroupAsk, At
  <2>2. \A h \in Group : stage'[h] = IF h = g THEN "loop" ELSE stage[h]
    BY <2>1, <1>b, <1>c
  <2>3. Paying' = Paying /\ Asking \subseteq Asking' /\ Asking' \subseteq Asking \cup {g}
    BY <2>1 DEF Paying, Asking
  <2>4. House'
    BY <2>1, <2>2, <2>3 DEF House
  <2>5. Open' \subseteq Open
    BY <2>1, <2>2, <2>3 DEF Open
  <2>6. QED
    BY <1>0, <2>1, <2>4, <2>5, StillOpen
<1>6. ASSUME NEW g \in Group, GroupLoop(g) PROVE House' /\ Bills'
  <2>1. /\ stage[g] = "loop" /\ \E s \in {"zombie", "recv"} : Goto(g, s)
        /\ UNCHANGED <<interrupt, inbox, line, mail, seated, finished>>
    BY <1>6 DEF GroupLoop, At, house
  <2>2. /\ stage'[g] \in {"zombie", "recv"}
        /\ \A h \in Group : h # g => stage'[h] = stage[h]
    BY <2>1, <1>b, <1>c
  <2>3. Paying' = Paying /\ Asking' = Asking
    BY <2>1 DEF Paying, Asking
  <2>4. House'
    BY <2>1, <2>2, <2>3 DEF House
  <2>5. Open' \subseteq Open
    BY <2>1, <2>2, <2>3 DEF Open
  <2>6. QED
    BY <1>0, <2>1, <2>4, <2>5, StillOpen
<1>7. ASSUME NEW g \in Group, GroupSit(g) PROVE House' /\ Bills'
  <2>1. /\ stage[g] = "recv" /\ g \in mail /\ Goto(g, "eat") /\ mail' = mail \ {g}
        /\ UNCHANGED <<interrupt, inbox, line, seated, finished>>
    BY <1>7 DEF GroupSit, At
  <2>2. \A h \in Group : stage'[h] = IF h = g THEN "eat" ELSE stage[h]
    BY <2>1, <1>b, <1>c
  <2>3. Paying' = Paying /\ Asking' = Asking
    BY <2>1 DEF Paying, Asking
  <2>4. House'
    BY <2>1, <2>2, <2>3 DEF House
  <2>5. Open' \subseteq Open
    BY <2>1, <2>2, <2>3 DEF Open
  <2>6. QED
    BY <1>0, <2>1, <2>4, <2>5, StillOpen
<1>8. ASSUME NEW g \in Group, GroupLeave(g) PROVE House' /\ Bills'
  <2>1. /\ stage[g] = "eat" /\ Goto(g, "zombie")
        /\ inbox' = inbox \/ inbox' = inbox \cup {<<"FINISHED", g>>}
        /\ UNCHANGED <<interrupt, line, mail, seated, finished>>
    BY <1>8 DEF GroupLeave, At
  <2>2. \A h \in Group : stage'[h] = IF h = g THEN "zombie" ELSE stage[h]
    BY <2>1, <1>b, <1>c
  <2>3. Asking' = Asking /\ Paying' \subseteq Paying \cup {g}
    BY <2>1 DEF Paying, Asking
  <2>4. House'
    BY <2>1, <2>2, <2>3 DEF House
  <2>5. Open' \subseteq Open
    BY <2>1, <2>2, <2>3 DEF Open
  <2>6. QED
    BY <1>0, <2>1, <2>4, <2>5, StillOpen
<1>9. ASSUME NEW g \in Group, ClientsFork(g) PROVE House' /\ Bills'
  <2>1. /\ stage["clients"] = "fork" /\ g = Groups[Cardinality(Born) + 1]
        /\ stage' = [stage EXCEPT !["clients"] = "count", ![g] = "enter"]
        /\ UNCHANGED <<interrupt, house>>
    BY <1>9 DEF ClientsFork, At
  <2>2. stage[g] = "unborn"
    BY <2>1, NextBorn DEF Inv
  <2>3. \A h \in Group : stage'[h] = IF h = g THEN "enter" ELSE stage[h]
    BY <1>0, <1>b, <2>1 DEF Staged
  <2>4. UNCHANGED <<line, mail, seated, finished>> /\ Asking' = Asking /\ Paying' = Paying
    BY <2>1 DEF house, Asking, Paying
  <2>5. House'
    BY <2>2, <2>3, <2>4 DEF House
  <2>6. Open' \subseteq Open
    BY <2>2, <2>3, <2>4 DEF Open
  <2>7. QED
    BY <1>0, <2>1, <2>4, <2>5, <2>6, StillOpen
<1>10. ASSUME ClientsCount PROVE House' /\ Bills'
  <2>1. /\ Goto("clients", "loop")
        /\ inbox' = inbox \/ inbox' = inbox \cup {<<"BARRIER", Groups[1]>>}
        /\ UNCHANGED <<interrupt, line, mail, seated, finished>>
    BY <1>10 DEF ClientsCount
  <2>2. \A h \in Group : stage'[h] = stage[h]
    BY <2>1, <1>d
  <2>3. Asking' = Asking /\ Paying' = Paying
    BY <2>1 DEF Paying, Asking
  <2>4. House'
    BY <2>1, <2>2, <2>3 DEF House
  <2>5. Open' \subseteq Open
    BY <2>1, <2>2, <2>3 DEF Open
  <2>6. QED
    BY <1>0, <2>1, <2>4, <2>5, StillOpen
<1>11. ASSUME ClientsLoop \/ ClientsJoin PROVE House' /\ Bills'
  <2>1. (\E s : Goto("clients", s)) /\ UNCHANGED <<house, interrupt>>
    BY <1>11 DEF ClientsLoop, ClientsJoin
  <2>2. QED
    BY <2>1, <1>d, Outside
<1>12. ASSUME ReaperStep PROVE House' /\ Bills'
  <2>1. /\ UNCHANGED <<house, interrupt>>
        /\ \/ UNCHANGED stage
           \/ \E g \in Group : stage[g] = "zombie" /\ Goto(g, "gone")
    BY <1>12 DEF ReaperStep, ReaperTake, ReaperReap, ReaperNobody, At
  <2>2. \A h \in Group : stage'[h] = stage[h] \/ (stage[h] = "zombie" /\ stage'[h] = "gone")
    BY <2>1, <1>b, <1>c
  <2>3. QED
    BY <2>1, <2>2, Outside
<1>13. ASSUME MainEnd \/ UNCHANGED vars PROVE House' /\ Bills'
  BY <1>13, Outside DEF MainEnd, vars
<1>14. QED
  BY <1>1, <1>2, <1>3, <1>4, <1>5, <1>6, <1>7, <1>8, <1>9, <1>10, <1>11, <1>12, <1>13
     DEF Next, ManagerStep, ServiceStep, ClientsStep, GroupStep, Finished

(* The service never sends everybody home of itself while somebody still   *)
(* has to come, to ask, to eat or to pay.                                  *)
THEOREM ClosedByTheLastBill == Spec => []ClosesAfterLastBill
<1>1. Init => Inv /\ House /\ Bills
  BY InitInv, InitHouse
<1>2. Inv /\ House /\ Bills /\ [Next]_vars => (Inv /\ House /\ Bills)'
  BY NextInv, NextHouse
<1>3. Inv /\ House /\ Bills => ClosesAfterLastBill
  <2>1. SUFFICES ASSUME Inv, House, Bills, interrupt
                 PROVE  /\ line = {} /\ mail = {} /\ seated = {}
                        /\ \A g \in Group : stage[g] \in {"zombie", "gone"}
    BY DEF ClosesAfterLastBill
  <2>2. IsFiniteSet(Open) /\ Open \subseteq Group
    BY <2>1, OpenGroups, GroupFinite, FS_Subset DEF Inv
  <2>3. Cardinality(Open) \in Nat /\ Cardinality(Group) \in Nat /\ finished \in Nat
    BY <2>1, <2>2, GroupFinite, FS_CardinalityType DEF Inv, Typed
  <2>4. Cardinality(Open) = 0
    BY <2>1, <2>3 DEF Bills
  <2>5. Open = {}
    BY <2>2, <2>4, FS_EmptySet
  <2>6. QED
    BY <2>1, <2>5 DEF Open, House
<1>4. QED
  BY <1>1, <1>2, <1>3, PTL DEF Spec

=============================================================================
