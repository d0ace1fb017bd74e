------------------------------ MODULE Shutdown ------------------------------
(***************************************************************************)
(* How the restaurant ends: SIGINT to main, SIGTERM to the process group,  *)
(* the closing of the clients process with its reaper thread, the manager  *)
(* between its flag and pause(), the receivers in msgrcv(), and main,      *)
(* which waits for its children.                                           *)
(*                                                                         *)
(* A step is what a process does between two calls that can sleep.  Its    *)
(* stage says which call it is about to make ("loop": the test of the      *)
(* flags) or sleeps in ("recv", "pause", "nap", "join").  A signal sets    *)
(* the flag of its receiver at once and ends the call it sleeps in.        *)
(* P() is left out: it looks at the flag every 500 ms, and that this is    *)
(* enough for chef, belt and persons is FlaggedStops of module Belt.  Who  *)
(* is seated when is the subject of Seating.                               *)
(***************************************************************************)
EXTENDS Integers, Sequences, FiniteSets

CONSTANTS
  Groups,        \* the groups that may come, in the order of their creation
  SpeedSignals   \* bound: how often the user changes the speed

Group   == {Groups[i] : i \in DOMAIN Groups}
Staff   == {"manager", "service", "clients"}
Process == Staff \cup Group

ASSUME StaffAssumption ==
  /\ Groups \in Seq(Group) /\ Groups # <<>> /\ Staff \cap Group = {} /\ "main" \notin Group
  /\ \A i, j \in DOMAIN Groups : Groups[i] = Groups[j] => i = j
  /\ SpeedSignals \in Nat

VARIABLES
  stage,        \* where each process is
  flag,         \* terminate_flag or evacuate_flag of each process
  managerCmd,   \* the last signal to the manager: "none", "speed" or "close"
  changes,      \* how often the user has changed the speed
  interrupt,    \* the SIGINT of the service is on its way to main
  main,         \* "wait" or "done"
  tokens,       \* reaperSem
  reaper,       \* where the reaper thread is
  spoilt,       \* history: tokens whose waitpid() was interrupted
  inbox,        \* requests on their way to the service
  line,         \* the groups in its lines
  mail,         \* the groups to which an answer is on its way
  seated,       \* the groups at the tables
  finished      \* finishedGroups

reaping   == <<tokens, reaper, spoilt>>
house     == <<inbox, line, mail, seated, finished>>
command   == <<managerCmd, changes>>
vars == <<stage, flag, command, interrupt, main, reaping, house>>

---------------------------------------------------------------------------
Alive(p) == stage[p] \notin {"unborn", "zombie", "gone", "done", "crashed"}
At(p, s) == stage[p] = s
Goto(p, s) == stage' = [stage EXCEPT ![p] = s]
Children == {g \in Group : Alive(g)}
Zombies  == {g \in Group : At(g, "zombie")}

(* The calls a signal ends.                                                *)
Woken(p) ==
  CASE At(p, "recv") -> "loop"
    [] At(p, "pause") -> "woken"
    [] At(p, "nap") -> "loop"
    [] OTHER -> stage[p]

(* SIGTERM in the reaper thread, and n new tokens for it.  waitpid()       *)
(* returns a zombie rather than EINTR; after EINTR the token is spent      *)
(* though nobody was reaped.                                               *)
ReaperHit(n) ==
  /\ tokens' = tokens + n
  /\ IF reaper = "reap" /\ Zombies = {} /\ Children # {}
       THEN reaper' = "sem" /\ spoilt' = spoilt + 1
       ELSE UNCHANGED <<reaper, spoilt>>

(* kill(0, SIGTERM) by sender, which goes on at s.  The manager only notes *)
(* the command.                                                            *)
SignalAll(sender, s) ==
  /\ flag' = [p \in Process |-> flag[p] \/ p = sender \/ (Alive(p) /\ p # "manager")]
  /\ managerCmd' = "close"
  /\ stage' = [p \in Process |-> IF p = sender THEN s ELSE Woken(p)]

(* In the clients process the main thread takes the signal unless it       *)
(* blocks it, as around fork() and at the end: then the reaper thread does. *)
KillAll(sender, s) ==
  /\ SignalAll(sender, s)
  /\ IF stage["clients"] \in {"fork", "join"} THEN ReaperHit(0) ELSE UNCHANGED reaping

---------------------------------------------------------------------------
Init ==
  /\ stage = [p \in Process |-> IF p \in Group THEN "unborn" ELSE "loop"]
  /\ flag = [p \in Process |-> FALSE]
  /\ managerCmd = "none" /\ changes = 0
  /\ interrupt = FALSE
  /\ main = "wait"
  /\ tokens = 0 /\ reaper = "sem" /\ spoilt = 0
  /\ inbox = {} /\ line = {} /\ mail = {} /\ seated = {} /\ finished = 0

---------------------------------------------------------------------------
(* Manager: startManager.  What arrives between the test of the flags and  *)
(* pause() is noted but wakes nobody.                                      *)
ManagerLoop ==
  /\ At("manager", "loop")
  /\ Goto("manager", IF flag["manager"] THEN "done" ELSE "pause")
  /\ UNCHANGED <<flag, command, interrupt, main, reaping, house>>

ManagerSpeed ==
  /\ At("manager", "woken") /\ managerCmd = "speed"
  /\ Goto("manager", "reset")
  /\ UNCHANGED <<flag, command, interrupt, main, reaping, house>>

(* The signal comes back to the manager too, while it works on it.         *)
ManagerClose ==
  /\ At("manager", "woken") /\ managerCmd = "close"
  /\ KillAll("manager", "reset")
  /\ UNCHANGED <<changes, interrupt, main, house>>

(* The command is cleared, whatever it has become since it was read.       *)
ManagerReset ==
  /\ At("manager", "reset")
  /\ managerCmd' = "none"
  /\ Goto("manager", "loop")
  /\ UNCHANGED <<flag, changes, interrupt, main, reaping, house>>

ManagerStep == ManagerLoop \/ ManagerSpeed \/ ManagerClose \/ ManagerReset

---------------------------------------------------------------------------
(* Service: startService and the test of the flags in queueRecv.           *)
ServiceLoop ==
  /\ At("service", "loop")
  /\ Goto("service", IF flag["service"] THEN "done" ELSE "recv")
  /\ UNCHANGED <<flag, command, interrupt, main, reaping, house>>

ServiceRecv ==
  /\ At("service", "recv") /\ inbox # {}
  /\ Goto("service", "serve")
  /\ UNCHANGED <<flag, command, interrupt, main, reaping, house>>

(* totalGroupsCreated: a child runs before its parent has counted it.      *)
Born == {g \in Group : ~At(g, "unborn")}
AllCreated == Born = Group /\ ~At("clients", "count")

(* The last bill tells main to shut down.  Mutant: one bill too early.     *)
LastBillEarly(n) == n >= Cardinality(Group) - 1
LastBill(n) == n >= Cardinality(Group)

(* One request: a group is queued or seated, or pays and leaves; then      *)
(* others from the lines may be seated, and somebody is when the house is  *)
(* empty and its gate open.  A flagged service sends no answers, and       *)
(* handleQueueGroup, which queuePush refuses, calls itself until the stack *)
(* is full.                                                                *)
ServiceServe(type, g) ==
  /\ At("service", "serve") /\ <<type, g>> \in inbox
  /\ inbox' = inbox \ {<<type, g>>}
  /\ \E S \in SUBSET Group :
       LET waiting == line \cup (IF type = "ASSIGN" THEN {g} ELSE {})
           staying == seated \ (IF type = "FINISHED" THEN {g} ELSE {})
       IN /\ S \subseteq waiting
          /\ IF AllCreated THEN waiting # {} /\ staying = {} => S # {}
                           ELSE S = {}
          /\ seated' = staying \cup S
          /\ IF flag["service"]
               THEN /\ line' = line \ S /\ UNCHANGED mail
                    /\ Goto("service", IF type = "ASSIGN" /\ g \notin S THEN "crashed" ELSE "loop")
               ELSE /\ line' = waiting \ S /\ mail' = mail \cup S
                    /\ Goto("service", "loop")
  /\ finished' = IF type = "FINISHED" THEN finished + 1 ELSE finished
  /\ interrupt' = (interrupt \/ (type = "FINISHED" /\ LastBill(finished + 1)))
  /\ UNCHANGED <<flag, command, main, reaping>>

ServiceStep == \/ ServiceLoop \/ ServiceRecv
               \/ \E type \in {"ASSIGN", "FINISHED"}, g \in Group : ServiceServe(type, g)
               \/ \E g \in Group : ServiceServe("BARRIER", g)

---------------------------------------------------------------------------
(* Group process: groupLoop.  The place in the line, the requests and the  *)
(* meal wait in P(), which the flag ends.                                  *)
GroupAsk(g) ==
  /\ At(g, "enter") /\ Goto(g, "loop")
  /\ inbox' = IF flag[g] THEN inbox ELSE inbox \cup {<<"ASSIGN", g>>}
  /\ UNCHANGED <<flag, command, interrupt, main, reaping, line, mail, seated, finished>>

GroupLoop(g) ==
  /\ At(g, "loop") /\ Goto(g, IF flag[g] THEN "zombie" ELSE "recv")
  /\ UNCHANGED <<flag, command, interrupt, main, reaping, house>>

GroupSit(g) ==
  /\ At(g, "recv") /\ g \in mail
  /\ mail' = mail \ {g}
  /\ Goto(g, "eat")
  /\ UNCHANGED <<flag, command, interrupt, main, reaping, inbox, line, seated, finished>>

(* A flagged group sends no bill.                                          *)
GroupLeave(g) ==
  /\ At(g, "eat") /\ Goto(g, "zombie")
  /\ inbox' = IF flag[g] THEN inbox ELSE inbox \cup {<<"FINISHED", g>>}
  /\ UNCHANGED <<flag, command, interrupt, main, reaping, line, mail, seated, finished>>

GroupStep(g) == GroupAsk(g) \/ GroupLoop(g) \/ GroupSit(g) \/ GroupLeave(g)

---------------------------------------------------------------------------
(* Clients process, main thread: startClients and handleCreateGroup.       *)
(* Closing time comes while groups are still to be created; after the last *)
(* one the thread sleeps.                                                  *)
ClientsLoop ==
  /\ At("clients", "loop")
  /\ \/ flag["clients"] /\ Goto("clients", "close")
     \/ ~flag["clients"] /\ Born # Group /\ \E s \in {"fork", "close"} : Goto("clients", s)
     \/ ~flag["clients"] /\ Born = Group /\ Goto("clients", "nap")
  /\ UNCHANGED <<flag, command, interrupt, main, reaping, house>>

(* SIGTERM is blocked; the child has the flags of its parent.              *)
ClientsFork(g) ==
  /\ At("clients", "fork") /\ g = Groups[Cardinality(Born) + 1]
  /\ stage' = [stage EXCEPT !["clients"] = "count", ![g] = "enter"]
  /\ flag' = [flag EXCEPT ![g] = flag["clients"]]
  /\ UNCHANGED <<command, interrupt, main, reaping, house>>

(* Mutant: the reaper is not told of the child.                            *)
ClientsCountOnly ==
  /\ At("clients", "count") /\ Goto("clients", "loop")
  /\ inbox' = IF Born = Group /\ ~flag["clients"]
                THEN inbox \cup {<<"BARRIER", Groups[1]>>} ELSE inbox
  /\ UNCHANGED <<flag, command, interrupt, main, reaping, line, mail, seated, finished>>

(* The reaper gets its token, and the service a message after the last     *)
(* group.                                                                  *)
ClientsCount ==
  /\ At("clients", "count") /\ Goto("clients", "loop")
  /\ tokens' = tokens + 1
  /\ inbox' = IF Born = Group /\ ~flag["clients"]
                THEN inbox \cup {<<"BARRIER", Groups[1]>>} ELSE inbox
  /\ UNCHANGED <<flag, command, interrupt, main, reaper, spoilt, line, mail, seated, finished>>


(* The end of startClients: SIGTERM for all, a token for the reaper.       *)
ClientsClose ==
  /\ At("clients", "close") /\ SignalAll("clients", "join")
  /\ ReaperHit(1)
  /\ UNCHANGED <<changes, interrupt, main, house>>

ClientsJoin ==
  /\ At("clients", "join") /\ reaper = "done"
  /\ Goto("clients", "done")
  /\ UNCHANGED <<flag, command, interrupt, main, reaping, house>>

ClientsStep == \/ ClientsLoop \/ (\E g \in Group : ClientsFork(g)) \/ ClientsCount
               \/ ClientsClose \/ ClientsJoin

---------------------------------------------------------------------------
(* Mutant: the reaper does not wait for a token.                           *)
ReaperTakeAny ==
  /\ reaper = "sem"
  /\ tokens' = tokens - 1 /\ reaper' = "reap"
  /\ UNCHANGED <<stage, flag, command, interrupt, main, spoilt, house>>

(* Reaper thread: reaperThread, one child for each token.                  *)
ReaperTake ==
  /\ reaper = "sem" /\ tokens > 0
  /\ tokens' = tokens - 1 /\ reaper' = "reap"
  /\ UNCHANGED <<stage, flag, command, interrupt, main, spoilt, house>>

ReaperReap(g) ==
  /\ reaper = "reap" /\ At(g, "zombie")
  /\ Goto(g, "gone") /\ reaper' = "sem"
  /\ UNCHANGED <<flag, command, interrupt, main, tokens, spoilt, house>>

(* ECHILD: the end, if the flag is set.                                    *)
ReaperNobody ==
  /\ reaper = "reap" /\ Zombies = {} /\ Children = {}
  /\ reaper' = IF flag["clients"] THEN "done" ELSE "sem"
  /\ UNCHANGED <<stage, flag, command, interrupt, main, tokens, spoilt, house>>

ReaperStep == ReaperTake \/ (\E g \in Group : ReaperReap(g)) \/ ReaperNobody

---------------------------------------------------------------------------
(* main: sigintHandler, and the wait for all its children before the       *)
(* reports are printed and the IPC removed.                                *)
MainForward ==
  /\ main = "wait" /\ interrupt
  /\ interrupt' = FALSE
  /\ KillAll("main", "wait")
  /\ UNCHANGED <<changes, main, house>>

(* Mutant: main does not wait for the clients.                             *)
MainEndEarly ==
  /\ main = "wait"
  /\ \A p \in Staff \ {"clients"} : stage[p] \in {"done", "crashed"}
  /\ main' = "done"
  /\ UNCHANGED <<stage, flag, command, interrupt, reaping, house>>

MainEnd ==
  /\ main = "wait"
  /\ \A p \in Staff : stage[p] \in {"done", "crashed"}
  /\ main' = "done"
  /\ UNCHANGED <<stage, flag, command, interrupt, reaping, house>>

(* The user: ^C, which main forwards, and SIGUSR1 or SIGUSR2 to the        *)
(* manager.                                                                *)
UserInterrupt ==
  /\ main = "wait" /\ KillAll("main", "wait")
  /\ UNCHANGED <<changes, interrupt, main, house>>

UserSpeed ==
  /\ changes < SpeedSignals /\ Alive("manager")
  /\ changes' = changes + 1
  /\ managerCmd' = "speed"
  /\ Goto("manager", Woken("manager"))
  /\ UNCHANGED <<flag, interrupt, main, reaping, house>>

(* The end of the program.                                                 *)
Finished == main = "done" /\ UNCHANGED vars

Next == \/ ManagerStep \/ ServiceStep \/ ClientsStep \/ ReaperStep
        \/ \E g \in Group : GroupStep(g)
        \/ MainForward \/ MainEnd
        \/ UserInterrupt \/ UserSpeed
        \/ Finished

Spec == Init /\ [][Next]_vars

(* Every process runs; nothing is asked of the user.                       *)
Fairness == /\ WF_vars(ManagerStep) /\ WF_vars(ServiceStep)
            /\ WF_vars(ClientsStep) /\ WF_vars(ReaperStep)
            /\ \A g \in Group : WF_vars(GroupStep(g))
            /\ WF_vars(MainForward) /\ WF_vars(MainEnd)

FairSpec == Spec /\ Fairness

---------------------------------------------------------------------------
(* The type of every variable.                                             *)
TypeOK ==
  /\ stage \in [Process -> {"unborn", "loop", "pause", "woken", "reset",
                            "recv", "serve", "fork", "count", "nap", "close", "join",
                            "enter", "eat", "zombie", "gone", "done", "crashed"}]
  /\ flag \in [Process -> BOOLEAN]
  /\ managerCmd \in {"none", "speed", "close"} /\ changes \in 0 .. SpeedSignals
  /\ interrupt \in BOOLEAN
  /\ main \in {"wait", "done"}
  /\ tokens \in Nat /\ reaper \in {"sem", "reap", "done"} /\ spoilt \in Nat
  /\ inbox \subseteq {"ASSIGN", "FINISHED", "BARRIER"} \X Group
  /\ line \subseteq Group /\ mail \subseteq Group /\ seated \subseteq Group
  /\ finished \in Nat

(* main.cpp:104, "Wait for all children to exit": main waits for its own   *)
(* children only, but the groups are gone too when it reports and removes  *)
(* the IPC, since the clients process waits for its reaper.                *)
ReportsLast ==
  main = "done" => /\ \A p \in Staff : ~Alive(p)
                   /\ \A g \in Group : stage[g] \in {"unborn", "gone"}

(* The reaper spends a token per child, so it can finish only if none was  *)
(* spoilt: what it has and will get is what it needs, less those.          *)
TokensSuffice ==
  reaper # "done" =>
    LET toGet  == IF At("clients", "join") THEN 0 ELSE 1
        toWait == Cardinality({g \in Group : Alive(g) \/ At(g, "zombie")})
        held   == tokens + (IF reaper = "reap" THEN 1 ELSE 0)
                  + (IF At("clients", "count") THEN 1 ELSE 0)
    IN held + toGet + spoilt = toWait + 1

(* The service ends the evening of itself only after the last bill: nobody *)
(* then waits, sits or has a request under way.                            *)
ClosesAfterLastBill ==
  interrupt => /\ line = {} /\ mail = {} /\ seated = {}
               /\ \A g \in Group : stage[g] \in {"zombie", "gone"}

(* A process that sleeps though the signal has come, or a reaper that a    *)
(* signal has cost a token.                                                *)
Overslept ==
  \/ \E p \in Group \cup {"service"} : At(p, "recv") /\ flag[p]
  \/ At("clients", "nap") /\ flag["clients"]
  \/ At("manager", "pause") /\ flag["clients"]
  \/ spoilt > 0


(* client.cpp:481, "Resume reaper to ensure it exits cleanly".             *)
ReaperExits == At("clients", "join") ~> reaper = "done"
===========================================================================
