------------------------------- MODULE Clock -------------------------------
(***************************************************************************)
(* When the restaurant closes: isClosingTime, which the clients process    *)
(* tests before every group, and pauseMonitorThread of main, which adds to *)
(* totalPauseNanoseconds so that the time the program is stopped does not  *)
(* count.                                                                  *)
(*                                                                         *)
(* Time passes in ticks, TicksPerSecond of them a second, so that what     *)
(* time() and the division by 1000000000 cut off can be seen.  A stop      *)
(* (SIGSTOP, ^Z) holds every process of the program; SIGCONT resumes them  *)
(* and wakes the monitor if it is in pause().                              *)
(***************************************************************************)
EXTENDS Integers

CONSTANTS
  TicksPerSecond,  \* how finely time is seen
  Duration,        \* SIMULATION_DURATION_SECONDS
  Filter,          \* the longest wait the monitor drops, in ticks
  Continues,       \* bound: how often SIGCONT is sent
  StopTicks,       \* bound: the ticks of all stops together
  Horizon          \* bound: the last tick

ASSUME ClockAssumption ==
  /\ TicksPerSecond \in Nat \ {0} /\ Duration \in Nat \ {0}
  /\ Filter \in Nat /\ Continues \in Nat /\ StopTicks \in Nat
  /\ Horizon \in Nat /\ Horizon >= TicksPerSecond

VARIABLES
  now,       \* the clock
  start,     \* the clock when state->startTime was taken
  running,   \* FALSE: the program is stopped
  monitor,   \* the monitor: at "t1", before "pause()", in it, or after it
  t1,        \* when the monitor last began to wait
  total,     \* totalPauseNanoseconds
  tested,    \* the clients process has run since the last tick
  closed,    \* it has found that it is closing time
  stopped,   \* history: how long the program was stopped
  since,     \* history: how much of that since the monitor began to wait
  missed,    \* history: how much of that went into no measurement
  continued  \* how often SIGCONT was sent

clock   == <<now, start, running>>
measure == <<monitor, t1, total>>
closing == <<tested, closed>>
history == <<stopped, since, missed, continued>>
vars == <<clock, measure, closing, history>>

---------------------------------------------------------------------------
Seconds(ticks) == ticks \div TicksPerSecond

(* Mutant: the pauses are not deducted.                                    *)
IsClosingTimeWithPauses == Seconds(now) - Seconds(start) >= Duration

(* isClosingTime: startTime is in whole seconds.                           *)
IsClosingTime ==
  (Seconds(now) - Seconds(start)) - Seconds(total) >= Duration

Init ==
  /\ now \in 0 .. TicksPerSecond - 1 /\ start = now /\ running = TRUE
  /\ monitor = "t1" /\ t1 = now /\ total = 0
  /\ tested = FALSE /\ closed = FALSE
  /\ stopped = 0 /\ since = 0 /\ missed = 0 /\ continued = 0

(* A tick is long for a process that runs: the clients process, which does *)
(* not sleep between two groups (SIM_SLEEP does nothing), has tested.      *)
Tick ==
  /\ now < Horizon
  /\ IF running THEN tested /\ ~closed /\ UNCHANGED <<stopped, since>>
                ELSE /\ stopped < StopTicks
                     /\ stopped' = stopped + 1 /\ since' = since + 1
  /\ now' = now + 1
  /\ tested' = FALSE
  /\ UNCHANGED <<start, running, measure, closed, missed, continued>>

(* The user stops the program, and lets it go on.                          *)
Stop ==
  /\ running /\ ~closed /\ continued < Continues
  /\ running' = FALSE
  /\ UNCHANGED <<now, start, measure, closing, history>>

(* SIGCONT: the handler does nothing, but pause() returns.                 *)
Continue ==
  /\ ~running
  /\ running' = TRUE
  /\ continued' = continued + 1
  /\ monitor' = IF monitor = "waits" THEN "woken" ELSE monitor
  /\ UNCHANGED <<now, start, t1, total, closing, stopped, since, missed>>

---------------------------------------------------------------------------
(* pauseMonitorThread.  A SIGCONT between two calls of pause() wakes       *)
(* nobody.                                                                 *)
MonitorStart ==
  /\ running /\ monitor = "t1"
  /\ monitor' = "pause" /\ t1' = now
  /\ since' = 0 /\ missed' = missed + since
  /\ UNCHANGED <<clock, total, closing, stopped, continued>>

MonitorPause ==
  /\ running /\ monitor = "pause"
  /\ monitor' = "waits"
  /\ UNCHANGED <<clock, t1, total, closing, history>>

(* Mutant: the wait is added twice.                                        *)
MonitorAddTwice ==
  /\ running /\ monitor = "woken"
  /\ monitor' = "t1"
  /\ total' = IF now - t1 > Filter THEN total + 2 * (now - t1) ELSE total
  /\ missed' = IF now - t1 > Filter THEN missed ELSE missed + since
  /\ since' = 0
  /\ UNCHANGED <<clock, t1, closing, stopped, continued>>

(* Mutant: the monitor looks up without being woken.                       *)
MonitorPolls ==
  /\ running /\ monitor \in {"waits", "woken"}
  /\ monitor' = "t1"
  /\ total' = total + (now - t1)
  /\ since' = 0
  /\ UNCHANGED <<clock, t1, closing, stopped, missed, continued>>

(* The whole wait is taken for a pause, unless it is very short.           *)
MonitorAdd ==
  /\ running /\ monitor = "woken"
  /\ monitor' = "t1"
  /\ total' = IF now - t1 > Filter THEN total + (now - t1) ELSE total
  /\ missed' = IF now - t1 > Filter THEN missed ELSE missed + since
  /\ since' = 0
  /\ UNCHANGED <<clock, t1, closing, stopped, continued>>

Monitor == MonitorStart \/ MonitorPause \/ MonitorAdd

(* Mutant: the test is for the very second of closing.                     *)
ClientsTestExact ==
  /\ running /\ ~closed /\ ~tested
  /\ closed' = ((Seconds(now) - Seconds(start)) - Seconds(total) = Duration)
  /\ tested' = TRUE
  /\ UNCHANGED <<clock, measure, history>>

(* startClients and handleCreateGroup: no more groups from closing time on. *)
ClientsTest ==
  /\ running /\ ~closed /\ ~tested
  /\ closed' = IsClosingTime
  /\ tested' = TRUE
  /\ UNCHANGED <<clock, measure, history>>

Closed == closed /\ UNCHANGED vars

Next == Tick \/ Stop \/ Continue \/ Monitor \/ ClientsTest \/ Closed

Spec == Init /\ [][Next]_vars

(* Time passes and threads that are not stopped run; nothing is asked of   *)
(* the user.                                                               *)
FairSpec == Spec /\ WF_vars(Tick) /\ WF_vars(Monitor) /\ WF_vars(ClientsTest)

---------------------------------------------------------------------------
(* The type of every variable.                                             *)
TypeOK ==
  /\ now \in 0 .. Horizon /\ start \in 0 .. TicksPerSecond - 1
  /\ running \in BOOLEAN
  /\ monitor \in {"t1", "pause", "waits", "woken"}
  /\ t1 \in 0 .. now /\ total \in 0 .. now
  /\ tested \in BOOLEAN /\ closed \in BOOLEAN
  /\ stopped \in 0 .. StopTicks /\ since \in 0 .. stopped
  /\ missed \in 0 .. stopped /\ continued \in 0 .. Continues

(* "Accurate timekeeping" (main.cpp:48): when it closes, the restaurant    *)
(* has been open for the whole duration but for less than two seconds that *)
(* time() cuts off its start and the division cuts off the pauses, and for *)
(* the stops the monitor has missed or has not yet added when the clients  *)
(* process, resumed with it, makes its test.                               *)
NeverEarly ==
  [][~closed /\ closed' =>
       now - start - (stopped - missed - since) > (Duration - 2) * TicksPerSecond]_vars

(* Nor late beyond reason: every SIGCONT lets the whole duration begin     *)
(* again, but no more than that, whatever is cut off and in whatever order *)
(* monitor and clients saw it.                                             *)
ClosesInTime ==
  running /\ tested /\ ~closed /\ monitor = "waits" =>
    now - t1 < Duration * TicksPerSecond

(* As long as the user lets the program run, it closes.                    *)
ClosesAtLast == <>[](closed \/ ~running)

=============================================================================
