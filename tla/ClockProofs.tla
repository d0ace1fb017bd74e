---------------------------- MODULE ClockProofs ----------------------------
(***************************************************************************)
(* What module Clock guarantees for every duration, every resolution of    *)
(* time and every pattern of stops: the restaurant closes neither early    *)
(* nor late by more than what whole seconds cut off.                       *)
(*                                                                         *)
(* The argument: what the monitor has added covers the stops it has seen   *)
(* (Covers) and is no more than the time before it began to wait (Owed);   *)
(* a test that did not close holds for the tick it was made in (Tested).   *)
(***************************************************************************)
EXTENDS Clock, TLAPS

(* What a division by the ticks of a second cuts off.                      *)
LEMMA Cut ==
  ASSUME NEW a \in Int
  PROVE  /\ Seconds(a) \in Int
         /\ TicksPerSecond * Seconds(a) <= a
         /\ a < TicksPerSecond * Seconds(a) + TicksPerSecond
<1>1. TicksPerSecond \in Nat \ {0}
  BY ClockAssumption
<1>2. /\ a \div TicksPerSecond \in Int
      /\ TicksPerSecond * (a \div TicksPerSecond) <= a
      /\ a < TicksPerSecond * (a \div TicksPerSecond) + TicksPerSecond
  BY <1>1, Z3
<1>3. QED
  BY <1>2 DEF Seconds

(* More ticks are no fewer seconds.                                        *)
LEMMA MoreTicks ==
  ASSUME NEW a \in Int, NEW b \in Int, a <= b
  PROVE  Seconds(a) <= Seconds(b)
<1> DEFINE T == TicksPerSecond
           x == Seconds(a)
           y == Seconds(b)
<1>1. T \in Nat \ {0} /\ x \in Int /\ y \in Int /\ T * x <= a /\ b < T * y + T
  BY Cut, ClockAssumption
<1> HIDE DEF T, x, y
<1>2. SUFFICES ASSUME y + 1 <= x PROVE FALSE
  BY <1>1 DEF x, y
<1>3. T * (y + 1) <= T * x
  BY <1>1, <1>2
<1>4. T * (y + 1) = T * y + T
  BY <1>1
<1>5. T * y \in Int /\ T * x \in Int
  BY <1>1
<1>6. QED
  BY <1>1, <1>3, <1>4, <1>5

LEMMA InitTypes == Init => TypeOK
<1>1. ASSUME Init
      PROVE  /\ now \in Nat /\ now <= Horizon /\ now \in 0 .. TicksPerSecond - 1 /\ start = now
             /\ t1 = now /\ total = 0 /\ stopped = 0 /\ since = 0 /\ missed = 0 /\ continued = 0
  BY <1>1, ClockAssumption DEF Init
<1>2. Horizon \in Nat /\ StopTicks \in Nat /\ Continues \in Nat /\ TicksPerSecond \in Nat
  BY ClockAssumption
<1>3. ASSUME Init PROVE running \in BOOLEAN /\ tested \in BOOLEAN /\ closed \in BOOLEAN
                       /\ monitor = "t1"
  BY <1>3 DEF Init
<1>4. QED
  BY <1>1, <1>2, <1>3 DEF TypeOK

(* What has been added covers the stops seen, and no more than the time    *)
(* before the monitor began to wait; the user stops the program only so    *)
(* often.                                                                  *)
Covers == total + missed + since >= stopped /\ missed + since <= stopped /\ since <= now - t1
Owed   == /\ total <= IF monitor = "t1" THEN now - start ELSE t1 - start
          /\ start <= t1
Often  == ~running => continued < Continues
(* A test that let the restaurant stay open still would.                   *)
Tested == tested /\ ~closed => ~IsClosingTime

Inv == TypeOK /\ Covers /\ Owed /\ Often /\ Tested

LEMMA InitInv == Init => Inv
<1>1. SUFFICES ASSUME Init PROVE Covers /\ Owed /\ Often /\ Tested
  BY InitTypes DEF Inv
<1>2. now \in Nat /\ start = now /\ running /\ t1 = now /\ total = 0 /\ tested = FALSE
      /\ stopped = 0 /\ since = 0 /\ missed = 0 /\ monitor = "t1"
  BY <1>1, ClockAssumption DEF Init
<1>3. QED
  BY <1>2 DEF Covers, Owed, Often, Tested

LEMMA NextInv == Inv /\ [Next]_vars => Inv'
<1> SUFFICES ASSUME Inv, [Next]_vars PROVE Inv'
  OBVIOUS
<1> USE ClockAssumption DEF Inv
<1>0. /\ now \in Nat /\ start \in Nat /\ t1 \in Nat /\ total \in Nat
      /\ stopped \in Nat /\ since \in Nat /\ missed \in Nat /\ continued \in Nat
  BY DEF TypeOK
<1>1. ASSUME Tick PROVE Inv'
  <2>1. TypeOK'
    <3>1. /\ now' = now + 1 /\ now < Horizon /\ Horizon \in Nat /\ tested' = FALSE
          /\ UNCHANGED <<start, running, monitor, t1, total, closed, missed, continued>>
          /\ \/ stopped' = stopped /\ since' = since
             \/ stopped < StopTicks /\ stopped' = stopped + 1 /\ since' = since + 1
      BY <1>1 DEF Tick, measure
    <3>2. now' \in 0 .. Horizon /\ t1' \in 0 .. now' /\ total' \in 0 .. now'
      BY <1>0, <3>1 DEF TypeOK
    <3>3. stopped' \in 0 .. StopTicks /\ since' \in 0 .. stopped' /\ missed' \in 0 .. stopped'
      BY <1>0, <3>1 DEF TypeOK
    <3>4. QED
      BY <3>1, <3>2, <3>3 DEF TypeOK
  <2>2. Covers' /\ Owed' /\ Often'
    BY <1>0, <1>1 DEF Tick, Covers, Owed, Often, measure
  <2>3. Tested'
    BY <1>1 DEF Tick, Tested
  <2>4. QED
    BY <2>1, <2>2, <2>3
<1>2. ASSUME Stop \/ Continue PROVE Inv'
  <2>1. /\ UNCHANGED <<now, start, t1, total, tested, closed, stopped, since, missed>>
        /\ running' \in BOOLEAN
        /\ monitor' = monitor \/ (monitor = "waits" /\ monitor' = "woken")
        /\ ~running' => continued' < Continues
        /\ continued' \in 0 .. Continues
    <3>1. CASE Stop
      <4>1. /\ UNCHANGED <<now, start, t1, total, monitor, tested, closed, stopped, since, missed,
                         continued>>
            /\ continued < Continues /\ running' = FALSE
        BY <3>1 DEF Stop, measure, closing, history
      <4>2. continued' \in 0 .. Continues
        BY <4>1 DEF TypeOK
      <4>3. QED
        BY <4>1, <4>2
    <3>2. CASE Continue
      <4>1. /\ UNCHANGED <<now, start, t1, total, tested, closed, stopped, since, missed>>
            /\ running' = TRUE /\ continued' = continued + 1
            /\ monitor' = IF monitor = "waits" THEN "woken" ELSE monitor
        BY <3>2 DEF Continue, closing
      <4>2. continued < Continues
        BY <3>2 DEF Continue, Often
      <4>3. continued' \in 0 .. Continues
        BY <1>0, <4>1, <4>2
      <4>4. QED
        BY <4>1, <4>3
    <3>3. QED
      BY <1>2, <3>1, <3>2
  <2>2. TypeOK'
    BY <2>1 DEF TypeOK
  <2>3. Covers' /\ Owed' /\ Often' /\ Tested'
    BY <2>1 DEF Covers, Owed, Often, Tested, IsClosingTime
  <2>4. QED
    BY <2>2, <2>3
<1>3. ASSUME MonitorStart \/ MonitorPause PROVE Inv'
  <2>1. /\ UNCHANGED <<clock, total, closing, stopped, continued>>
        /\ \/ monitor = "t1" /\ monitor' = "pause" /\ t1' = now /\ since' = 0
              /\ missed' = missed + since
           \/ monitor = "pause" /\ monitor' = "waits" /\ UNCHANGED <<t1, since, missed>>
    BY <1>3 DEF MonitorStart, MonitorPause, history
  <2>2. TypeOK' /\ Covers' /\ Owed'
    BY <1>0, <2>1 DEF TypeOK, Covers, Owed, clock, closing
  <2>3. Often' /\ Tested'
    BY <2>1 DEF Often, Tested, IsClosingTime, clock, closing
  <2>4. QED
    BY <2>2, <2>3
<1>4. ASSUME MonitorAdd PROVE Inv'
  <2>1. /\ UNCHANGED <<clock, t1, closing, stopped, continued>>
        /\ monitor = "woken" /\ monitor' = "t1" /\ since' = 0
        /\ \/ total' = total + (now - t1) /\ missed' = missed
           \/ total' = total /\ missed' = missed + since
    BY <1>4 DEF MonitorAdd
  <2>2. TypeOK' /\ Covers' /\ Owed'
    BY <1>0, <2>1 DEF TypeOK, Covers, Owed, clock, closing
  <2>3. total' \in Nat /\ total <= total'
    BY <1>0, <2>1 DEF Covers
  <2>4. Tested'
    <3>1. Seconds(total) <= Seconds(total')
      BY <1>0, <2>3, MoreTicks
    <3>2. /\ Seconds(total) \in Int /\ Seconds(total') \in Int
          /\ Seconds(now) \in Int /\ Seconds(start) \in Int
      BY <1>0, <2>3, Cut
    <3>3. Seconds(now') = Seconds(now) /\ Seconds(start') = Seconds(start)
      BY <2>1 DEF clock
    <3>4. IsClosingTime' => IsClosingTime
      BY <3>1, <3>2, <3>3 DEF IsClosingTime
    <3>5. QED
      BY <2>1, <3>4 DEF Tested, closing
  <2>5. QED
    BY <2>1, <2>2, <2>4 DEF Often, clock
<1>5. ASSUME ClientsTest PROVE Inv'
  <2>1. UNCHANGED <<clock, measure, history>> /\ closed' = IsClosingTime /\ tested' = TRUE
    BY <1>5 DEF ClientsTest
  <2>2. closed' \in BOOLEAN
    BY <2>1 DEF IsClosingTime
  <2>3. TypeOK' /\ Covers' /\ Owed' /\ Often'
    BY <2>1, <2>2 DEF TypeOK, Covers, Owed, Often, clock, measure, history
  <2>4. Tested'
    BY <2>1 DEF Tested, IsClosingTime, clock, measure
  <2>5. QED
    BY <2>3, <2>4
<1>6. ASSUME UNCHANGED vars PROVE Inv'
  <2>1. UNCHANGED <<clock, measure, closing, history>>
    BY <1>6 DEF vars
  <2>2. TypeOK' /\ Covers' /\ Owed' /\ Often'
    BY <2>1 DEF TypeOK, Covers, Owed, Often, clock, measure, closing, history
  <2>3. Tested'
    BY <2>1 DEF Tested, IsClosingTime, clock, measure, closing
  <2>4. QED
    BY <2>2, <2>3
<1>7. QED
  BY <1>1, <1>2, <1>3, <1>4, <1>5, <1>6 DEF Next, Monitor, Closed

(* Every variable keeps its type, and the bounds of the user's signals.    *)
THEOREM TypesCorrect == Spec => []TypeOK
<1>1. Inv => TypeOK
  BY DEF Inv
<1>2. QED
  BY InitInv, NextInv, <1>1, PTL DEF Spec

---------------------------------------------------------------------------
(* However it was stopped, the restaurant does not close before its time   *)
(* but for two seconds cut off and the stops the monitor did not see.      *)
LEMMA TestInTime ==
  ASSUME Inv, IsClosingTime
  PROVE  now - start - (stopped - missed - since) > (Duration - 2) * TicksPerSecond
<1> DEFINE T == TicksPerSecond
           n == Seconds(now)
           s == Seconds(start)
           p == Seconds(total)
<1>1. /\ now \in Int /\ start \in Int /\ total \in Int /\ stopped \in Int /\ since \in Int
      /\ missed \in Int /\ total >= stopped - missed - since
  BY DEF Inv, TypeOK, Covers
<1>2. /\ n \in Int /\ T * n <= now
      /\ s \in Int /\ start < T * s + T
      /\ p \in Int /\ total < T * p + T
  BY <1>1, Cut
<1>3. T \in Nat \ {0} /\ Duration \in Nat /\ n - s - p >= Duration
  BY ClockAssumption DEF IsClosingTime
<1> HIDE DEF T, n, s, p
<1>4. T * (n - s - p) >= T * Duration
  BY <1>2, <1>3
<1>5. T * (n - s - p) = T * n - T * s - T * p
  BY <1>2, <1>3
<1>6. (Duration - 2) * T = T * Duration - 2 * T
  BY <1>3
<1>7. T * n \in Int /\ T * s \in Int /\ T * p \in Int /\ T * Duration \in Int
  BY <1>2, <1>3
<1>8. now - start - total > T * Duration - 2 * T
  BY <1>1, <1>2, <1>3, <1>4, <1>5, <1>7
<1>9. now - start - (stopped - missed - since) > (Duration - 2) * T
  BY <1>1, <1>3, <1>6, <1>7, <1>8
<1>10. QED
  BY <1>9 DEF T

THEOREM NotBeforeTime == Spec => NeverEarly
<1>1. Inv /\ [Next]_vars =>
        [~closed /\ closed' =>
           now - start - (stopped - missed - since) > (Duration - 2) * TicksPerSecond]_vars
  <2>1. SUFFICES ASSUME Inv, Next, ~closed, closed'
                 PROVE  now - start - (stopped - missed - since) > (Duration - 2) * TicksPerSecond
    OBVIOUS
  <2>2. IsClosingTime
    BY <2>1 DEF Next, Tick, Stop, Continue, Monitor, MonitorStart, MonitorPause, MonitorAdd,
                ClientsTest, Closed, vars, closing
  <2>3. QED
    BY <2>1, <2>2, TestInTime
<1>2. QED
  BY InitInv, NextInv, <1>1, PTL DEF Spec, NeverEarly

(* A restaurant that stays open has not yet been open for the duration     *)
(* since the monitor began to wait.                                        *)
THEOREM NotLongAfterTime == Spec => []ClosesInTime
<1>1. Inv => ClosesInTime
  <2>1. SUFFICES ASSUME Inv, tested, ~closed, monitor = "waits"
                 PROVE  now - t1 < Duration * TicksPerSecond
    BY DEF ClosesInTime
  <2> DEFINE T == TicksPerSecond
             n == Seconds(now)
             s == Seconds(start)
             p == Seconds(total)
  <2>2. /\ now \in Int /\ start \in Int /\ total \in Int /\ t1 \in Int
        /\ total <= t1 - start
    BY <2>1 DEF Inv, TypeOK, Owed
  <2>3. /\ n \in Int /\ now < T * n + T
        /\ s \in Int /\ T * s <= start
        /\ p \in Int /\ T * p <= total
    BY <2>2, Cut
  <2>4. T \in Nat \ {0} /\ Duration \in Nat /\ n - s - p <= Duration - 1
    <3>1. ~IsClosingTime
      BY <2>1 DEF Inv, Tested
    <3>2. QED
      BY <2>3, <3>1, ClockAssumption DEF IsClosingTime
  <2> HIDE DEF T, n, s, p
  <2>5. T * (n - s - p) <= T * (Duration - 1)
    BY <2>3, <2>4
  <2>6. T * (n - s - p) = T * n - T * s - T * p /\ T * (Duration - 1) = T * Duration - T
    BY <2>3, <2>4
  <2>7. T * n \in Int /\ T * s \in Int /\ T * p \in Int /\ T * Duration \in Int
    BY <2>3, <2>4
  <2>8. now - t1 < T * Duration
    BY <2>2, <2>3, <2>4, <2>5, <2>6, <2>7
  <2>9. T * Duration = Duration * T
    BY <2>4
  <2>10. QED
    BY <2>8, <2>9 DEF T
<1>2. QED
  BY InitInv, NextInv, <1>1, PTL DEF Spec

=============================================================================
