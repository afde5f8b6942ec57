------------------------------ MODULE PcTimers ------------------------------
(***************************************************************************)
(* The timer service of bx_pc_system_c (pc_system.cc, pc_system.h).        *)
(*                                                                         *)
(* Every timer counts down from "remaining", but the service only touches  *)
(* the timers when the nearest of them expires: the CPU loop decrements    *)
(* one number, num_cpu_ticks_left, per instruction, and what has elapsed   *)
(* since the timers were last touched is                                   *)
(* num_cpu_ticks_in_period - num_cpu_ticks_left.                           *)
(*                                                                         *)
(* Timer 0 is the service's own: it fires every COUNTER_INTERVAL ticks and *)
(* increments "counter", from which time_ticks() is computed.              *)
(*                                                                         *)
(* A device's callback runs inside timer_handler and may itself arm and    *)
(* disarm timers; "cursor" is the loop variable of the loop that calls     *)
(* them.  Delays are in ticks: the conversion from microseconds yields at  *)
(* least one tick (pc_system.cc:489,491).                                  *)
(***************************************************************************)
EXTENDS Integers

CONSTANTS
  MaxTimers,         \* BX_MAX_TIMERS
  CounterInterval,   \* COUNTER_INTERVAL
  Delays,            \* the delays, in ticks, that devices ask for
  PollTimer,         \* bx_devices_c::timer_handle: its callback polls the host's requests
  MaxCounter         \* bound: the CPU stops when the counter timer fired this often

ASSUME ConstantsAssumption ==
  /\ MaxTimers \in Nat \ {0}
  /\ CounterInterval \in Nat \ {0}
  /\ Delays \subseteq Nat \ {0}
  /\ PollTimer \in 1 .. MaxTimers - 1
  /\ MaxCounter \in Nat

Timer == 0 .. MaxTimers - 1
CounterTimer == 0
Idle == -1           \* cursor: no handler loop is running

VARIABLES
  timer,             \* bx_pc_system_c::timer[]
  num_timers,
  ticks_in_period,   \* num_cpu_ticks_in_period
  ticks_left,        \* num_cpu_ticks_left
  counter,
  cursor             \* the timer whose callback is running, or Idle

vars == <<timer, num_timers, ticks_in_period, ticks_left, counter, cursor>>

TimerType == [period : Nat, remaining : Nat, active : BOOLEAN,
              continuous : BOOLEAN, triggered : BOOLEAN]

TypeOK ==
  /\ timer \in [Timer -> TimerType]
  /\ num_timers \in 1 .. MaxTimers
  /\ ticks_in_period \in Nat
  /\ ticks_left \in Nat
  /\ counter \in Nat
  /\ cursor \in Timer \cup {Idle}

Unregistered == [period |-> 0, remaining |-> 0, active |-> FALSE,
                 continuous |-> FALSE, triggered |-> FALSE]

\* The constructor: every slot is empty but the counter timer's.
Init ==
  /\ timer = [t \in Timer |->
       IF t = CounterTimer
       THEN [period |-> CounterInterval, remaining |-> CounterInterval,
             active |-> TRUE, continuous |-> TRUE, triggered |-> FALSE]
       ELSE Unregistered]
  /\ num_timers = 1
  /\ ticks_in_period = CounterInterval
  /\ ticks_left = CounterInterval
  /\ counter = 0
  /\ cursor = Idle

-----------------------------------------------------------------------------
Elapsed == ticks_in_period - ticks_left

\* What every timer looks like once the ticks elapsed so far are taken off.
Expired ==
  [t \in Timer |-> IF timer[t].active
                   THEN [timer[t] EXCEPT !.remaining = @ - Elapsed]
                   ELSE timer[t]]

\* Two wrong versions of Countdown, which only a mutation uses.
CountdownKeepsPeriod(d) ==
  /\ ticks_left' = IF d < ticks_left THEN d ELSE ticks_left
  /\ ticks_in_period' = ticks_in_period

CountdownIgnoresNearer(d) ==
  /\ ticks_left' = ticks_left
  /\ ticks_in_period' = ticks_left

\* The countdown after a timer was armed d ticks from now: a nearer deadline
\* starts a new, shorter period; otherwise the current one runs on.
Countdown(d) ==
  /\ ticks_left' = IF d < ticks_left THEN d ELSE ticks_left
  /\ ticks_in_period' = IF d < ticks_left THEN d ELSE ticks_left

\* Device code runs between instructions and inside its callbacks, never
\* inside the callback of the counter timer.
DeviceCodeRuns == cursor # CounterTimer

\* A device whose delay is not known yet registers its timer inactive, with 0.
RegisterTimer(d, continuous, active) ==
  /\ cursor = Idle
  /\ num_timers < MaxTimers
  /\ active => d > 0
  /\ num_timers' = num_timers + 1
  /\ timer' = [Expired EXCEPT ![num_timers] =
                 [period |-> d, remaining |-> d, active |-> active,
                  continuous |-> continuous, triggered |-> @.triggered]]
  /\ IF active THEN Countdown(d)
               ELSE ticks_left' = ticks_left /\ ticks_in_period' = ticks_left
  /\ UNCHANGED <<counter, cursor>>

ActivateTimer(t, d, continuous) ==
  /\ DeviceCodeRuns
  /\ timer' = [Expired EXCEPT ![t] =
                 [period |-> d, remaining |-> d, active |-> TRUE,
                  continuous |-> continuous, triggered |-> @.triggered]]
  /\ Countdown(d)
  /\ UNCHANGED <<num_timers, counter, cursor>>

\* activate_timer with useconds = 0 takes the period the timer already has;
\* its callers pass 0 only for timers whose period is set.
ReactivateTimer(t, continuous) ==
  /\ timer[t].period > 0
  /\ ActivateTimer(t, timer[t].period, continuous)

DeactivateTimer(t) ==
  /\ DeviceCodeRuns
  /\ timer' = [timer EXCEPT ![t].active = FALSE]
  /\ UNCHANGED <<num_timers, ticks_in_period, ticks_left, counter, cursor>>

-----------------------------------------------------------------------------
\* A wrong version of AfterPeriod: a one-shot timer is not disarmed.
AfterPeriodKeepsOneShot(t) ==
  LET tm  == timer[t]
      hit == tm.active /\ tm.remaining = ticks_in_period
  IN  [tm EXCEPT !.triggered  = hit,
                 !.remaining  = IF hit THEN tm.period
                                ELSE IF tm.active THEN @ - ticks_in_period ELSE @]

\* A timer as the first loop of timer_handler leaves it, when a whole period
\* has elapsed: it is triggered if nothing remains, and then reloaded, and
\* disarmed if it is a one-shot.
AfterPeriod(t) ==
  LET tm  == timer[t]
      hit == tm.active /\ tm.remaining = ticks_in_period
  IN  [tm EXCEPT !.triggered  = hit,
                 !.remaining  = IF hit THEN tm.period
                                ELSE IF tm.active THEN @ - ticks_in_period ELSE @,
                 !.active     = @ /\ (hit => tm.continuous)]

\* The loop that calls the callbacks has reached slot i: it stops at the next
\* triggered timer, or the handler returns.
ScanFrom(i) ==
  \/ \E t \in i .. num_timers - 1 :
       /\ timer'[t].triggered
       /\ \A u \in i .. t - 1 : ~timer'[u].triggered
       /\ cursor' = t
  \/ /\ \A t \in i .. num_timers - 1 : ~timer'[t].triggered
     /\ cursor' = Idle

\* One tick of the CPU that is not the last of the period.
Tick ==
  /\ cursor = Idle
  /\ counter < MaxCounter
  /\ ticks_left > 1
  /\ ticks_left' = ticks_left - 1
  /\ UNCHANGED <<timer, num_timers, ticks_in_period, counter, cursor>>

\* The last tick of the period: timer_handler reloads the timers, sets the
\* countdown to the nearest of them and starts calling callbacks.
TimerHandler ==
  /\ cursor = Idle
  /\ counter < MaxCounter
  /\ ticks_left = 1
  /\ timer' = [t \in Timer |-> AfterPeriod(t)]
  /\ \E t \in Timer :
       /\ timer'[t].active
       /\ \A u \in Timer : timer'[u].active => timer'[t].remaining <= timer'[u].remaining
       /\ ticks_left' = timer'[t].remaining
  /\ ticks_in_period' = ticks_left'
  /\ ScanFrom(0)
  /\ UNCHANGED <<num_timers, counter>>

\* A callback returns; counter_timer_handler is one increment.
CallbackReturns ==
  /\ cursor # Idle
  /\ counter' = IF cursor = CounterTimer THEN counter + 1 ELSE counter
  /\ UNCHANGED <<timer, num_timers, ticks_in_period, ticks_left>>
  /\ ScanFrom(cursor + 1)

\* The poll finds a reset request of the host: handle_events resets the CPU and
\* leaves the handler with longjmp; callbacks later in the round never run.
HostReset ==
  /\ cursor = PollTimer
  /\ cursor' = Idle
  /\ UNCHANGED <<timer, num_timers, ticks_in_period, ticks_left, counter>>

Next ==
  \/ Tick
  \/ TimerHandler
  \/ CallbackReturns
  \/ HostReset
  \/ \E d \in Delays \cup {0}, continuous, active \in BOOLEAN : RegisterTimer(d, continuous, active)
  \/ \E t \in 1 .. num_timers - 1, d \in Delays, continuous \in BOOLEAN :
       ActivateTimer(t, d, continuous)
  \/ \E t \in 1 .. num_timers - 1, continuous \in BOOLEAN : ReactivateTimer(t, continuous)
  \/ \E t \in 1 .. num_timers - 1 : DeactivateTimer(t)

Spec == Init /\ [][Next]_vars

-----------------------------------------------------------------------------
\* time_ticks(): the number of CPU ticks since the machine was built.
TimeTicks ==
  (counter + 1) * CounterInterval - timer[CounterTimer].remaining + Elapsed

\* The countdown never runs past a deadline: the nearest armed timer expires
\* no earlier than the current period (otherwise "remaining -= delta" in
\* timer_handler wraps around and the timer is lost for 2^64 ticks).
NoDeadlineInsidePeriod ==
  /\ 0 < ticks_left
  /\ ticks_left <= ticks_in_period
  /\ \A t \in Timer : timer[t].active => timer[t].remaining >= ticks_in_period

(***************************************************************************)
(* The instant, the deadlines and the alarms being served, as a client of  *)
(* the service sees them.  Between the reload of the counter timer and its *)
(* callback, time_ticks() is one interval behind; no device code runs then.*)
(***************************************************************************)
Instant == TimeTicks + (IF cursor = CounterTimer THEN CounterInterval ELSE 0)

Due(t) == Instant + timer[t].remaining - Elapsed

Every(t) == IF timer[t].continuous THEN timer[t].period ELSE 0

Alarms ==
  [t \in Timer |-> IF timer[t].active
                   THEN [set |-> TRUE, due |-> Due(t), every |-> Every(t)]
                   ELSE [set |-> FALSE, due |-> 0, every |-> 0]]

BeingServed ==
  IF cursor = Idle THEN {} ELSE {t \in cursor .. num_timers - 1 : timer[t].triggered}

Clock == INSTANCE AlarmClock WITH
           Alarm   <- Timer,
           Poll    <- PollTimer,
           now     <- Instant,
           alarm   <- Alarms,
           ringing <- BeingServed

\* The service is an alarm clock: whatever devices arm and disarm, and
\* whenever, each timer fires at exactly the tick it was armed for, a
\* periodic one without drift, and time_ticks() counts every tick once; no
\* callback of a round is lost but by a reset that the poll carries out.
ImplementsAlarmClock == Clock!Spec
=============================================================================
