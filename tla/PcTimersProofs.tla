--------------------------- MODULE PcTimersProofs ---------------------------
(***************************************************************************)
(* Theorems about the timer service for any number of timers, any counter  *)
(* interval and any set of delays.                                         *)
(***************************************************************************)
EXTENDS PcTimers, TLAPS

\* The counter timer is armed for good, and no more than an interval remains.
ClockRuns ==
  /\ timer[CounterTimer].active
  /\ timer[CounterTimer].continuous
  /\ timer[CounterTimer].period = CounterInterval
  /\ timer[CounterTimer].remaining <= CounterInterval

\* An armed timer has a period to be reloaded with.
ArmedHavePeriod == \A t \in Timer : timer[t].active => timer[t].period > 0

\* The slots that no device has registered are empty.
OthersUnused ==
  \A t \in Timer : t >= num_timers => ~timer[t].active /\ ~timer[t].triggered

\* The callback that runs is that of a registered timer that expired.
CursorAtTriggered ==
  cursor # Idle => cursor < num_timers /\ timer[cursor].triggered

IInv ==
  /\ TypeOK
  /\ NoDeadlineInsidePeriod
  /\ ClockRuns
  /\ ArmedHavePeriod
  /\ OthersUnused
  /\ CursorAtTriggered

-----------------------------------------------------------------------------
\* Timer 0 exists.
LEMMA CounterTimerIsATimer == CounterTimer \in Timer /\ 0 \in Timer
  BY ConstantsAssumption, SMT DEF CounterTimer, Timer

\* What an update of one field of a timer's record leaves alone.
LEMMA RemainingUpdate ==
  ASSUME NEW r \in TimerType, NEW n \in Nat, NEW s, s = [r EXCEPT !.remaining = n]
  PROVE  /\ s \in TimerType
         /\ s.remaining = n
         /\ s.active = r.active
         /\ s.triggered = r.triggered
         /\ s.continuous = r.continuous
         /\ s.period = r.period
  BY Zenon DEF TimerType

\* Taking off the elapsed ticks keeps every timer well-formed and moves no
\* deadline inside what is left of the period.
LEMMA ExpiredOK ==
  ASSUME IInv
  PROVE  /\ Expired \in [Timer -> TimerType]
         /\ \A t \in Timer :
              /\ Expired[t].active = timer[t].active
              /\ Expired[t].continuous = timer[t].continuous
              /\ Expired[t].period = timer[t].period
              /\ Expired[t].triggered = timer[t].triggered
              /\ timer[t].active => Expired[t].remaining = timer[t].remaining - Elapsed
              /\ ~timer[t].active => Expired[t].remaining = timer[t].remaining
              /\ timer[t].active => Expired[t].remaining >= ticks_left
  <1> SUFFICES ASSUME NEW t \in Timer
               PROVE  /\ Expired[t] \in TimerType
                      /\ Expired[t].active = timer[t].active
                      /\ Expired[t].continuous = timer[t].continuous
                      /\ Expired[t].period = timer[t].period
                      /\ Expired[t].triggered = timer[t].triggered
                      /\ timer[t].active => Expired[t].remaining = timer[t].remaining - Elapsed
                      /\ ~timer[t].active => Expired[t].remaining = timer[t].remaining
                      /\ timer[t].active => Expired[t].remaining >= ticks_left
    <2>1. Expired = [u \in Timer |-> Expired[u]]
      BY Zenon DEF Expired
    <2> QED  BY <2>1, Zenon
  <1>1. timer[t] \in TimerType
    BY DEF IInv, TypeOK
  <1>2. CASE timer[t].active
    <2>1. Expired[t] = [timer[t] EXCEPT !.remaining = @ - Elapsed]
      BY <1>2 DEF Expired
    <2>2. timer[t].remaining >= ticks_in_period /\ ticks_left <= ticks_in_period
      BY <1>2 DEF IInv, NoDeadlineInsidePeriod
    <2>3. ticks_left \in Nat /\ ticks_in_period \in Nat
      BY DEF IInv, TypeOK
    <2>4. timer[t].remaining \in Nat
      BY <1>1, Zenon DEF TimerType
    <2>5. /\ timer[t].remaining - Elapsed \in Nat
          /\ timer[t].remaining - Elapsed >= ticks_left
      BY <2>2, <2>3, <2>4, SMT DEF Elapsed
    <2>6. Expired[t] = [timer[t] EXCEPT !.remaining = timer[t].remaining - Elapsed]
      BY <2>1
    <2>7. /\ Expired[t] \in TimerType
          /\ Expired[t].remaining = timer[t].remaining - Elapsed
          /\ Expired[t].active = timer[t].active
          /\ Expired[t].triggered = timer[t].triggered
          /\ Expired[t].continuous = timer[t].continuous
          /\ Expired[t].period = timer[t].period
      BY <1>1, <2>5, <2>6, RemainingUpdate
    <2> QED  BY <1>2, <2>5, <2>7, Zenon
  <1>3. CASE ~timer[t].active
    <2>1. Expired[t] = timer[t]
      BY <1>3 DEF Expired
    <2> QED  BY <1>1, <1>3, <2>1
  <1> QED  BY <1>2, <1>3

\* A timer that is reloaded or only counted down is well-formed again.
LEMMA AfterPeriodOK ==
  ASSUME IInv, NEW t \in Timer
  PROVE  /\ AfterPeriod(t) \in TimerType
         /\ AfterPeriod(t).active => timer[t].active /\ AfterPeriod(t).remaining > 0
         /\ AfterPeriod(t).triggered => timer[t].active
         /\ AfterPeriod(t).continuous = timer[t].continuous
         /\ AfterPeriod(t).period = timer[t].period
         /\ t = CounterTimer =>
              AfterPeriod(t).active /\ AfterPeriod(t).remaining <= CounterInterval
  <1> DEFINE hit == timer[t].active /\ timer[t].remaining = ticks_in_period
  <1>1. timer[t] \in TimerType /\ ticks_in_period \in Nat
    BY DEF IInv, TypeOK
  <1>2. ticks_in_period > 0
    BY SMT DEF IInv, TypeOK, NoDeadlineInsidePeriod
  <1>3. timer[t].active => timer[t].remaining >= ticks_in_period /\ timer[t].period > 0
    BY DEF IInv, NoDeadlineInsidePeriod, ArmedHavePeriod
  <1>4. t = CounterTimer =>
          /\ timer[t].active /\ timer[t].continuous
          /\ timer[t].period = CounterInterval /\ timer[t].remaining <= CounterInterval
    BY DEF IInv, ClockRuns
  <1> DEFINE left == IF hit THEN timer[t].period
                     ELSE IF timer[t].active THEN timer[t].remaining - ticks_in_period
                     ELSE timer[t].remaining
             armed == timer[t].active /\ (hit => timer[t].continuous)
  <1>5. AfterPeriod(t) = [timer[t] EXCEPT !.triggered = hit, !.remaining = left, !.active = armed]
    BY Zenon DEF AfterPeriod
  <1>6. /\ timer[t].period \in Nat /\ timer[t].remaining \in Nat
        /\ timer[t].active \in BOOLEAN /\ timer[t].continuous \in BOOLEAN
    BY <1>1, Zenon DEF TimerType
  <1>7. left \in Nat
    BY <1>1, <1>3, <1>6, SMT
  <1>8. armed => timer[t].active /\ left > 0
    BY <1>1, <1>2, <1>3, <1>6, SMT
  <1>9. t = CounterTimer => armed /\ left <= CounterInterval
    BY <1>1, <1>2, <1>3, <1>4, <1>6, ConstantsAssumption, SMT
  <1>10. hit \in BOOLEAN /\ armed \in BOOLEAN
    OBVIOUS
  <1>11. /\ AfterPeriod(t) \in TimerType
         /\ AfterPeriod(t).remaining = left
         /\ AfterPeriod(t).active = armed
         /\ AfterPeriod(t).triggered = hit
         /\ AfterPeriod(t).continuous = timer[t].continuous
         /\ AfterPeriod(t).period = timer[t].period
    <2> HIDE DEF hit, left, armed
    <2> HIDE DEF AfterPeriod
    <2> QED  BY <1>1, <1>5, <1>7, <1>10, Zenon DEF TimerType
  <1> HIDE DEF left, armed
  <1> QED  BY <1>8, <1>9, <1>11, Zenon

-----------------------------------------------------------------------------
\* The timers as the program begins.
LEMMA InitIInv == Init => IInv
  <1> SUFFICES ASSUME Init PROVE IInv
    OBVIOUS
  <1> DEFINE first == [period |-> CounterInterval, remaining |-> CounterInterval,
                       active |-> TRUE, continuous |-> TRUE, triggered |-> FALSE]
  <1>1. /\ timer[CounterTimer] = first
        /\ \A t \in Timer : t # CounterTimer => timer[t] = Unregistered
    BY CounterTimerIsATimer, Zenon DEF Init
  <1>2. first \in TimerType /\ Unregistered \in TimerType
    BY ConstantsAssumption, SMT DEF TimerType, Unregistered
  <1>3. TypeOK
    <2>1. timer \in [Timer -> TimerType]
      BY <1>2, Zenon DEF Init
    <2>2. /\ num_timers = 1 /\ ticks_in_period = CounterInterval
          /\ ticks_left = CounterInterval /\ counter = 0 /\ cursor = Idle
      BY Zenon DEF Init
    <2> HIDE DEF first
    <2> QED  BY <2>1, <2>2, ConstantsAssumption, SMT DEF TypeOK
  <1>4. \A t \in Timer : ~Unregistered.active /\ ~Unregistered.triggered
    BY Zenon DEF Unregistered
  <1>5. \A t \in Timer : timer[t].active => t = CounterTimer
    BY <1>1, <1>4, Zenon
  <1>6. NoDeadlineInsidePeriod /\ ClockRuns /\ ArmedHavePeriod
    BY <1>1, <1>5, CounterTimerIsATimer, ConstantsAssumption, SMT
       DEF Init, NoDeadlineInsidePeriod, ClockRuns, ArmedHavePeriod
  <1>7. OthersUnused /\ CursorAtTriggered
    BY <1>1, <1>4, SMT DEF Init, OthersUnused, CursorAtTriggered, CounterTimer, Timer, Idle
  <1> QED  BY <1>3, <1>6, <1>7 DEF IInv

\* Arming a device's timer, whether it runs already, restarts or is new.
LEMMA ArmKeepsIInv ==
  ASSUME IInv,
         NEW t \in Timer, t # CounterTimer,
         NEW r \in TimerType, r.active => r.period > 0 /\ r.remaining = r.period,
         r.triggered = timer[t].triggered,
         timer' = [Expired EXCEPT ![t] = r],
         ticks_in_period' = ticks_left', ticks_left' \in Nat,
         0 < ticks_left', ticks_left' <= ticks_left,
         r.active => ticks_left' <= r.remaining,
         num_timers' \in num_timers .. MaxTimers, t < num_timers',
         UNCHANGED <<counter, cursor>>
  PROVE  IInv'
  <1>1. /\ timer' \in [Timer -> TimerType]
        /\ timer'[t] = r
        /\ \A u \in Timer : u # t => timer'[u] = Expired[u]
    BY ExpiredOK, Zenon
  <1>2. /\ num_timers \in 1 .. MaxTimers /\ ticks_left \in Nat /\ counter \in Nat
        /\ ticks_in_period \in Nat /\ ticks_left <= ticks_in_period
        /\ cursor \in Timer \cup {Idle}
    BY DEF IInv, TypeOK, NoDeadlineInsidePeriod
  <1>3. \A u \in Timer : Expired[u] \in TimerType
    BY ExpiredOK, Zenon
  <1>4. TypeOK'
    BY <1>1, <1>2, ConstantsAssumption, SMT DEF TypeOK
  <1>5. NoDeadlineInsidePeriod'
    <2>1. ASSUME NEW u \in Timer, timer'[u].active, u # t
          PROVE  timer'[u].remaining >= ticks_left
      BY <1>1, <2>1, ExpiredOK
    <2>2. \A u \in Timer : timer'[u].remaining \in Nat
      BY <1>1, Zenon DEF TimerType
    <2>3. ASSUME NEW u \in Timer, timer'[u].active
          PROVE  timer'[u].remaining >= ticks_in_period'
      BY <1>1, <1>2, <2>1, <2>2, <2>3, SMT
    <2> QED  BY <1>2, <2>3, SMT DEF NoDeadlineInsidePeriod
  <1>6. ClockRuns'
    <2>1. /\ timer[CounterTimer].active /\ timer[CounterTimer].continuous
          /\ timer[CounterTimer].period = CounterInterval
          /\ timer[CounterTimer].remaining <= CounterInterval
          /\ timer[CounterTimer].remaining \in Nat
      BY CounterTimerIsATimer, Zenon DEF IInv, ClockRuns, TypeOK, TimerType
    <2>2. /\ timer'[CounterTimer].active /\ timer'[CounterTimer].continuous
          /\ timer'[CounterTimer].period = CounterInterval
          /\ timer'[CounterTimer].remaining = timer[CounterTimer].remaining - Elapsed
      BY <1>1, <2>1, CounterTimerIsATimer, ExpiredOK
    <2> QED  BY <1>2, <2>1, <2>2, ConstantsAssumption, SMT DEF ClockRuns, Elapsed
  <1>7. ArmedHavePeriod'
    BY <1>1, ExpiredOK, SMT DEF IInv, ArmedHavePeriod
  <1>8. OthersUnused'
    <2>1. ASSUME NEW u \in Timer, u >= num_timers' PROVE u # t /\ u >= num_timers
      BY <1>2, <2>1, SMT DEF Timer
    <2> QED  BY <1>1, <2>1, ExpiredOK DEF IInv, OthersUnused
  <1>9. CursorAtTriggered'
    <2>1. ASSUME cursor # Idle
          PROVE  /\ cursor \in Timer /\ cursor < num_timers'
                 /\ timer'[cursor].triggered = timer[cursor].triggered
      BY <1>1, <1>2, <2>1, ExpiredOK, SMT DEF IInv, CursorAtTriggered, Timer
    <2> QED  BY <2>1 DEF IInv, CursorAtTriggered
  <1> QED  BY <1>4, <1>5, <1>6, <1>7, <1>8, <1>9 DEF IInv

\* A timer is registered.
LEMMA RegisterKeepsIInv ==
  ASSUME IInv, NEW d \in Delays \cup {0}, NEW continuous \in BOOLEAN, NEW active \in BOOLEAN,
         RegisterTimer(d, continuous, active)
  PROVE  IInv'
  <1> DEFINE r == [period |-> d, remaining |-> d, active |-> active,
                   continuous |-> continuous, triggered |-> timer[num_timers].triggered]
  <1>1. /\ num_timers \in Nat /\ num_timers >= 1 /\ num_timers < MaxTimers
        /\ num_timers \in Timer /\ num_timers # CounterTimer
    BY ConstantsAssumption, SMT DEF IInv, TypeOK, RegisterTimer, Timer, CounterTimer
  <1>2. timer[num_timers].triggered \in BOOLEAN /\ d \in Nat
    <2>1. timer[num_timers].triggered \in BOOLEAN
      BY <1>1, Zenon DEF IInv, TypeOK, TimerType
    <2>2. d \in Nat
      BY ConstantsAssumption, SMT
    <2> QED  BY <2>1, <2>2
  <1>3. r \in TimerType
    BY <1>2, Zenon DEF TimerType
  <1>4. r.active => r.period > 0
    BY DEF RegisterTimer
  <1>5. r.remaining = r.period /\ r.triggered = timer[num_timers].triggered
    BY Zenon
  <1>6. timer' = [Expired EXCEPT ![num_timers] = r]
    BY <1>1, ExpiredOK, Zenon DEF RegisterTimer
  <1>7. /\ ticks_in_period' = ticks_left' /\ ticks_left' \in Nat
        /\ 0 < ticks_left' /\ ticks_left' <= ticks_left
        /\ active => ticks_left' <= d
    BY <1>2, SMT DEF IInv, TypeOK, NoDeadlineInsidePeriod, RegisterTimer, Countdown
  <1>8. r.active => ticks_left' <= r.remaining
    BY <1>7, Zenon
  <1>9. /\ num_timers' \in num_timers .. MaxTimers /\ num_timers < num_timers'
        /\ UNCHANGED <<counter, cursor>>
    BY <1>1, ConstantsAssumption, SMT DEF RegisterTimer
  <1> HIDE DEF r
  <1> QED  BY <1>1, <1>3, <1>4, <1>5, <1>6, <1>7, <1>8, <1>9, ArmKeepsIInv

\* A timer is activated.
LEMMA ActivateKeepsIInv ==
  ASSUME IInv, NEW t \in 1 .. num_timers - 1, NEW d \in Nat \ {0},
         NEW continuous \in BOOLEAN, ActivateTimer(t, d, continuous)
  PROVE  IInv'
  <1> DEFINE r == [period |-> d, remaining |-> d, active |-> TRUE,
                   continuous |-> continuous, triggered |-> timer[t].triggered]
  <1>1. /\ num_timers \in Nat /\ num_timers <= MaxTimers
        /\ t \in Timer /\ t # CounterTimer /\ t < num_timers
    BY ConstantsAssumption, SMT DEF IInv, TypeOK, Timer, CounterTimer
  <1>2. timer[t].triggered \in BOOLEAN
    BY <1>1, Zenon DEF IInv, TypeOK, TimerType
  <1>3. r \in TimerType
    BY <1>2, Zenon DEF TimerType
  <1>4. r.active => r.period > 0 /\ r.remaining = r.period
    OBVIOUS
  <1>5. r.triggered = timer[t].triggered /\ r.remaining = d
    BY Zenon
  <1>6. timer' = [Expired EXCEPT ![t] = r]
    BY <1>1, ExpiredOK, Zenon DEF ActivateTimer
  <1>7. /\ ticks_in_period' = ticks_left' /\ ticks_left' \in Nat
        /\ 0 < ticks_left' /\ ticks_left' <= ticks_left
        /\ ticks_left' <= d
    BY SMT DEF IInv, TypeOK, NoDeadlineInsidePeriod, ActivateTimer, Countdown
  <1>8. /\ num_timers' \in num_timers .. MaxTimers /\ t < num_timers'
        /\ UNCHANGED <<counter, cursor>>
    BY <1>1, ConstantsAssumption, SMT DEF ActivateTimer
  <1> HIDE DEF r
  <1> QED  BY <1>1, <1>3, <1>4, <1>5, <1>6, <1>7, <1>8, ArmKeepsIInv

\* A timer is deactivated.
LEMMA DeactivateKeepsIInv ==
  ASSUME IInv, NEW t \in 1 .. num_timers - 1, DeactivateTimer(t)
  PROVE  IInv'
  <1>1. t \in Timer /\ t # CounterTimer
    BY ConstantsAssumption, SMT DEF IInv, TypeOK, Timer, CounterTimer
  <1>2. timer \in [Timer -> TimerType]
    BY DEF IInv, TypeOK
  <1>3. timer'[t] = [timer[t] EXCEPT !.active = FALSE]
    BY <1>1, <1>2, Zenon DEF DeactivateTimer
  <1>4. /\ timer'[t] \in TimerType
        /\ ~timer'[t].active
        /\ timer'[t].triggered = timer[t].triggered
    BY <1>1, <1>2, <1>3, Zenon DEF TimerType
  <1>5. \A u \in Timer : u # t => timer'[u] = timer[u]
    BY <1>1, <1>2, Zenon DEF DeactivateTimer
  <1>6. timer' \in [Timer -> TimerType]
    <2>1. timer' = [u \in Timer |-> timer'[u]]
      BY <1>1, <1>2, Zenon DEF DeactivateTimer
    <2>2. \A u \in Timer : timer'[u] \in TimerType
      BY <1>2, <1>4, <1>5, Zenon
    <2> QED  BY <2>1, <2>2, Zenon
  <1>7. UNCHANGED <<num_timers, ticks_in_period, ticks_left, counter, cursor>>
    BY DEF DeactivateTimer
  <1>8. TypeOK'
    BY <1>6, <1>7, Zenon DEF IInv, TypeOK
  <1>9. NoDeadlineInsidePeriod' /\ ArmedHavePeriod'
    BY <1>4, <1>5, <1>7, Zenon DEF IInv, NoDeadlineInsidePeriod, ArmedHavePeriod
  <1>10. ClockRuns'
    BY <1>1, <1>5, CounterTimerIsATimer, Zenon DEF IInv, ClockRuns
  <1>11. OthersUnused'
    BY <1>4, <1>5, <1>7, Zenon DEF IInv, OthersUnused
  <1>12. CursorAtTriggered'
    BY <1>4, <1>5, <1>7, Zenon DEF IInv, CursorAtTriggered, TypeOK
  <1> QED  BY <1>8, <1>9, <1>10, <1>11, <1>12 DEF IInv

\* Where the loop over the callbacks can stop.
LEMMA ScanFromOK ==
  ASSUME NEW i \in Nat, num_timers \in Nat, ScanFrom(i)
  PROVE  /\ cursor' = Idle \/ cursor' \in i .. num_timers - 1
         /\ cursor' # Idle => timer'[cursor'].triggered
         /\ \A u \in i .. num_timers - 1 :
              timer'[u].triggered => cursor' # Idle /\ cursor' <= u
  <1>1. CASE \A t \in i .. num_timers - 1 : ~timer'[t].triggered /\ cursor' = Idle
    BY <1>1, SMT DEF ScanFrom, Idle
  <1>2. CASE \E t \in i .. num_timers - 1 :
               /\ timer'[t].triggered
               /\ \A u \in i .. t - 1 : ~timer'[u].triggered
               /\ cursor' = t
    BY <1>2, SMT DEF Idle
  <1> QED  BY <1>1, <1>2 DEF ScanFrom

\* The end of a period: every timer is brought up to date, and the due ones are triggered.
LEMMA TimerHandlerKeepsIInv == ASSUME IInv, TimerHandler PROVE IInv'
  <1>1. /\ timer' = [t \in Timer |-> AfterPeriod(t)]
        /\ \A t \in Timer : timer'[t] = AfterPeriod(t)
    BY Zenon DEF TimerHandler
  <1>2. timer' \in [Timer -> TimerType]
    BY <1>1, AfterPeriodOK, Zenon
  <1>3. /\ num_timers \in 1 .. MaxTimers /\ counter \in Nat
        /\ num_timers' = num_timers /\ counter' = counter
        /\ ticks_in_period' = ticks_left'
    BY DEF IInv, TypeOK, TimerHandler
  <1>4. PICK t \in Timer :
          /\ timer'[t].active
          /\ \A u \in Timer : timer'[u].active => timer'[t].remaining <= timer'[u].remaining
          /\ ticks_left' = timer'[t].remaining
    BY DEF TimerHandler
  <1>5. ticks_left' \in Nat /\ ticks_left' > 0
    <2>1. timer'[t].remaining \in Nat
      BY <1>2, Zenon DEF TimerType
    <2> QED  BY <2>1, <1>1, <1>4, AfterPeriodOK
  <1>6. /\ cursor' = Idle \/ cursor' \in 0 .. num_timers - 1
        /\ cursor' # Idle => timer'[cursor'].triggered
    <2>1. ScanFrom(0) /\ num_timers \in Nat /\ 0 \in Nat
      BY <1>3, SMT DEF TimerHandler
    <2> QED  BY <2>1, ScanFromOK
  <1>7. TypeOK'
    <2>1. cursor' \in Timer \cup {Idle}
      BY <1>3, <1>6, ConstantsAssumption, SMT DEF Timer
    <2> QED  BY <1>2, <1>3, <1>5, <2>1, Zenon DEF TypeOK
  <1>8. NoDeadlineInsidePeriod'
    <2>1. \A u \in Timer : timer'[u].remaining \in Nat
      BY <1>2, Zenon DEF TimerType
    <2> QED  BY <1>3, <1>4, <1>5, <2>1, SMT DEF NoDeadlineInsidePeriod
  <1>9. ClockRuns'
    BY <1>1, AfterPeriodOK, CounterTimerIsATimer, Zenon DEF IInv, ClockRuns
  <1>10. ArmedHavePeriod'
    BY <1>1, AfterPeriodOK, Zenon DEF IInv, ArmedHavePeriod
  <1>11. OthersUnused'
    BY <1>1, <1>3, AfterPeriodOK, Zenon DEF IInv, OthersUnused
  <1>12. CursorAtTriggered'
    BY <1>3, <1>6, SMT DEF CursorAtTriggered
  <1> QED  BY <1>7, <1>8, <1>9, <1>10, <1>11, <1>12 DEF IInv

\* A handler returns.
LEMMA CallbackReturnsKeepsIInv == ASSUME IInv, CallbackReturns PROVE IInv'
  <1>1. UNCHANGED <<timer, num_timers, ticks_in_period, ticks_left>>
    BY DEF CallbackReturns
  <1>2. num_timers \in 1 .. MaxTimers /\ counter \in Nat /\ cursor \in Timer
    BY DEF IInv, TypeOK, CallbackReturns
  <1>3. /\ cursor' = Idle \/ cursor' \in cursor + 1 .. num_timers - 1
        /\ cursor' # Idle => timer'[cursor'].triggered
    <2>1. ScanFrom(cursor + 1) /\ cursor + 1 \in Nat /\ num_timers \in Nat
      BY <1>2, ConstantsAssumption, SMT DEF CallbackReturns, Timer
    <2> QED  BY <2>1, ScanFromOK
  <1>4. TypeOK'
    <2>1. cursor' \in Timer \cup {Idle}
      BY <1>2, <1>3, ConstantsAssumption, SMT DEF Timer
    <2>2. counter' \in Nat
      BY <1>2, SMT DEF CallbackReturns
    <2> QED  BY <1>1, <2>1, <2>2, Zenon DEF IInv, TypeOK
  <1>5. NoDeadlineInsidePeriod' /\ ClockRuns' /\ ArmedHavePeriod' /\ OthersUnused'
    BY <1>1, Zenon DEF IInv, NoDeadlineInsidePeriod, ClockRuns, ArmedHavePeriod, OthersUnused
  <1>6. CursorAtTriggered'
    BY <1>1, <1>2, <1>3, ConstantsAssumption, SMT DEF CursorAtTriggered, Timer
  <1> QED  BY <1>4, <1>5, <1>6 DEF IInv

\* A reset in the middle of the handlers.
LEMMA HostResetKeepsIInv == ASSUME IInv, HostReset PROVE IInv'
  <1>1. UNCHANGED <<timer, num_timers, ticks_in_period, ticks_left, counter>> /\ cursor' = Idle
    BY DEF HostReset
  <1>2. TypeOK'
    BY <1>1, Zenon DEF IInv, TypeOK
  <1>3. NoDeadlineInsidePeriod' /\ ClockRuns' /\ ArmedHavePeriod' /\ OthersUnused'
    BY <1>1, Zenon DEF IInv, NoDeadlineInsidePeriod, ClockRuns, ArmedHavePeriod, OthersUnused
  <1>4. CursorAtTriggered'
    BY <1>1, Zenon DEF CursorAtTriggered
  <1> QED  BY <1>2, <1>3, <1>4 DEF IInv

\* A tick inside a period.
LEMMA TickKeepsIInv == ASSUME IInv, Tick PROVE IInv'
  <1>1. TypeOK'
    BY SMT DEF IInv, TypeOK, Tick
  <1>2. NoDeadlineInsidePeriod'
    BY SMT DEF IInv, TypeOK, NoDeadlineInsidePeriod, Tick
  <1>3. ClockRuns' /\ ArmedHavePeriod' /\ OthersUnused' /\ CursorAtTriggered'
    BY Zenon DEF Tick, IInv, ClockRuns, ArmedHavePeriod, OthersUnused, CursorAtTriggered
  <1> QED  BY <1>1, <1>2, <1>3 DEF IInv

\* Every step.
LEMMA NextKeepsIInv == IInv /\ [Next]_vars => IInv'
  <1> SUFFICES ASSUME IInv, [Next]_vars PROVE IInv'
    OBVIOUS
  <1>1. CASE Tick
    BY <1>1, TickKeepsIInv
  <1>2. CASE TimerHandler
    BY <1>2, TimerHandlerKeepsIInv
  <1>3. CASE CallbackReturns
    BY <1>3, CallbackReturnsKeepsIInv
  <1>0. CASE HostReset
    BY <1>0, HostResetKeepsIInv
  <1>4. CASE \E d \in Delays \cup {0}, continuous, active \in BOOLEAN :
               RegisterTimer(d, continuous, active)
    BY <1>4, RegisterKeepsIInv, Zenon
  <1>5. CASE \E t \in 1 .. num_timers - 1, d \in Delays, continuous \in BOOLEAN :
               ActivateTimer(t, d, continuous)
    <2>1. Delays \subseteq Nat \ {0}
      BY ConstantsAssumption
    <2> QED  BY <1>5, <2>1, ActivateKeepsIInv, Zenon
  <1>6. CASE \E t \in 1 .. num_timers - 1, continuous \in BOOLEAN :
               ReactivateTimer(t, continuous)
    <2>1. PICK t \in 1 .. num_timers - 1, continuous \in BOOLEAN :
            timer[t].period > 0 /\ ActivateTimer(t, timer[t].period, continuous)
      BY <1>6, Zenon DEF ReactivateTimer
    <2>2. t \in Timer
      BY ConstantsAssumption, SMT DEF IInv, TypeOK, Timer
    <2>3. timer[t].period \in Nat
      BY <2>2, Zenon DEF IInv, TypeOK, TimerType
    <2>4. timer[t].period \in Nat \ {0}
      BY <2>1, <2>3, SMT
    <2> QED  BY <2>1, <2>4, ActivateKeepsIInv, Zenon
  <1>7. CASE \E t \in 1 .. num_timers - 1 : DeactivateTimer(t)
    BY <1>7, DeactivateKeepsIInv, Zenon
  <1>8. CASE UNCHANGED vars
    BY <1>8, Zenon DEF vars, IInv, TypeOK, NoDeadlineInsidePeriod, ClockRuns,
       ArmedHavePeriod, OthersUnused, CursorAtTriggered
  <1> QED  BY <1>0, <1>1, <1>2, <1>3, <1>4, <1>5, <1>6, <1>7, <1>8 DEF Next

\* The strengthened invariant: every reachable state of the timer service
\* satisfies it.
THEOREM Invariance == Spec => []IInv
  BY InitIInv, NextKeepsIInv, PTL DEF Spec

\* The variables of bx_pc_system_c keep their types; "remaining" in
\* particular is never decremented below zero, where it would wrap around.
THEOREM TypeCorrect == Spec => []TypeOK
  BY Invariance, PTL DEF IInv

\* The countdown of the CPU loop never runs past the deadline of an armed
\* timer, whatever timers devices arm, re-arm and disarm and whenever.
THEOREM CountdownNeverOverruns == Spec => []NoDeadlineInsidePeriod
  BY Invariance, PTL DEF IInv

-----------------------------------------------------------------------------
(***************************************************************************)
(* The refinement.  The first lemma says what the state of the service     *)
(* looks like as an alarm clock; primed, it also holds after a step.       *)
(***************************************************************************)
\* The instant at which the running interval of the counter timer ends, if
\* "counter" counts those that have ended.
EndOfInterval == (counter + 1) * CounterInterval

NumbersOK ==
  /\ Elapsed \in Nat
  /\ Instant \in Nat
  /\ EndOfInterval \in Nat
  /\ timer[CounterTimer].remaining \in Nat
  /\ TimeTicks = EndOfInterval - timer[CounterTimer].remaining + Elapsed
  /\ \A t \in Timer : timer[t].active => /\ Due(t) \in Nat
                                        /\ Due(t) >= Instant + ticks_left
                                        /\ Due(t) > Instant
  /\ \A t \in Timer : Every(t) \in Nat

AlarmView ==
  /\ Alarms = [t \in Timer |-> Alarms[t]]
  /\ \A t \in Timer :
       /\ Alarms[t] \in Clock!AlarmType
       /\ Alarms[t].set <=> timer[t].active
       /\ timer[t].active => /\ Alarms[t].due = Due(t)
                             /\ Alarms[t].every = Every(t)
                             /\ Alarms[t].due > Instant
       /\ ~timer[t].active => Alarms[t] = Clock!Off

\* The numbers of a period, as arithmetic needs them.
LEMMA NumbersLemma == IInv => NumbersOK
  <1> SUFFICES ASSUME IInv PROVE NumbersOK
    OBVIOUS
  <1>1. /\ ticks_left \in Nat /\ ticks_in_period \in Nat
        /\ 0 < ticks_left /\ ticks_left <= ticks_in_period
    BY DEF IInv, TypeOK, NoDeadlineInsidePeriod
  <1>2. Elapsed \in Nat
    BY <1>1, SMT DEF Elapsed
  <1>3. \A t \in Timer : timer[t].remaining \in Nat /\ timer[t].period \in Nat
    BY Zenon DEF IInv, TypeOK, TimerType
  <1>4. /\ TimeTicks \in Nat
        /\ EndOfInterval \in Nat
        /\ timer[CounterTimer].remaining \in Nat
        /\ TimeTicks = EndOfInterval - timer[CounterTimer].remaining + Elapsed
    <2>1. EndOfInterval \in Nat /\ EndOfInterval >= CounterInterval
      BY ConstantsAssumption, SMT DEF IInv, TypeOK, EndOfInterval
    <2>2. timer[CounterTimer].remaining \in Nat /\ timer[CounterTimer].remaining <= CounterInterval
      BY <1>3, CounterTimerIsATimer DEF IInv, ClockRuns
    <2>3. TimeTicks = EndOfInterval - timer[CounterTimer].remaining + Elapsed
      BY DEF TimeTicks, EndOfInterval
    <2> QED  BY <1>2, <2>1, <2>2, <2>3, ConstantsAssumption, SMT
  <1>5. Instant \in Nat
    BY <1>4, ConstantsAssumption, SMT DEF Instant
  <1>6. ASSUME NEW t \in Timer, timer[t].active
        PROVE  Due(t) \in Nat /\ Due(t) >= Instant + ticks_left /\ Due(t) > Instant
    <2>1. timer[t].remaining >= ticks_in_period
      BY <1>6 DEF IInv, NoDeadlineInsidePeriod
    <2> QED  BY <1>1, <1>3, <1>5, <2>1, SMT DEF Due, Elapsed
  <1>7. \A t \in Timer : Every(t) \in Nat
    BY <1>3, Zenon, SMT DEF Every
  <1> QED  BY <1>2, <1>4, <1>5, <1>6, <1>7 DEF NumbersOK

\* A timer as an alarm of the abstract clock.
LEMMA AlarmViewLemma == IInv => AlarmView
  <1> SUFFICES ASSUME IInv, NEW t \in Timer
               PROVE  /\ Alarms[t] \in Clock!AlarmType
                      /\ Alarms[t].set <=> timer[t].active
                      /\ timer[t].active => /\ Alarms[t].due = Due(t)
                                            /\ Alarms[t].every = Every(t)
                                            /\ Alarms[t].due > Instant
                      /\ ~timer[t].active => Alarms[t] = Clock!Off
    <2>1. Alarms = [t \in Timer |-> Alarms[t]]
      BY Zenon DEF Alarms
    <2> QED  BY <2>1, Zenon DEF AlarmView
  <1>1. CASE timer[t].active
    <2>1. Alarms[t] = [set |-> TRUE, due |-> Due(t), every |-> Every(t)]
      BY <1>1, Zenon DEF Alarms
    <2>2. Due(t) \in Nat /\ Every(t) \in Nat /\ Due(t) > Instant
      BY <1>1, NumbersLemma, Zenon DEF NumbersOK
    <2>3. Alarms[t] \in Clock!AlarmType
      BY <2>1, <2>2, SMT DEF Clock!AlarmType
    <2>4. Alarms[t].set /\ Alarms[t].due = Due(t) /\ Alarms[t].every = Every(t)
      BY <2>1, SMT
    <2> QED  BY <1>1, <2>2, <2>3, <2>4, Zenon
  <1>2. CASE ~timer[t].active
    <2>1. Alarms[t] = [set |-> FALSE, due |-> 0, every |-> 0]
      BY <1>2, Zenon DEF Alarms
    <2>2. 0 \in Nat
      BY SMT
    <2>3. Alarms[t] \in Clock!AlarmType
      BY <2>1, <2>2, SMT DEF Clock!AlarmType
    <2>4. ~Alarms[t].set
      BY <2>1, SMT
    <2>5. Alarms[t] = Clock!Off
      BY <2>1, Zenon DEF Clock!Off
    <2> QED  BY <1>2, <2>3, <2>4, <2>5, Zenon
  <1> QED  BY <1>1, <1>2

\* Before and after every step.
LEMMA ViewBeforeAndAfter ==
  IInv /\ IInv' => NumbersOK /\ NumbersOK' /\ AlarmView /\ AlarmView'
  BY NumbersLemma, AlarmViewLemma, PTL

\* Two descriptions of the same alarm are the same alarm.
LEMMA SameAlarm ==
  ASSUME NEW a \in Clock!AlarmType, NEW b \in Clock!AlarmType,
         a.set <=> b.set, a.due = b.due, a.every = b.every
  PROVE  a = b
  BY SMT DEF Clock!AlarmType

\* A repeating alarm that rang is set for one period later.
LEMMA RungAgain ==
  ASSUME NEW a \in Clock!AlarmType, NEW b \in Clock!AlarmType,
         a.set, b.set, a.every > 0, b.due = a.due + a.every, b.every = a.every
  PROVE  b = Clock!Rung(a)
  <1>1. Clock!Rung(a) = [a EXCEPT !.due = a.due + a.every]
    BY Zenon DEF Clock!Rung
  <1>2. a.due + a.every \in Nat
    BY SMT DEF Clock!AlarmType
  <1>3. [a EXCEPT !.due = a.due + a.every] \in Clock!AlarmType
    BY <1>2, Zenon DEF Clock!AlarmType
  <1>4. /\ [a EXCEPT !.due = a.due + a.every].due = a.due + a.every
        /\ [a EXCEPT !.due = a.due + a.every].every = a.every
    BY Zenon DEF Clock!AlarmType
  <1>5. [a EXCEPT !.due = a.due + a.every].set <=> a.set
    BY SMT DEF Clock!AlarmType
  <1> QED  BY <1>1, <1>3, <1>4, <1>5, SameAlarm

\* Between callbacks nothing is being served.
LEMMA IdleServesNothing == cursor = Idle => BeingServed = {}
  BY DEF BeingServed

\* The initial states are those of the abstract clock.
LEMMA InitRefines == Init => Clock!Init
  <1> SUFFICES ASSUME Init PROVE Clock!Init
    OBVIOUS
  <1>1. IInv
    BY InitIInv
  <1>2. NumbersOK /\ AlarmView
    BY <1>1, NumbersLemma, AlarmViewLemma
  <1>3. BeingServed = {}
    BY IdleServesNothing DEF Init
  <1>4. Alarms \in [Timer -> Clock!AlarmType]
    BY <1>2, Zenon DEF AlarmView
  <1>5. \A a \in Timer : Alarms[a].set => Alarms[a].due > Instant
    BY <1>2, Zenon DEF AlarmView
  <1> QED  BY <1>2, <1>3, <1>4, <1>5, Zenon DEF Clock!Init, NumbersOK

\* A tick advances the abstract clock.
LEMMA TickRefines == ASSUME IInv, IInv', Tick PROVE Clock!Advance
  <1>1. NumbersOK /\ NumbersOK' /\ AlarmView
    BY ViewBeforeAndAfter
  <1>2. /\ cursor = Idle /\ cursor' = Idle /\ timer' = timer
        /\ ticks_left > 1 /\ ticks_left \in Nat /\ ticks_in_period \in Nat
        /\ Elapsed' = Elapsed + 1
    BY SMT DEF Tick, Elapsed, IInv, TypeOK
  <1>3. EndOfInterval' = EndOfInterval
    BY DEF Tick, EndOfInterval
  <1>4. Instant' = Instant + 1
    BY <1>1, <1>2, <1>3, SMT DEF NumbersOK, Instant, Idle, CounterTimer
  <1>5. ASSUME NEW t \in Timer, timer[t].active
        PROVE  Due(t)' = Due(t) /\ Due(t) # Instant + 1
    <2>1. timer[t].remaining \in Nat
      BY Zenon DEF IInv, TypeOK, TimerType
    <2>2. Due(t)' = Due(t)
      BY <1>1, <1>2, <1>4, <2>1, SMT DEF Due, NumbersOK
    <2>3. Due(t) >= Instant + ticks_left /\ Due(t) \in Nat /\ Instant \in Nat
      BY <1>1, <1>5 DEF NumbersOK
    <2> QED  BY <1>2, <2>2, <2>3, SMT
  <1>6. Alarms' = Alarms
    BY <1>2, <1>5, Zenon DEF Alarms, Every
  <1>7. Clock!DueAt(Instant + 1) = {}
    BY <1>1, <1>5, Zenon DEF Clock!DueAt, AlarmView
  <1>8. BeingServed = {} /\ BeingServed' = {}
    BY <1>2, Zenon DEF BeingServed
  <1> QED  BY <1>1, <1>4, <1>6, <1>7, <1>8, Zenon DEF Clock!Advance, AlarmView

\* The last tick of a period rings exactly the timers whose deadline it is.
LEMMA TimerHandlerRefines == ASSUME IInv, IInv', TimerHandler PROVE Clock!Advance
  <1> DEFINE Hit(t) == timer[t].active /\ timer[t].remaining = ticks_in_period
  <1>1. NumbersOK /\ NumbersOK' /\ AlarmView /\ AlarmView'
    BY ViewBeforeAndAfter
  <1>2. /\ cursor = Idle /\ ticks_left = 1 /\ ticks_in_period \in Nat
        /\ ticks_in_period' = ticks_left' /\ ticks_left' \in Nat
        /\ counter' = counter /\ num_timers' = num_timers /\ num_timers \in 1 .. MaxTimers
        /\ Elapsed = ticks_in_period - 1 /\ Elapsed' = 0
    <2>1. ticks_left' \in Nat /\ ticks_in_period \in Nat /\ num_timers \in 1 .. MaxTimers
      BY DEF IInv, TypeOK
    <2>2. cursor = Idle /\ ticks_left = 1 /\ ticks_in_period' = ticks_left'
      BY DEF TimerHandler
    <2>3. counter' = counter /\ num_timers' = num_timers
      BY DEF TimerHandler
    <2>4. Elapsed = ticks_in_period - 1 /\ Elapsed' = 0
      <3>1. Elapsed = ticks_in_period - 1
        BY <2>2 DEF Elapsed
      <3>2. Elapsed' = ticks_left' - ticks_left'
        BY <2>2 DEF Elapsed
      <3>3. \A n \in Nat : n - n = 0
        BY SMT
      <3> QED  BY <2>1, <3>1, <3>2, <3>3, Zenon
    <2> QED  BY <2>1, <2>2, <2>3, <2>4
  <1>3. ASSUME NEW t \in Timer
        PROVE  /\ timer'[t].triggered <=> Hit(t)
               /\ timer'[t].active <=> timer[t].active /\ (Hit(t) => timer[t].continuous)
               /\ timer'[t].remaining = IF Hit(t) THEN timer[t].period
                                        ELSE IF timer[t].active
                                        THEN timer[t].remaining - ticks_in_period
                                        ELSE timer[t].remaining
               /\ timer'[t].continuous = timer[t].continuous
               /\ timer'[t].period = timer[t].period
               /\ timer[t].period \in Nat /\ timer[t].remaining \in Nat
               /\ timer[t].active => timer[t].period > 0
    <2>1. timer[t] \in TimerType
      BY DEF IInv, TypeOK
    <2> DEFINE left == IF Hit(t) THEN timer[t].period
                       ELSE IF timer[t].active
                       THEN timer[t].remaining - ticks_in_period
                       ELSE timer[t].remaining
               armed == timer[t].active /\ (Hit(t) => timer[t].continuous)
    <2>2. timer'[t] = AfterPeriod(t)
      BY Zenon DEF TimerHandler
    <2>3. AfterPeriod(t) =
            [timer[t] EXCEPT !.triggered = Hit(t), !.remaining = left, !.active = armed]
      BY Zenon DEF AfterPeriod
    <2>4. timer[t].period \in Nat /\ timer[t].remaining \in Nat
      BY <2>1, Zenon DEF TimerType
    <2>5. timer[t].active => timer[t].period > 0
      BY DEF IInv, ArmedHavePeriod
    <2>6. /\ timer'[t].triggered = Hit(t) /\ timer'[t].remaining = left
          /\ timer'[t].active = armed
          /\ timer'[t].continuous = timer[t].continuous
          /\ timer'[t].period = timer[t].period
      <3> HIDE DEF Hit, left, armed
      <3> QED  BY <2>1, <2>2, <2>3, Zenon DEF TimerType
    <2> HIDE DEF Hit
    <2> QED  BY <2>4, <2>5, <2>6, Zenon
  <1>4. ScanFrom(0) /\ num_timers \in Nat /\ 0 \in Nat
    BY <1>2, SMT DEF TimerHandler
  <1>5. /\ cursor' = Idle \/ cursor' \in 0 .. num_timers - 1
        /\ \A u \in 0 .. num_timers - 1 :
             timer'[u].triggered => cursor' # Idle /\ cursor' <= u
    BY <1>4, ScanFromOK
  <1>6. Instant' = Instant + 1
    <2>1. EndOfInterval' = EndOfInterval
      BY <1>2 DEF EndOfInterval
    <2>2. Instant = EndOfInterval - timer[CounterTimer].remaining + Elapsed
      BY <1>1, <1>2, SMT DEF NumbersOK, Instant, Idle, CounterTimer
    <2>3. /\ timer[CounterTimer].active /\ timer[CounterTimer].period = CounterInterval
      BY DEF IInv, ClockRuns
    <2>4. CASE Hit(CounterTimer)
      <3>1. timer'[CounterTimer].remaining = CounterInterval /\ timer'[CounterTimer].triggered
        BY <1>3, <2>3, <2>4, CounterTimerIsATimer
      <3>2. cursor' = CounterTimer
        BY <1>2, <1>5, <3>1, SMT DEF CounterTimer, Idle
      <3> QED  BY <1>1, <1>2, <2>1, <2>2, <2>4, <3>1, <3>2, ConstantsAssumption, SMT
               DEF NumbersOK, Instant
    <2>5. CASE ~Hit(CounterTimer)
      <3>1. /\ timer'[CounterTimer].remaining = timer[CounterTimer].remaining - ticks_in_period
            /\ ~timer'[CounterTimer].triggered
        BY <1>3, <2>3, <2>5, CounterTimerIsATimer
      <3>2. cursor' # CounterTimer
        BY <3>1, CounterTimerIsATimer DEF IInv, CursorAtTriggered, Idle, CounterTimer
      <3> QED  BY <1>1, <1>2, <2>1, <2>2, <3>1, <3>2, ConstantsAssumption, SMT
               DEF NumbersOK, Instant
    <2> QED  BY <2>4, <2>5
  <1>7. ASSUME NEW t \in Timer
        PROVE  t \in Clock!DueAt(Instant + 1) <=> Hit(t)
    <2>1. t \in Clock!DueAt(Instant + 1) <=> timer[t].active /\ Due(t) = Instant + 1
      BY <1>1, Zenon DEF AlarmView, Clock!DueAt
    <2>2. Due(t) = Instant + timer[t].remaining - (ticks_in_period - 1)
      BY <1>2 DEF Due
    <2> QED  BY <1>1, <1>2, <1>3, <2>1, <2>2, SMT DEF NumbersOK
  <1>8. ASSUME NEW t \in Timer
        PROVE  Alarms'[t] = IF t \in Clock!DueAt(Instant + 1) THEN Clock!Rung(Alarms[t])
                                                              ELSE Alarms[t]
    <2>1. /\ t \in Clock!DueAt(Instant + 1) <=> Hit(t)
          /\ Hit(t) => timer[t].active
      BY <1>7
    <2>2. /\ Alarms[t] \in Clock!AlarmType /\ Alarms'[t] \in Clock!AlarmType
          /\ Alarms[t].set <=> timer[t].active
          /\ Alarms'[t].set <=> timer'[t].active
          /\ ~timer[t].active => Alarms[t] = Clock!Off
          /\ ~timer'[t].active => Alarms'[t] = Clock!Off
          /\ timer[t].active => Alarms[t].due = Due(t) /\ Alarms[t].every = Every(t)
      BY <1>1, Zenon DEF AlarmView
    <2>3. /\ timer'[t].active => Alarms'[t].due = Due(t)' /\ Alarms'[t].every = Every(t)'
          /\ Every(t)' = Every(t)
      BY <1>1, <1>3, Zenon DEF AlarmView, Every
    <2>4. Due(t)' = Instant + 1 + timer'[t].remaining
      BY <1>1, <1>2, <1>3, <1>6, SMT DEF Due, NumbersOK
    <2>5. Due(t) = Instant + timer[t].remaining - (ticks_in_period - 1)
      BY <1>2 DEF Due
    <2>6. CASE Hit(t) /\ timer[t].continuous
      <3>1. /\ timer'[t].active /\ timer'[t].remaining = timer[t].period
            /\ Every(t) = timer[t].period /\ timer[t].period > 0
        BY <1>3, <2>1, <2>6 DEF Every
      <3>2. Due(t)' = Due(t) + timer[t].period
        BY <1>1, <1>2, <1>3, <2>4, <2>5, <2>6, <3>1, SMT DEF NumbersOK
      <3>3. /\ Alarms[t].set /\ Alarms'[t].set /\ Alarms[t].every > 0
            /\ Alarms'[t].due = Alarms[t].due + Alarms[t].every
            /\ Alarms'[t].every = Alarms[t].every
        BY <2>1, <2>2, <2>3, <2>6, <3>1, <3>2
      <3>4. Alarms'[t] = Clock!Rung(Alarms[t])
        BY <2>2, <3>3, RungAgain
      <3> QED  BY <2>1, <2>6, <3>4
    <2>7. CASE Hit(t) /\ ~timer[t].continuous
      <3>1. ~timer'[t].active /\ Every(t) = 0
        BY <1>3, <2>7 DEF Every
      <3>2. Clock!Rung(Alarms[t]) = Clock!Off
        BY <2>1, <2>2, <2>7, <3>1, SMT DEF Clock!Rung
      <3> QED  BY <2>1, <2>2, <2>7, <3>1, <3>2
    <2>8. CASE ~Hit(t) /\ timer[t].active
      <3>1. /\ timer'[t].active
            /\ timer'[t].remaining = timer[t].remaining - ticks_in_period
            /\ timer[t].remaining \in Nat
        BY <1>3, <2>8
      <3>2. Due(t)' = Due(t)
        BY <1>1, <1>2, <2>4, <2>5, <3>1, SMT DEF NumbersOK
      <3>3. Alarms'[t] = Alarms[t]
        BY <2>2, <2>3, <2>8, <3>1, <3>2, SameAlarm
      <3> QED  BY <2>1, <2>8, <3>3
    <2>9. CASE ~timer[t].active
      BY <1>3, <2>1, <2>2, <2>9
    <2> QED  BY <2>6, <2>7, <2>8, <2>9
  <1>9. BeingServed' = Clock!DueAt(Instant + 1)
    <2>1. ASSUME NEW u \in Timer PROVE timer'[u].triggered => u \in 0 .. num_timers - 1
      <3>1. u >= num_timers => ~timer'[u].triggered
        BY <1>2 DEF IInv, OthersUnused
      <3> QED  BY <1>2, <3>1, SMT DEF Timer
    <2>2. 0 .. num_timers - 1 \subseteq Timer
      BY <1>2, ConstantsAssumption, SMT DEF Timer
    <2>3. \A u \in Clock!DueAt(Instant + 1) : u \in Timer
      BY Zenon DEF Clock!DueAt
    <2>4. CASE cursor' = Idle
      <3>1. BeingServed' = {}
        BY <2>4, Zenon DEF BeingServed
      <3>2. \A u \in Timer : ~timer'[u].triggered
        BY <1>5, <2>1, <2>4, Zenon
      <3> QED  BY <1>3, <1>7, <2>3, <3>1, <3>2, Zenon
    <2>5. CASE cursor' # Idle
      <3>1. BeingServed' = {u \in cursor' .. num_timers - 1 : timer'[u].triggered}
        BY <1>2, <2>5, Zenon DEF BeingServed
      <3>2. cursor' \in 0 .. num_timers - 1
        BY <1>5, <2>5, Zenon
      <3>3. \A u \in Timer : timer'[u].triggered => u \in cursor' .. num_timers - 1
        BY <1>2, <1>5, <2>1, <3>2, SMT
      <3>4. cursor' .. num_timers - 1 \subseteq Timer
        BY <1>2, <2>2, <3>2, SMT
      <3> QED  BY <1>3, <1>7, <2>3, <3>1, <3>3, <3>4, Zenon
    <2> QED  BY <2>4, <2>5
  <1>10. BeingServed = {}
    BY <1>2, Zenon DEF BeingServed
  <1>11. Alarms' = [t \in Timer |-> IF t \in Clock!DueAt(Instant + 1)
                                    THEN Clock!Rung(Alarms[t]) ELSE Alarms[t]]
    BY <1>1, <1>8, Zenon DEF AlarmView
  <1> QED  BY <1>6, <1>9, <1>10, <1>11, Zenon DEF Clock!Advance

\* A callback that returns has been served; the counter timer's has also moved
\* "counter", which is when time_ticks() catches up.
LEMMA CallbackReturnsRefines ==
  ASSUME IInv, IInv', CallbackReturns
  PROVE  Clock!Serve(cursor) /\ cursor \in Timer
  <1>1. NumbersOK /\ NumbersOK'
    BY ViewBeforeAndAfter
  <1>2. /\ UNCHANGED <<timer, num_timers, ticks_in_period, ticks_left>>
        /\ cursor # Idle
        /\ counter' = IF cursor = CounterTimer THEN counter + 1 ELSE counter
    BY DEF CallbackReturns
  <1>3. /\ cursor \in Timer /\ num_timers \in 1 .. MaxTimers /\ counter \in Nat
        /\ cursor < num_timers /\ timer[cursor].triggered
    BY <1>2 DEF IInv, TypeOK, CursorAtTriggered
  <1>4. cursor \in Nat /\ num_timers \in Nat /\ Idle \notin Nat
    BY <1>3, ConstantsAssumption, SMT DEF Timer, Idle
  <1>5. /\ cursor' = Idle \/ cursor' \in cursor + 1 .. num_timers - 1
        /\ \A u \in cursor + 1 .. num_timers - 1 :
             timer'[u].triggered => cursor' # Idle /\ cursor' <= u
    <2>1. ScanFrom(cursor + 1) /\ cursor + 1 \in Nat /\ num_timers \in Nat
      BY <1>4, SMT DEF CallbackReturns
    <2> QED  BY <2>1, ScanFromOK
  <1>6. cursor' # CounterTimer
    BY <1>4, <1>5, SMT DEF CounterTimer, Idle
  <1>7. Instant' = Instant
    <2>1. timer'[CounterTimer].remaining = timer[CounterTimer].remaining /\ Elapsed' = Elapsed
      BY <1>2 DEF Elapsed
    <2>2. EndOfInterval' = IF cursor = CounterTimer THEN EndOfInterval + CounterInterval
                                                    ELSE EndOfInterval
      BY <1>2, <1>3, ConstantsAssumption, SMT DEF EndOfInterval
    <2> QED  BY <1>1, <1>6, <2>1, <2>2, ConstantsAssumption, SMT DEF NumbersOK, Instant
  <1>8. Alarms' = Alarms
    <2>1. \A t \in Timer : Due(t)' = Due(t) /\ Every(t)' = Every(t)
      BY <1>2, <1>7, Zenon DEF Due, Every, Elapsed
    <2> QED  BY <1>2, <2>1, Zenon DEF Alarms
  <1>9. BeingServed = {u \in cursor .. num_timers - 1 : timer[u].triggered}
    BY <1>2, Zenon DEF BeingServed
  <1>10. cursor \in BeingServed
    BY <1>3, <1>4, <1>9, SMT
  <1>11. BeingServed' = BeingServed \ {cursor}
    <2>1. CASE cursor' = Idle
      <3>1. BeingServed' = {}
        BY <2>1, Zenon DEF BeingServed
      <3>2. \A u \in cursor .. num_timers - 1 : timer[u].triggered => u = cursor
        BY <1>2, <1>4, <1>5, <2>1, SMT
      <3> QED  BY <1>9, <3>1, <3>2, Zenon
    <2>2. CASE cursor' # Idle
      <3>1. BeingServed' = {u \in cursor' .. num_timers - 1 : timer[u].triggered}
        BY <1>2, <2>2, Zenon DEF BeingServed
      <3>2. cursor' \in cursor + 1 .. num_timers - 1
        BY <1>5, <2>2
      <3>3. \A u \in cursor .. num_timers - 1 :
              timer[u].triggered /\ u # cursor => u \in cursor' .. num_timers - 1
        BY <1>2, <1>4, <1>5, <3>2, SMT
      <3>4. \A u \in cursor' .. num_timers - 1 : u \in cursor .. num_timers - 1 /\ u # cursor
        BY <1>4, <3>2, SMT
      <3> QED  BY <1>9, <3>1, <3>3, <3>4, Zenon
    <2> QED  BY <2>1, <2>2
  <1> QED  BY <1>3, <1>7, <1>8, <1>10, <1>11 DEF Clock!Serve

\* A reset by the host drops what is left of the round and moves nothing else.
LEMMA HostResetRefines == ASSUME IInv, HostReset PROVE Clock!Reset
  <1>1. /\ UNCHANGED <<timer, num_timers, ticks_in_period, ticks_left, counter>>
        /\ cursor = PollTimer
        /\ cursor' = Idle
    BY DEF HostReset
  <1>2. PollTimer \in Nat /\ PollTimer # CounterTimer /\ PollTimer # Idle /\ CounterTimer # Idle
    BY ConstantsAssumption, SMT DEF CounterTimer, Idle
  <1>3. PollTimer < num_timers /\ timer[PollTimer].triggered /\ num_timers \in Nat
    BY <1>1, <1>2, ConstantsAssumption, SMT DEF IInv, TypeOK, CursorAtTriggered
  <1>4. PollTimer \in BeingServed
    <2>1. BeingServed = {t \in PollTimer .. num_timers - 1 : timer[t].triggered}
      BY <1>1, <1>2, Zenon DEF BeingServed
    <2>2. PollTimer \in PollTimer .. num_timers - 1
      BY <1>2, <1>3, SMT
    <2> QED  BY <1>3, <2>1, <2>2, Zenon
  <1>5. BeingServed' = {}
    BY <1>1, Zenon DEF BeingServed
  <1>6. Instant' = Instant
    BY <1>1, <1>2, Zenon DEF Instant, TimeTicks, Elapsed
  <1>7. Alarms' = Alarms
    BY <1>1, <1>6, Zenon DEF Alarms, Due, Every, Elapsed
  <1> QED  BY <1>4, <1>5, <1>6, <1>7 DEF Clock!Reset

\* Arming a timer moves neither the clock nor any other alarm, although it
\* takes the elapsed ticks off every timer and starts a new period.
LEMMA ArmRefines ==
  ASSUME IInv, IInv',
         NEW t \in Timer, t # CounterTimer,
         NEW r \in TimerType, r.triggered = timer[t].triggered,
         timer' = [Expired EXCEPT ![t] = r],
         ticks_in_period' = ticks_left',
         UNCHANGED <<counter, cursor>>,
         cursor # Idle => num_timers' = num_timers
  PROVE  /\ Instant' = Instant
         /\ Alarms' = [Alarms EXCEPT ![t] = Alarms'[t]]
         /\ BeingServed' = BeingServed
  <1>1. NumbersOK /\ NumbersOK' /\ AlarmView /\ AlarmView'
    BY ViewBeforeAndAfter
  <1>2. /\ timer'[t] = r
        /\ \A u \in Timer : u # t => timer'[u] = Expired[u]
        /\ \A u \in Timer : timer'[u].triggered = timer[u].triggered
    <2>1. /\ timer'[t] = r
          /\ \A u \in Timer : u # t => timer'[u] = Expired[u]
      BY ExpiredOK, Zenon
    <2> QED  BY <2>1, ExpiredOK
  <1>3. /\ Elapsed' = 0
        /\ ticks_left' \in Nat
    <2>1. Elapsed' = ticks_left' - ticks_left' /\ ticks_left' \in Nat
      BY DEF Elapsed, IInv, TypeOK
    <2>2. \A n \in Nat : n - n = 0
      BY SMT
    <2> QED  BY <2>1, <2>2, Zenon
  <1>4. Instant' = Instant
    <2>1. EndOfInterval' = EndOfInterval
      BY DEF EndOfInterval
    <2>2. timer'[CounterTimer].remaining = timer[CounterTimer].remaining - Elapsed
      BY <1>2, ExpiredOK, CounterTimerIsATimer DEF IInv, ClockRuns
    <2> QED  BY <1>1, <1>3, <2>1, <2>2, ConstantsAssumption, SMT DEF NumbersOK, Instant
  <1>5. ASSUME NEW u \in Timer, u # t PROVE Alarms'[u] = Alarms[u]
    <2>1. /\ timer'[u].active = timer[u].active
          /\ Every(u)' = Every(u)
          /\ timer[u].active => timer'[u].remaining = timer[u].remaining - Elapsed
      BY <1>2, <1>5, ExpiredOK DEF Every
    <2>2. timer[u].active => Due(u)' = Due(u)
      <3>1. timer[u].remaining \in Nat
        BY Zenon DEF IInv, TypeOK, TimerType
      <3> QED  BY <1>1, <1>3, <1>4, <2>1, <3>1, SMT DEF NumbersOK, Due
    <2> QED  BY <2>1, <2>2, Zenon DEF Alarms
  <1>6. Alarms' = [Alarms EXCEPT ![t] = Alarms'[t]]
    BY <1>1, <1>5, Zenon DEF AlarmView
  <1>7. BeingServed' = BeingServed
    <2>1. num_timers \in 1 .. MaxTimers
      BY DEF IInv, TypeOK
    <2>2. cursor # Idle => cursor .. num_timers - 1 \subseteq Timer
      BY <2>1, ConstantsAssumption, SMT DEF IInv, TypeOK, Timer
    <2> QED  BY <1>2, <2>2, Zenon DEF BeingServed
  <1> QED  BY <1>4, <1>6, <1>7

\* To register a timer sets an alarm, or changes nothing the clock sees.
LEMMA RegisterRefines ==
  ASSUME IInv, IInv',
         NEW d \in Delays \cup {0}, NEW continuous \in BOOLEAN, NEW active \in BOOLEAN,
         RegisterTimer(d, continuous, active)
  PROVE  [Clock!Next]_Clock!vars
  <1> DEFINE r == [period |-> d, remaining |-> d, active |-> active,
                   continuous |-> continuous, triggered |-> timer[num_timers].triggered]
  <1>1. num_timers \in Timer /\ num_timers # CounterTimer
    BY ConstantsAssumption, SMT DEF IInv, TypeOK, RegisterTimer, Timer, CounterTimer
  <1>2. r \in TimerType /\ r.triggered = timer[num_timers].triggered
    <2>1. timer[num_timers].triggered \in BOOLEAN
      BY <1>1, Zenon DEF IInv, TypeOK, TimerType
    <2>2. d \in Nat
      BY ConstantsAssumption, SMT
    <2> QED  BY <2>1, <2>2, Zenon DEF TimerType
  <1>3. timer' = [Expired EXCEPT ![num_timers] = r]
    BY <1>1, ExpiredOK, Zenon DEF RegisterTimer
  <1>4. ticks_in_period' = ticks_left' /\ UNCHANGED <<counter, cursor>> /\ cursor = Idle
    BY Zenon DEF RegisterTimer, Countdown
  <1>5. /\ Instant' = Instant
        /\ Alarms' = [Alarms EXCEPT ![num_timers] = Alarms'[num_timers]]
        /\ BeingServed' = BeingServed
    <2> HIDE DEF r
    <2> QED  BY <1>1, <1>2, <1>3, <1>4, ArmRefines
  <1>6. AlarmView /\ AlarmView'
    BY ViewBeforeAndAfter
  <1>7. CASE timer'[num_timers].active
    BY <1>1, <1>5, <1>6, <1>7, Zenon DEF AlarmView, Clock!Next, Clock!Set
  <1>8. CASE ~timer'[num_timers].active
    <2>1. ~timer[num_timers].active
      BY <1>1, SMT DEF IInv, OthersUnused, TypeOK
    <2>2. Alarms'[num_timers] = Clock!Off /\ Alarms[num_timers] = Clock!Off
      BY <1>1, <1>6, <1>8, <2>1, Zenon DEF AlarmView
    <2>3. Alarms' = Alarms
      BY <1>5, <1>6, <2>2, Zenon DEF AlarmView
    <2> QED  BY <1>5, <2>3, Zenon DEF Clock!vars
  <1> QED  BY <1>7, <1>8

\* To activate a timer sets its alarm.
LEMMA ActivateRefines ==
  ASSUME IInv, IInv', NEW t \in 1 .. num_timers - 1, NEW d \in Nat \ {0},
         NEW continuous \in BOOLEAN, ActivateTimer(t, d, continuous)
  PROVE  Clock!Next
  <1> DEFINE r == [period |-> d, remaining |-> d, active |-> TRUE,
                   continuous |-> continuous, triggered |-> timer[t].triggered]
  <1>1. t \in Timer /\ t # CounterTimer
    BY ConstantsAssumption, SMT DEF IInv, TypeOK, Timer, CounterTimer
  <1>2. r \in TimerType /\ r.triggered = timer[t].triggered /\ r.active
    <2>1. timer[t].triggered \in BOOLEAN
      BY <1>1, Zenon DEF IInv, TypeOK, TimerType
    <2> QED  BY <2>1, Zenon DEF TimerType
  <1>3. timer' = [Expired EXCEPT ![t] = r]
    BY <1>1, ExpiredOK, Zenon DEF ActivateTimer
  <1>4. /\ ticks_in_period' = ticks_left' /\ UNCHANGED <<counter, cursor>>
        /\ num_timers' = num_timers
    BY Zenon DEF ActivateTimer, Countdown
  <1> HIDE DEF r
  <1>5. /\ Instant' = Instant
        /\ Alarms' = [Alarms EXCEPT ![t] = Alarms'[t]]
        /\ BeingServed' = BeingServed
    BY <1>1, <1>2, <1>3, <1>4, ArmRefines
  <1>6. timer'[t].active
    BY <1>1, <1>2, <1>3, ExpiredOK, Zenon
  <1>7. AlarmView'
    BY ViewBeforeAndAfter
  <1> QED  BY <1>1, <1>5, <1>6, <1>7, Zenon DEF AlarmView, Clock!Next, Clock!Set

\* To deactivate a timer clears its alarm.
LEMMA DeactivateRefines ==
  ASSUME IInv, IInv', NEW t \in 1 .. num_timers - 1, DeactivateTimer(t)
  PROVE  Clock!Next
  <1>1. t \in Timer /\ t # CounterTimer
    BY ConstantsAssumption, SMT DEF IInv, TypeOK, Timer, CounterTimer
  <1>2. timer \in [Timer -> TimerType]
    BY DEF IInv, TypeOK
  <1>3. UNCHANGED <<num_timers, ticks_in_period, ticks_left, counter, cursor>>
    BY DEF DeactivateTimer
  <1>4. timer'[t] = [timer[t] EXCEPT !.active = FALSE]
    BY <1>1, <1>2, Zenon DEF DeactivateTimer
  <1>5. ~timer'[t].active /\ timer'[t].triggered = timer[t].triggered
    BY <1>1, <1>2, <1>4, Zenon DEF TimerType
  <1>6. \A u \in Timer : u # t => timer'[u] = timer[u]
    BY <1>1, <1>2, Zenon DEF DeactivateTimer
  <1>7. Instant' = Instant /\ Elapsed' = Elapsed
    BY <1>1, <1>3, <1>6, CounterTimerIsATimer, Zenon DEF Instant, TimeTicks, Elapsed
  <1>8. Alarms' = [Alarms EXCEPT ![t] = Clock!Off]
    <2>1. AlarmView /\ AlarmView'
      BY ViewBeforeAndAfter
    <2>2. Alarms'[t] = Clock!Off
      BY <1>1, <1>5, <2>1, Zenon DEF AlarmView
    <2>3. \A u \in Timer : u # t => Alarms'[u] = Alarms[u]
      BY <1>6, <1>7, Zenon DEF Alarms, Due, Every
    <2> QED  BY <2>1, <2>2, <2>3, Zenon DEF AlarmView
  <1>9. BeingServed' = BeingServed
    <2>1. \A u \in Timer : timer'[u].triggered = timer[u].triggered
      BY <1>5, <1>6, Zenon
    <2>2. num_timers \in 1 .. MaxTimers
      BY DEF IInv, TypeOK
    <2>3. cursor # Idle => cursor .. num_timers - 1 \subseteq Timer
      BY <2>2, ConstantsAssumption, SMT DEF IInv, TypeOK, Timer
    <2> QED  BY <1>3, <2>1, <2>3, Zenon DEF BeingServed
  <1> QED  BY <1>1, <1>7, <1>8, <1>9, Zenon DEF Clock!Next, Clock!Cancel

\* Every step is one of the abstract clock, or a stutter.
LEMMA NextRefines == IInv /\ IInv' /\ [Next]_vars => [Clock!Next]_Clock!vars
  <1> SUFFICES ASSUME IInv, IInv', [Next]_vars PROVE [Clock!Next]_Clock!vars
    OBVIOUS
  <1>1. CASE Tick
    BY <1>1, TickRefines DEF Clock!Next
  <1>2. CASE TimerHandler
    BY <1>2, TimerHandlerRefines DEF Clock!Next
  <1>3. CASE CallbackReturns
    BY <1>3, CallbackReturnsRefines DEF Clock!Next
  <1>0. CASE HostReset
    BY <1>0, HostResetRefines DEF Clock!Next
  <1>4. CASE \E d \in Delays \cup {0}, continuous, active \in BOOLEAN :
               RegisterTimer(d, continuous, active)
    BY <1>4, RegisterRefines, Zenon
  <1>5. CASE \E t \in 1 .. num_timers - 1, d \in Delays, continuous \in BOOLEAN :
               ActivateTimer(t, d, continuous)
    <2>1. Delays \subseteq Nat \ {0}
      BY ConstantsAssumption
    <2> QED  BY <1>5, <2>1, ActivateRefines, Zenon
  <1>6. CASE \E t \in 1 .. num_timers - 1, continuous \in BOOLEAN :
               ReactivateTimer(t, continuous)
    <2>1. PICK t \in 1 .. num_timers - 1, continuous \in BOOLEAN :
            timer[t].period > 0 /\ ActivateTimer(t, timer[t].period, continuous)
      BY <1>6, Zenon DEF ReactivateTimer
    <2>2. t \in Timer
      BY ConstantsAssumption, SMT DEF IInv, TypeOK, Timer
    <2>3. timer[t].period \in Nat
      BY <2>2, Zenon DEF IInv, TypeOK, TimerType
    <2>4. timer[t].period \in Nat \ {0}
      BY <2>1, <2>3, SMT
    <2> QED  BY <2>1, <2>4, ActivateRefines, Zenon
  <1>7. CASE \E t \in 1 .. num_timers - 1 : DeactivateTimer(t)
    BY <1>7, DeactivateRefines, Zenon
  <1>8. CASE UNCHANGED vars
    <2>1. UNCHANGED <<timer, num_timers, ticks_in_period, ticks_left, counter, cursor>>
      BY <1>8 DEF vars
    <2>2. Instant' = Instant
      BY <2>1, Zenon DEF Instant, TimeTicks, Elapsed
    <2>3. Alarms' = Alarms
      BY <2>1, <2>2, Zenon DEF Alarms, Due, Every, Elapsed
    <2>4. BeingServed' = BeingServed
      BY <2>1, Zenon DEF BeingServed
    <2> QED  BY <2>2, <2>3, <2>4, Zenon DEF Clock!vars
  <1> QED  BY <1>0, <1>1, <1>2, <1>3, <1>4, <1>5, <1>6, <1>7, <1>8 DEF Next

\* The timer service implements the alarm clock: with any number of timers and
\* any delays, every alarm rings at exactly the tick it was set for,
\* time_ticks() counts every tick once, and a callback that is due is lost only
\* when the poll before it in the round carries out a reset of the host.
THEOREM Refinement == Spec => ImplementsAlarmClock
  BY Invariance, InitRefines, NextRefines, PTL DEF Spec, Clock!Spec, ImplementsAlarmClock
=============================================================================
