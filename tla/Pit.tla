-------------------------------- MODULE Pit --------------------------------
(***************************************************************************)
(* The interval timer (iodev/pit.cc, the one that is built) and the device *)
(* tick that drives it and interrupt 0 (bx_devices_c::timer).  A count is  *)
(* two digits in base Digit where the chip has two bytes.  The guest keeps *)
(* to the commands that do not panic: 16-bit access in modes 0, 2 and 3.   *)
(* The timers share nothing but the tick: the model follows one of them,   *)
(* "unit", chosen in the initial state.  The value of a latched count is   *)
(* left out, but not which of its bytes is read next.                      *)
(***************************************************************************)
EXTENDS Integers, IrqLines

CONSTANTS
  Unit,          \* the timers that are followed: among 0, 1 and 2
  Digit,         \* 256
  Delta,         \* microseconds of a device tick, BX_IODEV_HANDLER_PERIOD: 100
  Low, High,     \* the digits of the counts that the guest writes
  MaxWrites      \* bound: counts and modes written

Wrap == Digit * Digit

ConstantsOK ==
  /\ Unit \subseteq 0 .. 2
  /\ Digit \in Nat \ {0, 1} /\ Delta \in 1 .. (Wrap - 1) /\ MaxWrites \in Nat
  /\ Low \union High \subseteq 0 .. (Digit - 1)

VARIABLES
  unit,          \* which timer it is
  timer,         \* its registers
  pic,           \* interrupt line 0
  writes,        \* counts and modes written so far
  ticks,         \* history: device ticks since it was started in mode 0, or -1
  pair           \* history: what the guest has read of a latched count

vars == <<unit, timer, pic, writes, ticks, pair>>

TypeOK ==
  /\ unit \in Unit
  /\ timer \in [mode : {0, 2, 3}, counter_max : 0 .. (Wrap - 1), counter : 0 .. (Wrap - 1),
             input : 0 .. (Wrap - 1), inputToggle : BOOLEAN, outputToggle : BOOLEAN, outputFull : BOOLEAN,
             GATE : BOOLEAN, OUT : BOOLEAN, active : BOOLEAN]
  /\ pic \in IrqType({0})
  /\ writes \in 0 .. MaxWrites
  /\ ticks \in -1 .. Wrap
  /\ pair \in {"none", "latched", "low", "torn"}

Init ==
  /\ unit \in Unit
  /\ timer = [mode |-> 3, counter_max |-> 0, counter |-> 0, input |-> 0, inputToggle |-> FALSE,
              outputToggle |-> FALSE, outputFull |-> FALSE,
              GATE |-> unit # 2, OUT |-> TRUE, active |-> FALSE]
  /\ pic = NoIrq /\ writes = 0
  /\ ticks = -1 /\ pair = "none"

-----------------------------------------------------------------------------
Written == writes < MaxWrites /\ writes' = writes + 1

\* write to port 43h: the timer's mode.  Its count goes on as it was.
SetMode(m) ==
  /\ Written
  /\ timer' = [timer EXCEPT !.mode = m, !.input = 0, !.inputToggle = FALSE]
  /\ ticks' = -1
  /\ UNCHANGED <<unit, pic, pair>>

\* The count is complete: what timer t does in its mode.  An active timer in
\* mode 2 or 3 takes the new count when the present one runs out.
NewCount(t, n) ==
  LET max == IF t.mode = 3 THEN n - (n % 2) ELSE n
      u == [t EXCEPT !.counter_max = max, !.input = n, !.inputToggle = FALSE, !.outputFull = FALSE]
  IN  IF t.mode = 0 THEN [u EXCEPT !.counter = max, !.active = TRUE, !.OUT = IF t.GATE THEN FALSE ELSE @]
      ELSE IF t.GATE /\ ~t.active THEN [u EXCEPT !.counter = max, !.active = TRUE, !.OUT = TRUE]
      ELSE u

write_count_reg(d) ==
  LET t == timer
      n == t.input + Digit * d
  IN  /\ Written
      /\ IF ~t.inputToggle
         THEN /\ d \in Low
              /\ timer' = [timer EXCEPT !.input = d, !.inputToggle = TRUE]
              /\ UNCHANGED <<ticks, pair>>
         ELSE /\ d \in High /\ (t.mode # 0 => n # 1)    \* a count of 1 panics
              /\ timer' = NewCount(t, n)
              /\ ticks' = IF t.mode = 0 THEN 0 ELSE -1
              /\ pair' = "none"
      /\ UNCHANGED <<unit, pic>>

\* A variant of latch that takes a new value while the last is being read.
LatchAgain ==
  /\ timer.active
  /\ timer' = [timer EXCEPT !.outputToggle = FALSE, !.outputFull = TRUE]
  /\ pair' = IF pair = "none" THEN "latched" ELSE pair
  /\ UNCHANGED <<unit, pic, writes, ticks>>

\* The counter latch command of port 43h.
latch ==
  /\ ~timer.outputFull
  /\ timer' = [timer EXCEPT !.outputToggle = FALSE, !.outputFull = TRUE]
  /\ pair' = "latched"
  /\ UNCHANGED <<unit, pic, writes, ticks>>

\* Which digit a read of the timer's port gives, and what that makes of the pair.
read_counter ==
  LET high == timer.outputToggle IN
  /\ timer' = [timer EXCEPT !.outputToggle = ~high, !.outputFull = @ /\ ~high]
  /\ pair' = IF pair = "latched" /\ ~high THEN "low"
             ELSE IF pair \in {"latched", "torn"} \/ (pair = "low" /\ ~high) THEN "torn"
             ELSE "none"
  /\ UNCHANGED <<unit, pic, writes, ticks>>

\* Bit 0 of port 61h.
set_GATE(v) ==
  LET t == timer IN
  /\ unit = 2 /\ v # t.GATE
  /\ timer' =
       IF v THEN [t EXCEPT !.GATE = TRUE, !.counter = t.counter_max,
                           !.active = @ \/ t.mode # 0,
                           !.OUT = IF t.mode # 0 THEN TRUE ELSE @ /\ ~t.active]
       ELSE IF t.mode = 0 THEN [t EXCEPT !.GATE = FALSE]
       ELSE [t EXCEPT !.GATE = FALSE, !.active = FALSE, !.OUT = TRUE]
  /\ ticks' = IF v /\ t.mode = 0 /\ t.active THEN 0 ELSE -1
  /\ UNCHANGED <<unit, pic, writes, pair>>

\* A variant of Count in which a count that has run out is not taken up again.
CountOnce(t) ==
  IF t.counter <= Delta THEN [t EXCEPT !.counter = 0, !.OUT = TRUE]
                        ELSE [t EXCEPT !.counter = @ - Delta]

\* A variant that does not look for the end of the count.
CountPast(t) == [t EXCEPT !.counter = IF @ = 0 THEN Wrap - 1 ELSE @ - Delta]

\* What a tick does to a timer that counts.
Count(t) ==
  LET c == t.counter IN
  CASE t.mode = 0 ->
         IF c = 0 THEN [t EXCEPT !.counter = Wrap - 1]
         ELSE IF Delta >= c THEN [t EXCEPT !.counter = 0, !.OUT = TRUE]
         ELSE [t EXCEPT !.counter = c - Delta]
    [] t.mode = 2 ->
         IF c = 0 THEN [t EXCEPT !.counter = Wrap - 1, !.OUT = TRUE]
         ELSE IF c = 1 THEN [t EXCEPT !.counter = t.counter_max, !.OUT = TRUE]
         ELSE IF c = 2 \/ Delta >= c - 1 THEN [t EXCEPT !.counter = 1, !.OUT = FALSE]
         ELSE [t EXCEPT !.counter = c - Delta]
    [] t.mode = 3 ->
         IF c = 0 THEN [t EXCEPT !.counter = Wrap - 2]
         ELSE IF c <= 2 \/ 2 * Delta >= c THEN [t EXCEPT !.counter = t.counter_max, !.OUT = ~@]
         ELSE [t EXCEPT !.counter = c - 2 * Delta]

\* periodic and its caller: the hack of lowering line 0 first makes every rising
\* edge of timer 0 a new request.
periodic ==
  /\ timer' = IF timer.GATE /\ timer.active THEN Count(timer) ELSE timer
  /\ pic' = IF unit = 0 /\ ~timer.OUT /\ timer'.OUT THEN raise_irq(lower_irq(pic, 0), 0) ELSE pic
  /\ ticks' = IF ticks \in 0 .. (Wrap - 1) /\ timer.GATE THEN ticks + 1 ELSE ticks
  /\ UNCHANGED <<unit, writes, pair>>

TakeInterrupt ==
  /\ 0 \in pic.irr
  /\ pic' = take_irq(pic, 0)
  /\ UNCHANGED <<unit, timer, writes, ticks, pair>>

Next ==
  \/ \E m \in {0, 2, 3} : SetMode(m)
  \/ \E d \in Low \union High : write_count_reg(d)
  \/ latch
  \/ read_counter
  \/ \E v \in BOOLEAN : set_GATE(v)
  \/ periodic
  \/ TakeInterrupt

\* The device tick is a continuous timer of the system that nothing stops.
Fairness == WF_vars(periodic)

Spec == Init /\ [][Next]_vars /\ Fairness
-----------------------------------------------------------------------------
\* A latched count that is read byte by byte is read low byte first and whole,
\* whatever is latched or counted meanwhile.  Only writing a new count between
\* the two reads cuts it short.
LatchedReadIsWhole == pair # "torn"

\* In mode 0 the output stays low for the count and no longer, to the resolution
\* of the tick; the largest count, written as 0, may take one tick more.
OneShotOnTime ==
  ticks \in 0 .. (Wrap - 1) /\ timer.GATE /\ ~timer.OUT =>
    IF timer.counter_max = 0 THEN (ticks - 1) * Delta < Wrap - 1
                             ELSE ticks * Delta < timer.counter_max

\* A rate or square wave that runs drives its output low and high for ever, also
\* while it is reprogrammed.  (A count of 1 left over from mode 0 stops it.)
KeepsTicking ==
    <>[](timer.active /\ timer.GATE /\ timer.mode # 0 /\ timer.counter_max # 1)
      => []<>(timer.OUT) /\ []<>(~timer.OUT)
=============================================================================
