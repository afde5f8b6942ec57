-------------------------------- MODULE Cmos --------------------------------
(***************************************************************************)
(* The clock of the CMOS chip (iodev/cmos.cc): the time, the user copy of  *)
(* it in registers, which the guest reads and writes one by one, and the   *)
(* three events that share interrupt line 8.  Time is a count of two       *)
(* digits; the alarm is of the low one.  The guest reads the time in less  *)
(* than the 244 microseconds between the update flag and the update, once  *)
(* it has found the flag clear.                                            *)
(***************************************************************************)
EXTENDS Integers, IrqLines

CONSTANTS
  Digit,           \* values of a digit
  MaxSeconds,      \* bound: seconds
  MaxWrites        \* bound: registers written, and resets

ConstantsOK == Digit \in Nat \ {0} /\ MaxSeconds \in Nat /\ MaxWrites \in Nat

VARIABLES
  s,               \* the registers and the time
  timers,          \* which of the timers "periodic" and "uip" run
  pic,             \* interrupt line 8
  reader,          \* the digits that the guest has read since it found the flag clear
  mine,            \* history: the digits written since the user copy was frozen
  deaf,            \* history: reset while the line was high, and status C not read since
  serving,         \* the guest's handler has not yet read status C
  seconds, writes

vars == <<s, timers, pic, reader, mine, deaf, serving, seconds, writes>>

Line == 8
Place == {"low", "high"}
Unwritten == -1
Shown(t) == [low |-> t % Digit, high |-> (t \div Digit) % Digit]
Counted(r) == r.low + Digit * r.high

TypeOK ==
  /\ s \in [uip : BOOLEAN, stopped : BOOLEAN, rate : BOOLEAN, set : BOOLEAN,
            enabled : SUBSET {"periodic", "alarm", "update"}, pending : SUBSET {"periodic", "alarm", "update"},
            timeval : 0 .. (Digit * Digit - 1), reg : [Place -> 0 .. (Digit - 1)], alarm : 0 .. (Digit - 1),
            change : BOOLEAN]
  /\ timers \subseteq {"periodic", "uip"} /\ pic \in IrqType({Line})
  /\ reader \in [Place -> Unwritten .. (Digit - 1)] /\ mine \in [Place -> Unwritten .. (Digit - 1)]
  /\ {deaf, serving} \subseteq BOOLEAN /\ seconds \in 0 .. MaxSeconds /\ writes \in 0 .. MaxWrites

Nothing == [p \in Place |-> Unwritten]

\* init and the first reset.
Init ==
  /\ \E t \in 0 .. (Digit * Digit - 1) :
       s = [uip |-> FALSE, stopped |-> FALSE, rate |-> TRUE, set |-> FALSE, enabled |-> {}, pending |-> {},
            timeval |-> t, reg |-> Shown(t), alarm |-> 0, change |-> FALSE]
  /\ timers = {} /\ pic = NoIrq /\ reader = Nothing /\ mine = Nothing
  /\ deaf = FALSE /\ serving = FALSE /\ seconds = 0 /\ writes = 0

-----------------------------------------------------------------------------
(* The guest. *)

\* Only between two of its readings of the time.
Writing ==
  /\ writes < MaxWrites /\ writes' = writes + 1 /\ reader = Nothing
  /\ UNCHANGED <<reader, seconds>>

\* CRA_change: the periodic timer runs if it has a rate and is enabled.
CRA_change(k) == IF k.rate /\ "periodic" \in k.enabled THEN timers \union {"periodic"} ELSE timers \ {"periodic"}

WriteTime == \E p \in Place, v \in 0 .. (Digit - 1) :
  LET new == [s.reg EXCEPT ![p] = v] IN
  /\ Writing
  /\ s' = IF s.set THEN [s EXCEPT !.reg = new, !.change = TRUE]
          ELSE [s EXCEPT !.reg = new, !.timeval = Counted(new)]
  /\ mine' = IF s.set THEN [mine EXCEPT ![p] = v] ELSE mine
  /\ UNCHANGED <<timers, pic, deaf, serving>>

WriteAlarm == \E v \in 0 .. (Digit - 1) :
  /\ Writing /\ s' = [s EXCEPT !.alarm = v]
  /\ UNCHANGED <<timers, pic, mine, deaf, serving>>

WriteStatusA == \E stopped, rate \in BOOLEAN :
  /\ Writing
  /\ s' = [s EXCEPT !.stopped = stopped, !.rate = rate]
  /\ timers' = CRA_change(s') /\ UNCHANGED <<pic, mine, deaf, serving>>

\* Freezing the user copy disables the interrupt at the end of its update.
WriteStatusB == \E set \in BOOLEAN, enabled \in SUBSET {"periodic", "alarm", "update"} :
  /\ Writing
  /\ s' = [s EXCEPT !.set = set, !.enabled = IF set THEN enabled \ {"update"} ELSE enabled,
                    !.timeval = IF s.set /\ ~set /\ s.change THEN Counted(s.reg) ELSE @,
                    !.change = @ /\ ~(s.set /\ ~set)]
  /\ timers' = IF ("periodic" \in enabled) = ("periodic" \in s.enabled) THEN timers ELSE CRA_change(s')
  /\ mine' = IF set THEN mine ELSE Nothing
  /\ UNCHANGED <<pic, deaf, serving>>

\* A read of status C clears its bits and the line.
StaysHigh(p) == p
Quiet(p) == lower_irq(p, Line)
ReadStatusC ==
  /\ s' = [s EXCEPT !.pending = {}] /\ pic' = Quiet(pic)
  /\ deaf' = FALSE /\ serving' = FALSE /\ UNCHANGED <<timers, reader, mine, seconds, writes>>

\* reset: status C is cleared, the line is not.
reset ==
  /\ Writing
  /\ s' = [s EXCEPT !.enabled = {}, !.pending = {}]
  /\ timers' = CRA_change(s') /\ deaf' = (Line \in pic.line) /\ serving' = FALSE
  /\ UNCHANGED <<pic, mine>>

TakeInterrupt ==
  /\ Line \in pic.irr /\ pic' = take_irq(pic, Line) /\ serving' = TRUE
  /\ UNCHANGED <<s, timers, reader, mine, deaf, seconds, writes>>

\* The guest finds the flag clear and reads one digit after the other.
ReadsTime == \E p \in Place :
  /\ reader[p] = Unwritten /\ (reader = Nothing => ~s.uip)
  /\ reader' = [reader EXCEPT ![p] = s.reg[p]]
  /\ UNCHANGED <<s, timers, pic, mine, deaf, serving, seconds, writes>>
HasRead == reader # Nothing /\ reader' = Nothing /\ UNCHANGED <<s, timers, pic, mine, deaf, serving, seconds, writes>>

-----------------------------------------------------------------------------
(* The timers. *)

Happens(k, events) == [k EXCEPT !.pending = @ \union events]
Requests(events) == IF events = {} THEN pic ELSE raise_irq(pic, Line)

periodic_timer ==
  /\ "periodic" \in timers
  /\ LET now == {"periodic"} \intersect s.enabled IN s' = Happens(s, now) /\ pic' = Requests(now)
  /\ UNCHANGED <<timers, reader, mine, deaf, serving, seconds, writes>>

UpdatedAtOnce(k) == [k EXCEPT !.uip = TRUE, !.reg = Shown(k.timeval)]
Flagged(k) == [k EXCEPT !.uip = TRUE]

\* The update of the second before is long done.
one_second_timer ==
  /\ seconds < MaxSeconds /\ seconds' = seconds + 1 /\ "uip" \notin timers
  /\ LET later == [s EXCEPT !.timeval = (@ + 1) % (Digit * Digit)] IN
     IF s.stopped THEN UNCHANGED <<s, timers>>
     ELSE IF s.set THEN s' = later /\ UNCHANGED timers
     ELSE s' = Flagged(later) /\ timers' = timers \union {"uip"}
  /\ UNCHANGED <<pic, reader, mine, deaf, serving, writes>>

\* A guest that found the flag clear has read the time by now.
uip_timer ==
  /\ "uip" \in timers /\ reader = Nothing
  /\ LET updated == [s EXCEPT !.reg = Shown(s.timeval), !.uip = FALSE]
         now == s.enabled \intersect ({"update"} \union (IF updated.reg.low = s.alarm THEN {"alarm"} ELSE {}))
     IN  s' = Happens(updated, now) /\ pic' = Requests(now)
  /\ timers' = timers \ {"uip"}
  /\ UNCHANGED <<reader, mine, deaf, serving, seconds, writes>>

Next ==
  \/ WriteTime \/ WriteAlarm \/ WriteStatusA \/ WriteStatusB \/ ReadStatusC \/ reset \/ TakeInterrupt
  \/ ReadsTime \/ HasRead \/ periodic_timer \/ one_second_timer \/ uip_timer

Spec == Init /\ [][Next]_vars

-----------------------------------------------------------------------------
\* An event that is pending is announced: its interrupt is requested or being
\* served.  A reset while the line is high is the one way to silence the clock:
\* the line stays high, and rises no more until status C is read.
OnlyResetSilences == s.pending # {} /\ ~deaf => Line \in pic.irr \/ serving

\* A guest that finds the flag clear and reads the digits at once reads those of
\* one instant: no update comes between them.
TimeReadWhole == \A p \in Place : reader[p] \in {Unwritten, s.reg[p]}

\* While the user copy is frozen, it is what the guest has written to it.
FrozenKeepsWrites == s.set => \A p \in Place : mine[p] \in {Unwritten, s.reg[p]}
=============================================================================
