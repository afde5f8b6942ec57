----------------------------- MODULE AlarmClock -----------------------------
(***************************************************************************)
(* What the timer service of pc_system.cc promises to the devices, without *)
(* the countdown that implements it: an instant "now" that the CPU moves   *)
(* forward one tick at a time, and a set of alarms.  An alarm rings at     *)
(* exactly the instant it was set for, a repeating one again every         *)
(* "every" ticks, and time does not move while an alarm is being served.   *)
(* PcTimers is shown to implement this module.                             *)
(***************************************************************************)
EXTENDS Naturals

CONSTANTS
  Alarm,           \* the alarms a device can own
  Poll             \* the alarm whose service polls the host for a reset

VARIABLES
  now,             \* the instant, in CPU ticks
  alarm,           \* alarm[a]: is it set, for when, and how often
  ringing          \* the alarms that rang at "now" and are still to be served

vars == <<now, alarm, ringing>>

Off == [set |-> FALSE, due |-> 0, every |-> 0]

AlarmType == [set : BOOLEAN, due : Nat, every : Nat]

\* The alarms that ring if the clock moves to instant n.
DueAt(n) == {a \in Alarm : alarm[a].set /\ alarm[a].due = n}

\* An alarm that just rang: a repeating one is set again, the other is off.
Rung(al) == IF al.every > 0 THEN [al EXCEPT !.due = @ + al.every] ELSE Off

Advance ==
  /\ ringing = {}
  /\ now' = now + 1
  /\ ringing' = DueAt(now + 1)
  /\ alarm' = [a \in Alarm |-> IF a \in DueAt(now + 1) THEN Rung(alarm[a])
                                                       ELSE alarm[a]]

Serve(a) ==
  /\ a \in ringing
  /\ ringing' = ringing \ {a}
  /\ UNCHANGED <<now, alarm>>

\* A reset found while Poll is served: what else is ringing is not served.
Reset ==
  /\ Poll \in ringing
  /\ ringing' = {}
  /\ UNCHANGED <<now, alarm>>

\* An alarm is set for any later instant, once or to repeat; setting it again
\* replaces what it was set for.
Set(a) ==
  /\ alarm' = [alarm EXCEPT ![a] = alarm'[a]]
  /\ alarm'[a] \in AlarmType
  /\ alarm'[a].set
  /\ alarm'[a].due > now
  /\ UNCHANGED <<now, ringing>>

Cancel(a) ==
  /\ alarm' = [alarm EXCEPT ![a] = Off]
  /\ UNCHANGED <<now, ringing>>

\* The clock starts at some instant, with the alarms that are already set.
Init ==
  /\ now \in Nat
  /\ alarm \in [Alarm -> AlarmType]
  /\ \A a \in Alarm : alarm[a].set => alarm[a].due > now
  /\ ringing = {}

Next ==
  \/ Advance
  \/ \E a \in Alarm : Serve(a)
  \/ Reset
  \/ \E a \in Alarm : Set(a)
  \/ \E a \in Alarm : Cancel(a)

Spec == Init /\ [][Next]_vars
=============================================================================
