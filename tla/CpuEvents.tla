----------------------------- MODULE CpuEvents ------------------------------
(***************************************************************************)
(* The loop of the CPU (cpu/cpu.cc) and what interrupts it: the events     *)
(* that handleAsyncEvent looks for at the boundary of two instructions,    *)
(* the HALT loop within it, and the delivery of interrupts and exceptions  *)
(* (cpu/exception.cc), which may fail and raise another exception.  "s" is *)
(* the CPU.  Devices change INTR and HRQ when time is ticked, after an     *)
(* instruction or in the HALT loop.  What an instruction computes is left  *)
(* out: there are the instructions that change the event state, faulting   *)
(* ones, and all others.                                                   *)
(***************************************************************************)
EXTENDS Integers

CONSTANTS MaxEvents      \* bound: requests of devices and unusual instructions

ConstantsOK == MaxEvents \in Nat

VARIABLES
  s,               \* the CPU
  owed,            \* history: a single-step trap for an instruction: "no", "yes", "later" (after the next), "hlt"
  shadow,          \* history: the last instruction holds off interrupts
  chain,           \* history: exceptions raised one within the other
  began,           \* history: what the current delivery began as
  hlda,            \* flips whenever the bus is given away
  events           \* requests and unusual instructions so far

vars == <<s, owed, shadow, chain, began, hlda, events>>

\* trap: the bits of debug_trap but the artificial one of HLT, "halt"; kind:
\* what is being delivered; mixed: CS and SS are the handler's while EIP is the
\* interrupted program's; saved: mixed, in save_cs and save_ss; errorno and
\* first: how many exceptions are unresolved, and the class of the first.
Class == {"benign", "contributory", "page"}

TypeOK ==
  /\ s.pc \in {"boundary", "halted", "execute", "deliver"}
  /\ {s.If, s.TF, s.INTR, s.HRQ, s.halt, s.mixed, s.saved} \subseteq BOOLEAN
  /\ s.async \in 0 .. 2 /\ s.errorno \in 0 .. 2 /\ s.first \in Class
  /\ s.trap \subseteq {"step", "task"} /\ s.inhibit \subseteq {"interrupts", "debug"}
  /\ s.kind \in {"none", "irq", "soft", "exception", "double"}
  /\ owed \in {"no", "yes", "later", "hlt"} /\ shadow \in BOOLEAN
  /\ chain \in 0 .. 3 /\ began \in {"none", "irq", "soft", "exception"}
  /\ hlda \in BOOLEAN /\ events \in 0 .. MaxEvents

Reset(INTR, HRQ) ==
  [pc |-> "boundary", If |-> FALSE, TF |-> FALSE, INTR |-> INTR, HRQ |-> HRQ, async |-> 2, halt |-> FALSE,
   trap |-> {}, inhibit |-> {}, kind |-> "none", errorno |-> 0, first |-> "benign", mixed |-> FALSE, saved |-> FALSE]

Init ==
  /\ s = Reset(FALSE, FALSE) /\ owed = "no" /\ shadow = FALSE /\ chain = 0 /\ began = "none" /\ hlda = FALSE
  /\ events = 0

Counted == events < MaxEvents /\ events' = events + 1
Uncounted == UNCHANGED events

-----------------------------------------------------------------------------
(* Interrupts and exceptions. *)

\* Traps and inhibits are discarded for the new context.
interrupt(k, kind) ==
  [k EXCEPT !.pc = "deliver", !.kind = kind, !.trap = {}, !.halt = FALSE, !.inhibit = {}, !.saved = k.mixed]

\* Whether a second exception is delivered after the first one, and not as a
\* double fault.
is_exception_OK(first, second) ==
  \/ first = "benign" \/ second = "benign"
  \/ first = "contributory" /\ second = "page"

\* CS and SS are what they were when the last delivery began, if that was one of
\* an exception.
RestoredNever(k) == k
Restored(k) == IF k.errorno > 0 THEN [k EXCEPT !.mixed = k.saved] ELSE k

exception(k, class) ==
  LET n == k.errorno + 1
      kind == IF n = 2 /\ ~is_exception_OK(k.first, class) THEN "double" ELSE "exception"
  IN  IF n >= 3 THEN Reset(k.INTR, k.HRQ)
      ELSE interrupt([Restored(k) EXCEPT !.errorno = n, !.first = IF n = 1 THEN class ELSE @], kind)

\* The start of cpu_loop, which every exception comes back to.
ResumedAsIs(k) == [k EXCEPT !.pc = "boundary", !.kind = "none"]
Resumed(k) == [k EXCEPT !.pc = "boundary", !.kind = "none", !.errorno = 0]

\* What handleAsyncEvent does after it has looked for interrupts.
Pending(k) == k.INTR \/ k.trap # {} \/ k.HRQ \/ k.TF

StepNoted(k) == IF k.TF THEN k.trap \union {"step"} ELSE k.trap

Tail(k) ==
  LET noted == [k EXCEPT !.trap = StepNoted(k), !.inhibit = {}, !.pc = "execute"]
  IN  IF Pending(noted) THEN noted ELSE [noted EXCEPT !.async = 0]

\* The handler is entered: through an interrupt gate, which disables interrupts,
\* or a trap gate.
Delivered ==
  /\ s.pc = "deliver"
  /\ \E flag \in {FALSE, s.If} :
       LET k == [s EXCEPT !.If = flag, !.TF = FALSE, !.mixed = FALSE]
       IN  s' = CASE s.kind = "irq" -> Tail([k EXCEPT !.kind = "none"])
                  [] s.kind = "soft" -> [k EXCEPT !.pc = "boundary", !.kind = "none"]
                  [] OTHER -> Resumed(k)
  /\ chain' = 0 /\ began' = "none" /\ owed' = IF s.kind = "irq" THEN owed ELSE "no"
  /\ shadow' = (shadow /\ s.kind = "irq")
  /\ UNCHANGED hlda /\ Uncounted

\* It cannot be: the gate is bad, or the stack, after CS and SS were loaded.
DeliveryFails ==
  /\ s.pc = "deliver" /\ Counted
  /\ \E loaded \in BOOLEAN, class \in {"contributory", "page"} :
       LET k == exception([s EXCEPT !.mixed = @ \/ loaded], class)
       IN  /\ s' = k
           /\ IF k.pc = "boundary" THEN chain' = 0 /\ began' = "none" ELSE chain' = chain + 1 /\ UNCHANGED began
  /\ owed' = "no" /\ shadow' = FALSE /\ UNCHANGED hlda

-----------------------------------------------------------------------------
(* handleAsyncEvent. *)

TrapIfQuiet(k) == k.trap # {} /\ "debug" \notin k.inhibit /\ ~(k.INTR /\ k.If)
TrapDue(k) == "task" \in k.trap \/ (k.trap # {} /\ "debug" \notin k.inhibit)

HeldOff(k) == "debug" \in k.inhibit
Inhibited(k) == "interrupts" \in k.inhibit

BusIfQuiet(k) == k.HRQ /\ ~k.INTR
BusDue(k) == k.HRQ

\* A trap first, then an interrupt, then the bus.
Looks(k) ==
  \/ /\ TrapDue(k)
     /\ s' = exception(k, "benign") /\ chain' = chain + 1 /\ began' = "exception" /\ owed' = "no" /\ shadow' = FALSE
     /\ UNCHANGED <<hlda, events>>
  \/ /\ ~TrapDue(k) /\ ~Inhibited(k) /\ k.INTR /\ k.If
     /\ \E again \in BOOLEAN :
          /\ s' = interrupt([k EXCEPT !.errorno = 0, !.INTR = again, !.async = IF again THEN 1 ELSE @], "irq")
          /\ IF again THEN Counted ELSE Uncounted
     /\ began' = "irq" /\ UNCHANGED <<owed, shadow, chain, hlda>>
  \/ /\ ~TrapDue(k) /\ ~Inhibited(k) /\ ~(k.INTR /\ k.If) /\ BusDue(k)
     /\ \E more \in BOOLEAN : s' = Tail([k EXCEPT !.HRQ = more])
     /\ hlda' = ~hlda /\ UNCHANGED <<owed, shadow, chain, began, events>>
  \/ /\ ~TrapDue(k) /\ (Inhibited(k) \/ (~(k.INTR /\ k.If) /\ ~BusDue(k)))
     /\ s' = Tail(k) /\ UNCHANGED <<owed, shadow, chain, began, hlda, events>>

AtBoundary ==
  /\ s.pc = "boundary"
  /\ IF s.async = 0
     THEN s' = [s EXCEPT !.pc = "execute"] /\ UNCHANGED <<owed, shadow, chain, began, hlda, events>>
     ELSE IF s.halt
     THEN /\ s' = [s EXCEPT !.pc = "halted", !.halt = FALSE, !.trap = {}, !.inhibit = {}]
          /\ UNCHANGED <<owed, shadow, chain, began, hlda, events>>
     ELSE Looks(s)

\* The HALT loop, which ticks until an interrupt or a reset.
Awakens == s.pc = "halted" /\ ((s.INTR /\ s.If) \/ s.async = 2) /\ Looks([s EXCEPT !.pc = "boundary"])

-----------------------------------------------------------------------------
(* Instructions. *)

Completes(k, owes, holds) ==
  /\ s' = [k EXCEPT !.pc = "boundary"]
  /\ owed' = IF s.TF THEN owes ELSE "no"
  /\ shadow' = holds
  /\ UNCHANGED <<chain, began, hlda>>

Forgotten(k) == k
Noticed(k) == [k EXCEPT !.async = 1]

writeEFlags(k, flag, trace) == LET r == [k EXCEPT !.If = flag, !.TF = trace] IN IF trace THEN Noticed(r) ELSE r

AnyOther == s.pc = "execute" /\ Completes(s, "yes", FALSE) /\ Uncounted
CLI == s.pc = "execute" /\ s.If /\ Completes([s EXCEPT !.If = FALSE], "yes", FALSE) /\ Counted

STI ==
  /\ s.pc = "execute" /\ ~s.If
  /\ Completes(Noticed([s EXCEPT !.If = TRUE, !.inhibit = @ \union {"interrupts"}]), "yes", TRUE) /\ Counted

\* MOV SS and POP SS.
LoadSS ==
  /\ s.pc = "execute"
  /\ Completes(Noticed([s EXCEPT !.inhibit = @ \union {"interrupts", "debug"}]), "later", TRUE) /\ Counted

\* POPF and IRET.
LoadFlags ==
  /\ s.pc = "execute"
  /\ \E flag \in BOOLEAN, trace \in BOOLEAN : Completes(writeEFlags(s, flag, trace), "yes", FALSE)
  /\ Counted

HLT == s.pc = "execute" /\ Completes(Noticed([s EXCEPT !.halt = TRUE]), "hlt", FALSE) /\ Counted

\* A task switch discards traps and inhibits, and asks for one if the new task
\* has its T bit set.
task_switch ==
  /\ s.pc = "execute"
  /\ \E flag \in BOOLEAN, trace \in BOOLEAN, T \in BOOLEAN :
       LET k == writeEFlags([s EXCEPT !.trap = {}, !.inhibit = {}], flag, trace)
       IN  Completes(IF T THEN Noticed([k EXCEPT !.trap = {"task"}]) ELSE k, "no", FALSE)
  /\ Counted

SoftwareInterrupt ==
  /\ s.pc = "execute" /\ s' = interrupt(s, "soft") /\ began' = "soft"
  /\ owed' = "no" /\ shadow' = FALSE /\ UNCHANGED <<chain, hlda>> /\ Counted

Faults ==
  /\ s.pc = "execute"
  /\ \E class \in Class : s' = exception(s, class)
  /\ chain' = chain + 1 /\ began' = "exception" /\ owed' = "no" /\ shadow' = FALSE
  /\ UNCHANGED hlda /\ Counted

\* A write to a port that resets the CPU, which then goes on with the boundary.
ResetByPort ==
  /\ s.pc = "execute" /\ s' = Reset(s.INTR, s.HRQ)
  /\ owed' = "no" /\ shadow' = FALSE /\ UNCHANGED <<chain, began, hlda>> /\ Counted

-----------------------------------------------------------------------------
(* Devices, when time is ticked. *)

Ticking == s.pc \in {"boundary", "halted"}

set_INTR ==
  /\ Ticking /\ Counted
  /\ s' = Noticed([s EXCEPT !.INTR = ~@])
  /\ UNCHANGED <<owed, shadow, chain, began, hlda>>

set_HRQ ==
  /\ Ticking /\ Counted
  /\ s' = IF s.HRQ THEN [s EXCEPT !.HRQ = FALSE] ELSE Noticed([s EXCEPT !.HRQ = TRUE])
  /\ UNCHANGED <<owed, shadow, chain, began, hlda>>

\* The user's reset is found in a timer's callback and jumps back to cpu_loop.
HostReset ==
  /\ Ticking /\ Counted
  /\ s' = Reset(s.INTR, s.HRQ)
  /\ owed' = "no" /\ shadow' = FALSE /\ UNCHANGED <<chain, began, hlda>>

-----------------------------------------------------------------------------
Runs == Delivered \/ AtBoundary \/ Awakens \/ AnyOther

Next ==
  \/ Runs \/ DeliveryFails
  \/ CLI \/ STI \/ LoadSS \/ LoadFlags \/ HLT \/ task_switch \/ SoftwareInterrupt \/ Faults \/ ResetByPort
  \/ set_INTR \/ set_HRQ \/ HostReset

\* The thread of the machine runs the loop; the HALT loop only goes on when it may.
Fairness == WF_vars(Runs)

Spec == Init /\ [][Next]_vars /\ Fairness

-----------------------------------------------------------------------------
\* Whatever happened, an event that the CPU has to look at makes it look at the
\* next boundary: no reset, halt or delivery clears async_event under it.
NothingForgotten ==
  s.pc = "boundary" /\ (Pending(s) \/ s.halt \/ s.inhibit # {}) => s.async # 0

\* An instruction that began with TF set is followed by its trap before the next
\* one, and before any interrupt; after a load of SS one instruction later.  The
\* HLT instruction loses it.
OnlyHltLosesStep == s.pc = "execute" \/ s.kind = "irq" => owed # "yes"

\* No interrupt comes between STI, or a load of SS, and the end of the next
\* instruction.
ShadowHolds == s.kind = "irq" => ~shadow

\* A double fault is delivered for the second of two exceptions, one raised by
\* the delivery of the other, and for no older ones.
DoubleFaultIsReal == s.pc = "deliver" /\ chain > 0 => s.errorno = chain

\* The frame that is pushed for a handler has CS, SS and EIP of one program,
\* however often a delivery failed, unless it began as an interrupt whose stack
\* was bad: then they are the first handler's CS and SS.
OnlyInterruptsMixFrames == s.mixed => began \in {"irq", "soft"}

\* An enabled request is served in the end; so is the bus, unless the CPU halts
\* for ever: the HALT loop does not look for it.
EventsAreServed ==
  /\ ~<>[](s.INTR /\ s.If)
  /\ <>[](s.HRQ) => ([]<>hlda /\ []<>(~hlda)) \/ <>[](s.pc = "halted")
=============================================================================
