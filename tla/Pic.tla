-------------------------------- MODULE Pic --------------------------------
(***************************************************************************)
(* The two cascaded 8259 interrupt controllers of the PC (iodev/pic.cc)    *)
(* and the INTR line by which the master interrupts the CPU.               *)
(*                                                                         *)
(* A register of the chip is the set of the pins whose bits are set.  The  *)
(* priority of a pin is its distance from the pin after lowest_priority,   *)
(* going round: 0 is the highest.  A chip that has signalled (INT) chooses *)
(* no other pin until the CPU acknowledges, even if a request of higher    *)
(* priority arrives or the chosen one goes away; "irq" is the choice.      *)
(*                                                                         *)
(* The registers a guest may read (IRR, ISR, IMR) and the vector numbers   *)
(* are left out: an acknowledged interrupt is the chip and the pin.        *)
(***************************************************************************)
EXTENDS Integers

CONSTANTS
  PinCount,      \* pins of a chip: 8
  Cascade,       \* the master's pin that the slave drives: 2
  Devices,       \* the <<chip, pin>> pairs that devices drive
  LevelCapable,  \* the <<chip, pin>> pairs that the PCI bridge can make level triggered
  Commands,      \* the <<chip, command>> pairs that the guest gives
  Masks          \* the <<chip, pins>> that the guest writes to the mask registers

Chip == {"master", "slave"}
Pin == 0 .. PinCount - 1

ASSUME ConstantsAssumption ==
  /\ PinCount \in Nat \ {0}
  /\ Cascade \in Pin
  /\ Devices \subseteq (Chip \X Pin) \ {<<"master", Cascade>>}
  /\ LevelCapable \subseteq (Chip \X Pin) \ {<<"master", Cascade>>}
  /\ Masks \subseteq Chip \X SUBSET Pin

VARIABLES
  pic,           \* pic[c]: the registers of chip c
  intr           \* the INTR line into the CPU

vars == <<pic, intr>>

\* Where a chip is in its initialization: the command word it expects.
NotInInit == 0

ChipType ==
  [line : SUBSET Pin, irr : SUBSET Pin, isr : SUBSET Pin, imr : SUBSET Pin,
   elcr : SUBSET Pin, INT : BOOLEAN, irq : Pin, lowest_priority : Pin,
   special_mask : BOOLEAN, polled : BOOLEAN, auto_eoi : BOOLEAN,
   rotate_on_autoeoi : BOOLEAN, expects : {NotInInit, 2, 3, 4}, requires_4 : BOOLEAN]

TypeOK ==
  /\ pic \in [Chip -> ChipType]
  /\ intr \in BOOLEAN

PowerOn ==
  [line |-> {}, irr |-> {}, isr |-> {}, imr |-> Pin, elcr |-> {},
   INT |-> FALSE, irq |-> 0, lowest_priority |-> PinCount - 1,
   special_mask |-> FALSE, polled |-> FALSE, auto_eoi |-> FALSE,
   rotate_on_autoeoi |-> FALSE, expects |-> NotInInit, requires_4 |-> FALSE]

Init ==
  /\ pic = [c \in Chip |-> PowerOn]
  /\ intr = FALSE

-----------------------------------------------------------------------------
\* The place of a pin in the order of priorities: 0 is served first.
Rank(p, i) == (i - p.lowest_priority - 1 + PinCount) % PinCount

FirstOf(p, S) == CHOOSE i \in S : \A j \in S : Rank(p, i) <= Rank(p, j)

\* A variant of Eligible that ignores the interrupts in service.
EligibleIgnoresService(p) == p.irr \ p.imr

\* The requests the chip may signal: in special mask mode every one that is not
\* in service itself, else those above everything in service.
Eligible(p) ==
  {i \in p.irr \ p.imr :
     IF p.special_mask THEN i \notin p.isr
                       ELSE \A j \in p.isr : Rank(p, i) < Rank(p, j)}

\* service_master_pic and service_slave_pic, as far as the chip itself goes.
Service(p) ==
  IF p.INT \/ Eligible(p) = {} THEN p
  ELSE [p EXCEPT !.INT = TRUE, !.irq = FirstOf(p, Eligible(p))]

Signals(p) == ~p.INT /\ Service(p).INT

\* raise_irq and lower_irq on one chip: only a change of the line counts.
Requested(p, i) == [p EXCEPT !.line = @ \cup {i}, !.irr = @ \cup {i}]

Raised(p, i) == IF i \in p.line THEN p ELSE Service(Requested(p, i))

\* A variant of Lowered that keeps the request latched.
LoweredKeepsRequest(p, i) ==
  IF i \notin p.line THEN p ELSE [p EXCEPT !.line = @ \ {i}]

Lowered(p, i) ==
  IF i \notin p.line THEN p
  ELSE LET q == [p EXCEPT !.line = @ \ {i}, !.irr = @ \ {i}]
       IN  [q EXCEPT !.INT = @ /\ q.irr \ q.imr # {}]

\* The chips become m and s, and the slave is serviced: if it signals, it
\* raises the master's cascade pin.
SlaveServiced(m, s) ==
  [master |-> IF Signals(s) THEN Raised(m, Cascade) ELSE m, slave |-> Service(s)]

\* service_master_pic raises INTR when the master signals.
Become(new) ==
  /\ pic' = new
  /\ intr' = (intr \/ (~pic["master"].INT /\ new.master.INT))

\* Chip c becomes p and is serviced.
ServiceAs(c, p) ==
  IF c = "master" THEN Become([pic EXCEPT !.master = Service(p)])
                  ELSE Become(SlaveServiced(pic["master"], p))

-----------------------------------------------------------------------------
\* A device raises its line; a line that is high already stays high.
RaiseIRQ(c, i) ==
  /\ i \notin pic[c].line
  /\ IF c = "master" THEN Become([pic EXCEPT !.master = Raised(@, i)])
     ELSE Become(SlaveServiced(pic["master"], Requested(pic["slave"], i)))

\* A device lowers its line.  When that leaves the master no unmasked request,
\* INTR goes low; when it leaves the slave none, the cascade pin is lowered.
LowerIRQ(c, i) ==
  /\ i \in pic[c].line
  /\ LET p == Lowered(pic[c], i)
         quiet == p.irr \ p.imr = {}
         m == IF c = "master" THEN p
              ELSE IF quiet THEN Lowered(pic["master"], Cascade) ELSE pic["master"]
     IN  /\ pic' = [master |-> m, slave |-> IF c = "slave" THEN p ELSE pic["slave"]]
         /\ intr' = (intr /\ (m.line # pic["master"].line => m.irr \ m.imr # {}))

\* IAC for the master's choice, before either chip is serviced again.
Acknowledged(p) ==
  [p EXCEPT !.INT = FALSE,
            !.irr = IF p.irq \in p.elcr THEN @ ELSE @ \ {p.irq},
            !.isr = IF p.auto_eoi THEN @ ELSE @ \cup {p.irq},
            !.lowest_priority = IF p.auto_eoi /\ p.rotate_on_autoeoi THEN p.irq ELSE @]

\* A variant of IAC that leaves the cascade line high.
IACKeepsCascadeLine ==
  /\ intr
  /\ LET m == Acknowledged(pic["master"])
         both == SlaveServiced(m, Acknowledged(pic["slave"]))
         new == IF pic["master"].irq = Cascade THEN both ELSE [pic EXCEPT !.master = m]
     IN  /\ pic' = [new EXCEPT !.master = Service(@)]
         /\ intr' = Service(new.master).INT

\* The CPU acknowledges.  If the master chose the cascade pin, the slave's
\* choice is acknowledged too, whether or not the slave still signals.
IAC ==
  /\ intr
  /\ LET m == Acknowledged(pic["master"])
         both == SlaveServiced([m EXCEPT !.line = @ \ {Cascade}], Acknowledged(pic["slave"]))
         new == IF pic["master"].irq = Cascade THEN both ELSE [pic EXCEPT !.master = m]
     IN  /\ pic' = [new EXCEPT !.master = Service(@)]
         /\ intr' = Service(new.master).INT

-----------------------------------------------------------------------------
\* A variant of InitCommand that does not lower INTR.
InitCommandKeepsIntr(c, requires_4) ==
  /\ <<c, "init">> \in Commands
  /\ pic' = [pic EXCEPT ![c] =
               [@ EXCEPT !.expects = 2, !.requires_4 = requires_4,
                         !.imr = {}, !.isr = {}, !.irr = {}, !.INT = FALSE,
                         !.lowest_priority = PinCount - 1,
                         !.auto_eoi = FALSE, !.rotate_on_autoeoi = FALSE]]
  /\ UNCHANGED intr

\* Commands written to port 20h or A0h.
\* ICW1 with single or level-sensitive mode panics, and is left out.
InitCommand(c, requires_4) ==
  /\ <<c, "init">> \in Commands
  /\ pic' = [pic EXCEPT ![c] =
               [@ EXCEPT !.expects = 2, !.requires_4 = requires_4,
                         !.imr = {}, !.isr = {}, !.irr = {}, !.INT = FALSE,
                         !.lowest_priority = PinCount - 1,
                         !.auto_eoi = FALSE, !.rotate_on_autoeoi = FALSE]]
  /\ intr' = (intr /\ c = "slave")

Poll(c) ==
  /\ <<c, "poll">> \in Commands
  /\ pic' = [pic EXCEPT ![c].polled = TRUE]
  /\ UNCHANGED intr

CancelSpecialMask(c) ==
  /\ <<c, "special_mask">> \in Commands
  /\ pic' = [pic EXCEPT ![c].special_mask = FALSE]
  /\ UNCHANGED intr

SetSpecialMask(c) ==
  /\ <<c, "special_mask">> \in Commands
  /\ ServiceAs(c, [pic[c] EXCEPT !.special_mask = TRUE])

RotateOnAutoEOI(c, on) ==
  /\ <<c, "rotate_on_autoeoi">> \in Commands
  /\ pic' = [pic EXCEPT ![c].rotate_on_autoeoi = on]
  /\ UNCHANGED intr

\* clear_highest_interrupt
HighestCleared(p) ==
  IF p.isr = {} THEN p ELSE [p EXCEPT !.isr = @ \ {FirstOf(p, p.isr)}]

EOI(c) == ServiceAs(c, HighestCleared(pic[c]))

\* A variant of RotateEOI that forgets to go round.
RotateEOIWithoutWrap(c) ==
  /\ <<c, "rotate">> \in Commands
  /\ ServiceAs(c, [HighestCleared(pic[c]) EXCEPT !.lowest_priority = @ + 1])

RotateEOI(c) ==
  /\ <<c, "rotate">> \in Commands
  /\ ServiceAs(c, [HighestCleared(pic[c]) EXCEPT !.lowest_priority = (@ + 1) % PinCount])

SpecificEOI(c, i) ==
  /\ <<c, "specific">> \in Commands
  /\ ServiceAs(c, [pic[c] EXCEPT !.isr = @ \ {i}])

SpecificRotateEOI(c, i) ==
  /\ {<<c, "specific">>, <<c, "rotate">>} \subseteq Commands
  /\ ServiceAs(c, [pic[c] EXCEPT !.isr = @ \ {i}, !.lowest_priority = i])

SetLowestPriority(c, i) ==
  /\ <<c, "set_priority">> \in Commands
  /\ pic' = [pic EXCEPT ![c].lowest_priority = i]
  /\ UNCHANGED intr

\* Bytes written to port 21h or A1h: during initialization the command words
\* 2 to 4, then the mask.
InitWord(c, auto_eoi) ==
  /\ \/ /\ pic[c].expects = 2
        /\ pic' = [pic EXCEPT ![c].expects = 3]
     \/ /\ pic[c].expects = 3
        /\ pic' = [pic EXCEPT ![c].expects = IF pic[c].requires_4 THEN 4 ELSE NotInInit]
     \/ /\ pic[c].expects = 4
        /\ pic' = [pic EXCEPT ![c].expects = NotInInit, ![c].auto_eoi = auto_eoi]
  /\ UNCHANGED intr

\* A variant of WriteMask that does not service the chip.
WriteMaskWithoutService(c, mask) ==
  /\ pic[c].expects = NotInInit
  /\ pic' = [pic EXCEPT ![c].imr = mask]
  /\ UNCHANGED intr

WriteMask(c, mask) ==
  /\ pic[c].expects = NotInInit
  /\ ServiceAs(c, [pic[c] EXCEPT !.imr = mask])

\* A read of either port of a chip after a poll command.
PolledRead(c) ==
  /\ pic[c].polled
  /\ ServiceAs(c, [HighestCleared(pic[c]) EXCEPT !.polled = FALSE])

\* The PCI bridge's edge/level registers.
SetELCR(c, pins) ==
  /\ <<c, "elcr">> \in Commands
  /\ \A i \in pins : <<c, i>> \in LevelCapable
  /\ pic' = [pic EXCEPT ![c].elcr = pins]
  /\ UNCHANGED intr

Next ==
  \/ \E d \in Devices : RaiseIRQ(d[1], d[2]) \/ LowerIRQ(d[1], d[2])
  \/ \E m \in Masks : WriteMask(m[1], m[2])
  \/ IAC
  \/ \E c \in Chip :
       \/ \E requires_4 \in BOOLEAN : InitCommand(c, requires_4)
       \/ \E auto_eoi \in BOOLEAN : InitWord(c, auto_eoi)
       \/ Poll(c) \/ PolledRead(c)
       \/ CancelSpecialMask(c) \/ SetSpecialMask(c)
       \/ \E on \in BOOLEAN : RotateOnAutoEOI(c, on)
       \/ EOI(c) \/ RotateEOI(c)
       \/ \E i \in Pin : SpecificEOI(c, i) \/ SpecificRotateEOI(c, i) \/ SetLowestPriority(c, i)
       \/ \E pins \in SUBSET Pin : SetELCR(c, pins)

Spec == Init /\ [][Next]_vars

-----------------------------------------------------------------------------
\* The CPU's INTR line is high exactly while the master waits for an
\* acknowledge: a difference would lose an interrupt or acknowledge none.
IntrFollowsMaster == intr <=> pic["master"].INT

\* A request never outlives the line that made it, so a device that lowers its
\* line has nothing left in either chip.
RequestsHaveLines == \A c \in Chip : pic[c].irr \subseteq pic[c].line

\* The pin a chip has chosen is not in service: no interrupt is acknowledged
\* again before its handler's end of interrupt.
ChosenNotInService == \A c \in Chip : pic[c].INT => pic[c].irq \notin pic[c].isr

\* In normal nested mode a chip that signals has chosen a pin of higher priority
\* than everything in service (the guest may change the order afterwards).
Chooses(c) == pic'[c].INT /\ (pic[c].INT => pic'[c].irq # pic[c].irq)

FullyNested ==
  [][\A c \in Chip : Chooses(c) /\ ~pic'[c].special_mask =>
       \A j \in pic'[c].isr : Rank(pic'[c], pic'[c].irq) < Rank(pic'[c], j)]_vars

\* The master's cascade line follows the slave's signal, and a slave that
\* signals has its request in the master, so the CPU will hear of it.  Only a
\* command that initializes one of the chips makes the two disagree.
ChipsAgree ==
  /\ pic["slave"].INT <=> Cascade \in pic["master"].line
  /\ pic["slave"].INT => Cascade \in pic["master"].irr

OnlyInitSeparates ==
  [][ChipsAgree /\ ~ChipsAgree' =>
       \E c \in Chip, requires_4 \in BOOLEAN : InitCommand(c, requires_4)]_vars

\* No step but the set-priority command leaves a chip idle with a request that
\* it may signal: every other change that makes a request eligible is followed
\* by a service of that chip.
Stranded(c) == ~pic[c].INT /\ Eligible(pic[c]) # {}

OnlySetPriorityStrands ==
  [][\A c \in Chip :
       ~Stranded(c) /\ Stranded(c)' => \E i \in Pin : SetLowestPriority(c, i)]_vars

\* "request IRQ 2 on master pic": when the slave starts to signal, the master
\* has its request.
SlaveSignalRequestsMaster ==
  [][~pic["slave"].INT /\ pic["slave"].INT' => Cascade \in pic["master"].irr']_vars
=============================================================================
