------------------------------ MODULE IrqLines ------------------------------
(***************************************************************************)
(* What a device sees of the interrupt controllers (iodev/pic.cc, modelled *)
(* in full in Pic.tla): its line, and the request that a rising edge of    *)
(* the line leaves until the CPU takes it or the line falls.  A line that  *)
(* is raised when it is already high requests nothing.                     *)
(***************************************************************************)

NoIrq == [line |-> {}, irr |-> {}]

IrqType(Irq) == [line : SUBSET Irq, irr : SUBSET Irq]

raise_irq(p, i) ==
  IF i \in p.line THEN p ELSE [line |-> p.line \union {i}, irr |-> p.irr \union {i}]

lower_irq(p, i) == [line |-> p.line \ {i}, irr |-> p.irr \ {i}]

\* The CPU acknowledges the interrupt: the line stays as the device drives it.
take_irq(p, i) == [p EXCEPT !.irr = @ \ {i}]
=============================================================================
