------------------------------- MODULE IsaDma --------------------------------
(***************************************************************************)
(* The floppy disk controller and the sound card on the DMA controllers    *)
(* that they share.  The CPU gives the bus away between two instructions.  *)
(***************************************************************************)
EXTENDS Floppy, Sb16

VARIABLE overtaken  \* history: a request was dropped with the end of a count

vars == <<dma, pic, floppy, sound, overtaken>>

ConstantsOK == FloppyConstantsOK /\ SoundConstantsOK

Used == {Line(FALSE), Channel, Line(TRUE)}
TypeOK ==
  /\ FloppyTypeOK /\ SoundTypeOK /\ overtaken \in BOOLEAN
  /\ \E n \in Counts \union Blocks \union {Spt} : dma \in DmaType(Used, n - 1)
  /\ pic \in IrqType({FloppyIrq, SoundIrq})

Init == FloppyInit /\ SoundInit /\ dma = DmaReset(Used) /\ pic = NoIrq /\ overtaken = FALSE

\* The CPU has answered the request for the bus.
raise_HLDA ==
  LET channel == Granted(dma)
      atEnd == AtItsEnd(dma, channel)
      d == Counted(dma, channel)
  IN  /\ dma.hrq /\ channel # NoChannel
      /\ \/ channel = Channel /\ FloppyMoves(d, atEnd) /\ UNCHANGED sound
         \/ channel # Channel /\ Played(d, channel, atEnd) /\ UNCHANGED floppy

Overtaken == overtaken' = (Stranded(dma') /\ (overtaken \/ (dma.hrq /\ ~dma'.hrq)))

\* The first controller has the bus for a request that has since been masked.
HeldByMask == Cascade \in dma.requests /\ Ready(dma, Slave) = {}

Next ==
  /\ raise_HLDA \/ (FloppyNext /\ UNCHANGED sound) \/ (SoundNext /\ UNCHANGED floppy)
  /\ Overtaken

Spec == Init /\ [][Next]_vars

-----------------------------------------------------------------------------
\* A request that no mask holds back gets the bus.  Only the end of a count, which
\* drops the request of every channel, may overtake it, and a masked request of
\* the first controller keep it from a channel of the second.
OnlyExpiryStrands == Stranded(dma) => overtaken \/ HeldByMask
=============================================================================
