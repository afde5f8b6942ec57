-------------------------------- MODULE Sb16 ---------------------------------
(***************************************************************************)
(* Sampled sound (iodev/sb16.cc): the DSP asks for a sample with each tick *)
(* of its timer, on an 8-bit or a 16-bit DMA channel, and interrupts at    *)
(* the end of a block; a driver of the guest plays blocks, pauses, leaves  *)
(* a restarting transfer, or stops the channel and resets the DSP.  The    *)
(* samples themselves, synthesis, MIDI and the mixer are left out; samples *)
(* are of one channel, and the output is always ready for one.             *)
(***************************************************************************)
EXTENDS Dma

CONSTANTS
  Blocks,          \* samples of a block
  MaxOrders        \* bound: what the driver orders

SoundConstantsOK == Blocks \subseteq Nat \ {0} /\ MaxOrders \in Nat

VARIABLES
  dsp,             \* the DSP and the interrupt kinds of the mixer
  player,          \* the driver
  played,          \* history: samples since the block began, and of the last block announced
  spoiled,         \* history: a request left up met a new transfer
  deaf,            \* history: the line was left high by a reset
  orders

sound == <<dsp, player, played, spoiled, deaf, orders>>

SoundIrq == 5
Line(wide) == IF wide THEN 5 ELSE 1
Kind(wide) == IF wide THEN 16 ELSE 8

SoundTypeOK ==
  /\ \E top \in Blocks : \A n \in Blocks : n <= top /\ dsp.count \in -4 .. (2 * top)
  /\ dsp.mode \in 0 .. 2 /\ dsp.block \in Blocks \union {0} /\ dsp.kinds \subseteq {8, 16}
  /\ {dsp.wide, dsp.timer, dsp.irqpending, dsp.highspeed} \subseteq BOOLEAN
  /\ player.does \in {"idle", "prepared", "plays"} /\ player.serving \in BOOLEAN
  /\ {spoiled, deaf} \subseteq BOOLEAN /\ orders \in 0 .. MaxOrders

SoundInit ==
  /\ dsp = [mode |-> 0, wide |-> FALSE, count |-> 0, block |-> 0, highspeed |-> FALSE, timer |-> FALSE,
            irqpending |-> FALSE, kinds |-> {}]
  /\ player = [does |-> "idle", wide |-> FALSE, again |-> FALSE, block |-> 0, serving |-> FALSE]
  /\ played = [now |-> 0, last |-> 0] /\ spoiled = FALSE /\ deaf = FALSE /\ orders = 0

-----------------------------------------------------------------------------
(* The DSP. *)

\* The bytes of a block, of which 16-bit DMA then moves two at once.
BytesOf(n, wide) == IF wide THEN 2 * n ELSE n

Announced(f) == [f EXCEPT !.irqpending = TRUE, !.kinds = @ \union {Kind(f.wide)}]

\* dsp_dmadone: the next block of a restarting transfer, or the end.  The wrong
\* version restarts one sample short.
RestartsShort(f) ==
  IF f.mode = 2 THEN [Announced(f) EXCEPT !.count = BytesOf(f.block, f.wide) - 2]
  ELSE [Announced(f) EXCEPT !.mode = 0, !.timer = FALSE]
dsp_dmadone(f) ==
  IF f.mode = 2 THEN [Announced(f) EXCEPT !.count = BytesOf(f.block, f.wide) - 1]
  ELSE [Announced(f) EXCEPT !.mode = 0, !.timer = FALSE]

Raises == pic' = raise_irq(pic, SoundIrq)

\* dsp_dmatimer.
dsp_dmatimer ==
  /\ dsp.timer /\ dma' = set_DRQ(dma, Line(dsp.wide), TRUE)
  /\ UNCHANGED <<sound, pic>>

\* dma_read8 and dma_read16: the request falls, and the timer will raise it again.
\* The end is the one datum that takes the 16-bit count below 0.
Played(d, channel, atEnd) ==
  LET f == [dsp EXCEPT !.count = @ - 1]
      p == [played EXCEPT !.now = @ + 1]
  IN  /\ dma' = Ended(set_DRQ(d, channel, FALSE), channel, atEnd)
      /\ IF f.count # -1 THEN dsp' = f /\ played' = p /\ UNCHANGED pic
         ELSE dsp' = dsp_dmadone(f) /\ Raises
              /\ played' = [now |-> 0, last |-> IF dsp.mode = 0 THEN 0 ELSE p.now]
      /\ UNCHANGED <<player, spoiled, deaf, orders>>

-----------------------------------------------------------------------------
(* The driver. *)

Orders == orders < MaxOrders /\ orders' = orders + 1

\* Programs the DMA channel, and then the DSP.
PrepareBlock == \E wide, again \in BOOLEAN, n \in Blocks :
  /\ player.does = "idle" /\ ~player.serving /\ dsp.mode = 0 /\ ~dsp.highspeed /\ Orders
  /\ dma' = Programmed(dma, Line(wide), n, again, FALSE)
  /\ player' = [player EXCEPT !.does = "prepared", !.wide = wide, !.again = again, !.block = n]
  /\ spoiled' = (spoiled \/ {Line(FALSE), Line(TRUE)} \intersect dma.requests # {})
  /\ UNCHANGED <<pic, dsp, played, deaf>>

dsp_dma == \E high \in BOOLEAN :
  /\ player.does = "prepared" /\ player' = [player EXCEPT !.does = "plays"] /\ (high => ~player.wide)
  /\ dsp' = [dsp EXCEPT !.wide = player.wide, !.mode = IF player.again THEN 2 ELSE 1, !.block = player.block,
                        !.count = BytesOf(player.block, player.wide) - 1, !.highspeed = high, !.timer = TRUE]
  /\ played' = [now |-> 0, last |-> 0]
  /\ UNCHANGED <<dma, pic, spoiled, deaf, orders>>

Commanded == player.does = "plays" /\ dsp.mode # 0 /\ ~dsp.highspeed /\ Orders

Pause ==
  /\ Commanded /\ dsp' = [dsp EXCEPT !.timer = FALSE]
  /\ UNCHANGED <<dma, pic, player, played, spoiled, deaf>>

Continue ==
  /\ Commanded /\ dsp' = [dsp EXCEPT !.timer = TRUE]
  /\ UNCHANGED <<dma, pic, player, played, spoiled, deaf>>

\* "Stop auto DMA": at once, and with an interrupt.
ExitAuto ==
  /\ Commanded /\ dsp' = dsp_dmadone([dsp EXCEPT !.mode = 1]) /\ Raises
  /\ UNCHANGED <<dma, player, played, spoiled, deaf>>

\* Command F2h.
TriggerIrq ==
  /\ ~dsp.highspeed /\ Orders
  /\ dsp' = [dsp EXCEPT !.irqpending = TRUE, !.kinds = @ \union {8}] /\ Raises
  /\ UNCHANGED <<dma, player, played, spoiled, deaf>>

\* A driver that stops closes the channel, and then resets the DSP.
StopChannel ==
  /\ player.does = "plays" /\ Orders /\ dma' = Masked(dma, Line(player.wide))
  /\ player' = [player EXCEPT !.does = "idle"]
  /\ UNCHANGED <<pic, dsp, played, spoiled, deaf>>

\* dsp_reset: a transfer at high speed only leaves it; any other is done, after the
\* line was lowered, and then forgotten.
dsp_reset ==
  /\ player.does = "idle" /\ Orders
  /\ IF dsp.highspeed THEN dsp' = [dsp EXCEPT !.highspeed = FALSE] /\ UNCHANGED <<pic, deaf>>
     ELSE LET low == IF dsp.irqpending THEN lower_irq(pic, SoundIrq) ELSE pic
              done == IF dsp.mode # 0 THEN dsp_dmadone([dsp EXCEPT !.mode = 1]) ELSE dsp
          IN  /\ dsp' = [done EXCEPT !.irqpending = FALSE, !.mode = 0, !.count = 0]
              /\ pic' = IF dsp.mode # 0 THEN raise_irq(low, SoundIrq) ELSE low
              /\ deaf' = (SoundIrq \in pic'.line)
  /\ UNCHANGED <<dma, player, played, spoiled>>

TakeSoundInterrupt ==
  /\ SoundIrq \in pic.irr /\ pic' = take_irq(pic, SoundIrq)
  /\ player' = [player EXCEPT !.serving = TRUE]
  /\ UNCHANGED <<dma, dsp, played, spoiled, deaf, orders>>

\* dsp_status and dsp_irq16ack: the line falls when neither kind is left.  The wrong
\* version leaves it high while a transfer goes on.
LowersAtLast(f) == IF f.kinds = {} /\ dsp.mode = 0 THEN lower_irq(pic, SoundIrq) ELSE pic
Lowers(f) == IF f.kinds = {} THEN lower_irq(pic, SoundIrq) ELSE pic

Acknowledge == \E kind \in dsp.kinds :
  /\ player.serving /\ dsp.irqpending
  /\ LET f == [dsp EXCEPT !.kinds = @ \ {kind}] IN
     /\ dsp' = [f EXCEPT !.irqpending = f.kinds # {}] /\ pic' = Lowers(f)
     /\ deaf' = (deaf /\ SoundIrq \in pic'.line)
  /\ UNCHANGED <<dma, player, played, spoiled, orders>>

\* The handler looks at the mixer until nothing is left that it can acknowledge.
HandlerEnds ==
  /\ player.serving /\ (dsp.kinds = {} \/ ~dsp.irqpending)
  /\ player' = [player EXCEPT !.serving = FALSE, !.does = IF @ = "plays" /\ dsp.mode = 0 THEN "idle" ELSE @]
  /\ UNCHANGED <<dma, pic, dsp, played, spoiled, deaf, orders>>

SoundNext ==
  \/ dsp_dmatimer \/ PrepareBlock \/ dsp_dma \/ Pause \/ Continue \/ ExitAuto \/ TriggerIrq \/ StopChannel
  \/ dsp_reset \/ TakeSoundInterrupt \/ Acknowledge \/ HandlerEnds

-----------------------------------------------------------------------------
\* An interrupt that is pending is announced: requested, or being served.  A reset
\* in the middle of a transfer is the one way to silence the sound: it leaves the
\* line high, and nothing to acknowledge.
OnlyResetDeafens == dsp.irqpending /\ ~deaf => SoundIrq \in pic.irr \/ player.serving

\* A driver that waits for the end of a block will be told: as long as the DSP asks
\* for samples, its channel has as many left to give.  Blocks of 16 bits, and a
\* request left up from before, are the exceptions.
BlockWillEnd ==
  player.does = "plays" /\ dsp.mode # 0 /\ ~dsp.wide /\ ~spoiled =>
    Line(FALSE) \notin dma.masked /\ dma.count[Line(FALSE)] = dsp.count

\* "length: number of samples - not number of bytes": a block that was announced
\* played as many samples as were asked for.
BlocksAreOfSamples == ~spoiled /\ played.last # 0 => played.last = dsp.block
=============================================================================
