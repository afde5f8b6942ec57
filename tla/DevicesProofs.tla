--------------------------- MODULE DevicesProofs ---------------------------
(***************************************************************************)
(* Proofs about the devices, for any sizes of queues and ring and any sets *)
(* of commands, keys and frames: what a device has pending is announced    *)
(* (InterruptsAreSeen), what a driver reads is whole (NothingTorn), and    *)
(* scan codes are read in the order of the keys (KeysReadInOrder).  Each   *)
(* device has an invariant of its own, kept by every step of its module:   *)
(*   KbdSound    the bytes of the queues and of the output buffer, the     *)
(*               order of their scan codes, and whose byte holds the line; *)
(*   CardLine    what keeps an event of the network card announced;        *)
(*   CardRing    where the frames lie in the card's ring, in order and     *)
(*               whole, and how far the driver has come in the first;      *)
(*   ClockSound and SoundSound    the lines of the clock and of the sound  *)
(*               card, through resets that leave them high.                *)
(***************************************************************************)
EXTENDS MCDevices, TLAPS

-----------------------------------------------------------------------------
(* Interrupt lines, as every device sees them. *)

LineType == [line : SUBSET Int, irr : SUBSET Int]
Raised(p, i) == IF i \in p.line THEN p ELSE [line |-> p.line \cup {i}, irr |-> p.irr \cup {i}]
Lowered(p, i) == [line |-> p.line \ {i}, irr |-> p.irr \ {i}]
Taken(p, i) == [p EXCEPT !.irr = @ \ {i}]

\* A line that was low is requested when it rises; one that was high stays as it is.
LEMMA RaisedIs ==
  ASSUME NEW p \in LineType, NEW i \in Int, NEW q, q = Raised(p, i)
  PROVE  /\ q \in LineType /\ q.line = p.line \cup {i}
         /\ i \notin p.line => q.irr = p.irr \cup {i}
         /\ i \in p.line => q.irr = p.irr
  BY SMT DEF LineType, Raised

\* A line that is lowered requests nothing.
LEMMA LoweredIs ==
  ASSUME NEW p \in LineType, NEW i \in Int, NEW q, q = Lowered(p, i)
  PROVE  q \in LineType /\ q.line = p.line \ {i} /\ q.irr = p.irr \ {i}
  BY SMT DEF LineType, Lowered

\* The CPU takes the request; the line stays.
LEMMA TakenIs ==
  ASSUME NEW p \in LineType, NEW i \in Int, NEW q, q = Taken(p, i)
  PROVE  q \in LineType /\ q.line = p.line /\ q.irr = p.irr \ {i}
  BY SMT DEF LineType, Taken

-----------------------------------------------------------------------------
(* The clock. *)

ClockFields == {"uip", "stopped", "rate", "set", "enabled", "pending", "timeval", "reg", "alarm", "change"}

\* The line is high for as long as something is pending, and what made it rise
\* is requested or being served, unless it stayed high through a reset.
ClockSound ==
  /\ DOMAIN clock = ClockFields /\ DOMAIN reader = Clock!Place
  /\ pic \in LineType
  /\ Clock!TimeReadWhole
  /\ Clock!Line \in pic.line /\ ~clockDeaf => Clock!Line \in pic.irr \/ serving
  /\ clock.pending # {} /\ ~clockDeaf => Clock!Line \in pic.line

\* The clock's operations on its line.
LEMMA ClockLines ==
  ASSUME NEW p, NEW i
  PROVE  /\ Clock!raise_irq(p, i) = Raised(p, i) /\ Clock!lower_irq(p, i) = Lowered(p, i)
         /\ Clock!take_irq(p, i) = Taken(p, i)
  BY Zenon DEF Clock!raise_irq, Clock!lower_irq, Clock!take_irq, Raised, Lowered, Taken

\* Events of a timer: what becomes pending is requested.
LEMMA ClockHappens ==
  ASSUME ClockSound, NEW k, NEW events,
         DOMAIN k = ClockFields, k.pending = clock.pending,
         clock' = Clock!Happens(k, events), pic' = Clock!Requests(events),
         UNCHANGED <<clockDeaf, serving>>
  PROVE  /\ DOMAIN clock' = ClockFields /\ clock'.reg = k.reg /\ pic' \in LineType
         /\ Clock!Line \in pic'.line /\ ~clockDeaf' => Clock!Line \in pic'.irr \/ serving'
         /\ clock'.pending # {} /\ ~clockDeaf' => Clock!Line \in pic'.line
<1>1. DOMAIN clock' = ClockFields /\ clock'.reg = k.reg /\ clock'.pending = clock.pending \cup events
  BY SMT DEF Clock!Happens, ClockFields
<1>2. Clock!Line \in Int
  BY SMT DEF Clock!Line
<1>3. CASE events = {}
  <2>1. pic' = pic /\ clock'.pending = clock.pending
    BY <1>1, <1>3, SMT DEF Clock!Requests
  <2> QED  BY <1>1, <2>1, Zenon DEF ClockSound
<1>4. CASE events # {}
  <2>1. pic' = Raised(pic, Clock!Line)
    BY <1>4, ClockLines, Zenon DEF Clock!Requests
  <2>2. /\ pic' \in LineType /\ Clock!Line \in pic'.line
        /\ Clock!Line \notin pic.line => Clock!Line \in pic'.irr
        /\ Clock!Line \in pic.line => pic'.irr = pic.irr
    BY <1>2, <2>1, RaisedIs, SMT DEF ClockSound
  <2> QED  BY <1>1, <2>2, Zenon DEF ClockSound
<1> QED  BY <1>3, <1>4, Zenon

\* A step that leaves the line and what is pending alone, between two readings
\* of the time or with the digits as they are.
LEMMA ClockQuiet ==
  ASSUME ClockSound, DOMAIN clock' = ClockFields, clock'.pending = clock.pending,
         UNCHANGED <<pic, clockDeaf, serving, reader>>,
         reader = Clock!Nothing \/ clock'.reg = clock.reg
  PROVE  ClockSound'
<1>1. Clock!TimeReadWhole'
  <2>1. CASE reader = Clock!Nothing
    BY <2>1, SMT DEF Clock!TimeReadWhole, Clock!Nothing, Clock!Place, Clock!Unwritten
  <2>2. CASE clock'.reg = clock.reg
    BY <2>2, Zenon DEF Clock!TimeReadWhole, ClockSound
  <2> QED  BY <2>1, <2>2
<1> QED  BY <1>1, Zenon DEF ClockSound

\* Every step of the clock, its reader and its driver.
LEMMA ClockKeeps ==
  ASSUME ClockSound, Clock!Next
  PROVE  ClockSound'
<1>0. DOMAIN clock = ClockFields
  BY Zenon DEF ClockSound
<1>1. CASE Clock!WriteTime
  BY <1>0, <1>1, ClockQuiet, SMT DEF Clock!WriteTime, Clock!Writing, ClockFields
<1>2. CASE Clock!WriteAlarm
  BY <1>0, <1>2, ClockQuiet, SMT DEF Clock!WriteAlarm, Clock!Writing, ClockFields
<1>3. CASE Clock!WriteStatusA
  BY <1>0, <1>3, ClockQuiet, SMT DEF Clock!WriteStatusA, Clock!Writing, ClockFields
<1>4. CASE Clock!WriteStatusB
  BY <1>0, <1>4, ClockQuiet, SMT DEF Clock!WriteStatusB, Clock!Writing, ClockFields
<1>5. CASE Clock!ReadStatusC
  <2>1. /\ DOMAIN clock' = ClockFields /\ clock'.pending = {} /\ clock'.reg = clock.reg
        /\ UNCHANGED reader
    BY <1>0, <1>5, SMT DEF Clock!ReadStatusC, ClockFields
  <2>2. pic' \in LineType /\ Clock!Line \notin pic'.line
    BY <1>5, ClockLines, LoweredIs, SMT DEF Clock!ReadStatusC, Clock!Quiet, ClockSound, Clock!Line
  <2> QED  BY <2>1, <2>2, Zenon DEF ClockSound, Clock!TimeReadWhole
<1>6. CASE Clock!reset
  <2>1. /\ DOMAIN clock' = ClockFields /\ clock'.pending = {} /\ clock'.reg = clock.reg
        /\ UNCHANGED <<reader, pic>>
    BY <1>0, <1>6, SMT DEF Clock!reset, Clock!Writing, ClockFields
  <2>2. Clock!Line \in pic.line => clockDeaf'
    <3> SUFFICES ASSUME Clock!Line \in pic.line PROVE clockDeaf'
      OBVIOUS
    <3>1. (Clock!Line \in pic.line) = TRUE
      OBVIOUS
    <3>2. clockDeaf' = (Clock!Line \in pic.line)
      BY <1>6, Zenon DEF Clock!reset
    <3>3. clockDeaf' = TRUE
      BY <3>1, <3>2, Zenon
    <3> QED  BY <3>3
  <2> QED  BY <2>1, <2>2, Zenon DEF ClockSound, Clock!TimeReadWhole
<1>7. CASE Clock!TakeInterrupt
  <2>1. pic' \in LineType /\ pic'.line = pic.line
    BY <1>7, ClockLines, TakenIs, SMT DEF Clock!TakeInterrupt, ClockSound, Clock!Line
  <2>2. UNCHANGED <<clock, reader, clockDeaf>> /\ serving'
    BY <1>7, SMT DEF Clock!TakeInterrupt
  <2> QED  BY <2>1, <2>2, Zenon DEF ClockSound, Clock!TimeReadWhole
<1>8. CASE Clock!ReadsTime
  <2>1. /\ DOMAIN reader' = Clock!Place /\ UNCHANGED <<clock, pic, clockDeaf, serving>>
        /\ \A p \in Clock!Place : reader'[p] \in {reader[p], clock.reg[p]}
    BY <1>8, SMT DEF Clock!ReadsTime, ClockSound
  <2> QED  BY <2>1, SMT DEF ClockSound, Clock!TimeReadWhole
<1>9. CASE Clock!HasRead
  <2>1. UNCHANGED <<clock, pic, clockDeaf, serving>> /\ reader' = Clock!Nothing
    BY <1>9, Zenon DEF Clock!HasRead
  <2>2. DOMAIN reader' = Clock!Place /\ Clock!TimeReadWhole'
    BY <2>1, SMT DEF Clock!TimeReadWhole, Clock!Nothing, Clock!Unwritten
  <2> QED  BY <2>1, <2>2, Zenon DEF ClockSound
<1>10. CASE Clock!periodic_timer
  <2> DEFINE now == {"periodic"} \cap clock.enabled
  <2>1. clock' = Clock!Happens(clock, now) /\ pic' = Clock!Requests(now) /\ UNCHANGED <<reader, clockDeaf, serving>>
    BY <1>10, Zenon DEF Clock!periodic_timer
  <2> HIDE DEF now
  <2>2. /\ DOMAIN clock' = ClockFields /\ clock'.reg = clock.reg /\ pic' \in LineType
        /\ Clock!Line \in pic'.line /\ ~clockDeaf' => Clock!Line \in pic'.irr \/ serving'
        /\ clock'.pending # {} /\ ~clockDeaf' => Clock!Line \in pic'.line
    BY <1>0, <2>1, ClockHappens, Zenon
  <2> QED  BY <2>1, <2>2, Zenon DEF ClockSound, Clock!TimeReadWhole
<1>11. CASE Clock!one_second_timer
  <2>1. /\ DOMAIN clock' = ClockFields /\ clock'.pending = clock.pending /\ clock'.reg = clock.reg
        /\ UNCHANGED <<reader, pic, clockDeaf, serving>>
    <3> DEFINE later == [clock EXCEPT !.timeval = (@ + 1) % (DigitValues * DigitValues)]
    <3>1. DOMAIN later = ClockFields /\ later.pending = clock.pending /\ later.reg = clock.reg
      BY <1>0, SMT DEF ClockFields
    <3>2. clock' \in {clock, later, Clock!Flagged(later)} /\ UNCHANGED <<reader, pic, clockDeaf, serving>>
      BY <1>11, Zenon DEF Clock!one_second_timer
    <3> HIDE DEF later
    <3> QED  BY <1>0, <3>1, <3>2, SMT DEF Clock!Flagged, ClockFields
  <2> QED  BY <2>1, ClockQuiet, Zenon
<1>12. CASE Clock!uip_timer
  <2> DEFINE updated == [clock EXCEPT !.reg = Clock!Shown(clock.timeval), !.uip = FALSE]
             now == clock.enabled \cap ({"update"} \cup (IF updated.reg.low = clock.alarm THEN {"alarm"} ELSE {}))
  <2>1. /\ clock' = Clock!Happens(updated, now) /\ pic' = Clock!Requests(now) /\ reader = Clock!Nothing
        /\ UNCHANGED <<reader, clockDeaf, serving>>
    BY <1>12, Zenon DEF Clock!uip_timer
  <2>2. DOMAIN updated = ClockFields /\ updated.pending = clock.pending
    BY <1>0, SMT DEF ClockFields
  <2> HIDE DEF updated, now
  <2>3. /\ DOMAIN clock' = ClockFields /\ pic' \in LineType
        /\ Clock!Line \in pic'.line /\ ~clockDeaf' => Clock!Line \in pic'.irr \/ serving'
        /\ clock'.pending # {} /\ ~clockDeaf' => Clock!Line \in pic'.line
    BY <2>1, <2>2, ClockHappens, Zenon
  <2>4. Clock!TimeReadWhole'
    BY <2>1, SMT DEF Clock!TimeReadWhole, Clock!Nothing, Clock!Place, Clock!Unwritten
  <2> QED  BY <2>1, <2>3, <2>4, Zenon DEF ClockSound
<1> QED  BY <1>1, <1>2, <1>3, <1>4, <1>5, <1>6, <1>7, <1>8, <1>9, <1>10, <1>11, <1>12, Zenon DEF Clock!Next

\* The clock and its reader as they begin.
LEMMA ClockStarts ==
  ASSUME Clock!Init
  PROVE  ClockSound
<1>1. /\ DOMAIN clock = ClockFields /\ clock.pending = {} /\ DOMAIN reader = Clock!Place
      /\ reader = Clock!Nothing
  BY SMT DEF Clock!Init, ClockFields, Clock!Nothing
<1>2. pic \in LineType /\ pic.line = {}
  BY SMT DEF Clock!Init, Clock!NoIrq, LineType
<1>3. Clock!TimeReadWhole
  BY <1>1, SMT DEF Clock!TimeReadWhole, Clock!Nothing, Clock!Place, Clock!Unwritten
<1> QED  BY <1>1, <1>2, <1>3, Zenon DEF ClockSound

-----------------------------------------------------------------------------
(* The sound card, on the DMA controllers that it shares with the floppy   *)
(* disk controller.                                                        *)

DspFields == {"mode", "wide", "count", "block", "highspeed", "timer", "irqpending", "kinds"}
PlayerFields == {"does", "wide", "again", "block", "serving"}

\* The line is high for as long as a kind of interrupt is left to acknowledge, and
\* its rise is requested or being served; a reset may leave it high with nothing to
\* acknowledge.
SoundSound ==
  /\ DOMAIN dsp = DspFields /\ DOMAIN player = PlayerFields /\ pic \in LineType
  /\ soundDeaf => 5 \in pic.line
  /\ ~soundDeaf /\ 5 \in pic.line => dsp.irqpending /\ dsp.kinds # {} /\ (5 \in pic.irr \/ player.serving)
  /\ ~soundDeaf /\ dsp.irqpending => 5 \in pic.line

\* Nothing happens to line 5.
OtherLine(p, q) == q \in LineType /\ (5 \in q.line <=> 5 \in p.line) /\ (5 \in q.irr <=> 5 \in p.irr)

\* The sound card's operations on its line.
LEMMA SoundLines ==
  ASSUME NEW p, NEW i
  PROVE  /\ Sound!raise_irq(p, i) = Raised(p, i) /\ Sound!lower_irq(p, i) = Lowered(p, i)
         /\ Sound!take_irq(p, i) = Taken(p, i)
  BY Zenon DEF Sound!raise_irq, Sound!lower_irq, Sound!take_irq, Raised, Lowered, Taken

\* The floppy disk controller's operations on its line, 6, leave line 5 alone.
LEMMA FloppyLines ==
  ASSUME NEW p \in LineType
  PROVE  /\ OtherLine(p, p) /\ OtherLine(p, Sound!raise_irq(p, 6)) /\ OtherLine(p, Sound!lower_irq(p, 6))
         /\ OtherLine(p, Sound!take_irq(p, 6)) /\ OtherLine(p, Sound!raise_irq(Sound!lower_irq(p, 6), 6))
<1>1. ASSUME NEW q \in LineType PROVE OtherLine(q, q) /\ OtherLine(q, Raised(q, 6)) /\ OtherLine(q, Lowered(q, 6))
  <2>1. OtherLine(q, Raised(q, 6))
    <3>1. /\ Raised(q, 6) \in LineType /\ Raised(q, 6).line = q.line \cup {6}
          /\ Raised(q, 6).irr \in {q.irr, q.irr \cup {6}}
      BY RaisedIs, SMT
    <3> QED  BY <3>1, SMT DEF OtherLine
  <2>2. OtherLine(q, Lowered(q, 6))
    <3>1. /\ Lowered(q, 6) \in LineType /\ Lowered(q, 6).line = q.line \ {6}
          /\ Lowered(q, 6).irr = q.irr \ {6}
      BY LoweredIs, SMT
    <3> QED  BY <3>1, SMT DEF OtherLine
  <2> QED  BY <2>1, <2>2, Zenon DEF OtherLine
<1>2. OtherLine(p, Taken(p, 6))
  BY TakenIs, SMT DEF OtherLine
<1>3. Lowered(p, 6) \in LineType
  BY LoweredIs, SMT
<1>4. OtherLine(p, Raised(Lowered(p, 6), 6))
  <2>1. OtherLine(p, Lowered(p, 6)) /\ OtherLine(Lowered(p, 6), Raised(Lowered(p, 6), 6))
    BY <1>1, <1>3, Zenon
  <2> QED  BY <2>1, Zenon DEF OtherLine
<1> QED  BY <1>1, <1>2, <1>4, SoundLines, Zenon

\* The floppy disk controller changes its own line only.
LEMMA FloppyIsOther ==
  ASSUME pic \in LineType, Sound!FloppyNext
  PROVE  OtherLine(pic, pic')
<1> USE DEF Sound!FloppyIrq
<1>1. ASSUME NEW f PROVE OtherLine(pic, Sound!InterruptOf(f, pic))
  BY FloppyLines, Zenon DEF Sound!InterruptOf
<1>2. CASE Sound!GetStatus \/ Sound!Seek \/ Sound!ReadId \/ Sound!EndReset \/ Sound!Sense
  BY <1>2, FloppyLines, Zenon DEF Sound!GetStatus, Sound!Seek, Sound!ReadId, Sound!EndReset, Sound!Sense, Sound!Quietly
<1>3. CASE Sound!Prepare \/ Sound!StartReset
  BY <1>3, FloppyLines, Zenon DEF Sound!Prepare, Sound!StartReset
<1>4. CASE Sound!Transfer
  BY <1>4, <1>1, FloppyLines, Zenon DEF Sound!Transfer, Sound!Fails
<1>5. CASE Sound!Format
  BY <1>5, <1>1, FloppyLines, Zenon DEF Sound!Format, Sound!Fails
<1>6. CASE Sound!TakeFloppyInterrupt
  BY <1>6, FloppyLines, Zenon DEF Sound!TakeFloppyInterrupt
<1>7. CASE Sound!ReadResult
  BY <1>7, FloppyLines, Zenon DEF Sound!ReadResult
<1>8. CASE Sound!timer
  BY <1>8, <1>1, FloppyLines, Zenon DEF Sound!timer
<1> QED  BY <1>2, <1>3, <1>4, <1>5, <1>6, <1>7, <1>8, Zenon DEF Sound!FloppyNext

\* Nor does a datum of the disk.
LEMMA FloppyMovesOther ==
  ASSUME pic \in LineType, NEW d, NEW atEnd, Sound!FloppyMoves(d, atEnd)
  PROVE  OtherLine(pic, pic')
<1> USE DEF Sound!FloppyIrq
<1>1. ASSUME NEW f PROVE OtherLine(pic, Sound!InterruptOf(f, pic))
  BY FloppyLines, Zenon DEF Sound!InterruptOf
<1>2. CASE Sound!FromDisk(atEnd)
  BY <1>1, <1>2, FloppyLines, Zenon DEF Sound!FromDisk, Sound!Done
<1>3. CASE Sound!ToDisk(atEnd)
  BY <1>1, <1>3, FloppyLines, Zenon DEF Sound!ToDisk, Sound!Done, Sound!Fails
<1> QED  BY <1>2, <1>3, Zenon DEF Sound!FloppyMoves

\* A step that leaves the line, what it announces and who serves it as they are.
LEMMA SoundQuiet ==
  ASSUME SoundSound, OtherLine(pic, pic'), DOMAIN dsp' = DspFields, DOMAIN player' = PlayerFields,
         dsp'.irqpending = dsp.irqpending, dsp'.kinds = dsp.kinds, player'.serving = player.serving,
         UNCHANGED soundDeaf
  PROVE  SoundSound'
  BY Zenon DEF SoundSound, OtherLine

\* A step that announces a kind of interrupt.
LEMMA SoundAnnounces ==
  ASSUME SoundSound, DOMAIN dsp' = DspFields, dsp'.irqpending = TRUE, dsp'.kinds # {}, Sound!Raises,
         UNCHANGED <<player, soundDeaf>>
  PROVE  SoundSound'
<1>1. pic' = Raised(pic, 5)
  BY SoundLines, Zenon DEF Sound!Raises, Sound!SoundIrq
<1>2. /\ pic' \in LineType /\ 5 \in pic'.line
      /\ 5 \notin pic.line => 5 \in pic'.irr
      /\ 5 \in pic.line => pic'.irr = pic.irr
  BY <1>1, RaisedIs, SMT DEF SoundSound
<1> QED  BY <1>2, Zenon DEF SoundSound

\* The end of a block is announced.
LEMMA DmaDone ==
  ASSUME NEW f, DOMAIN f = DspFields, NEW r, r = Sound!dsp_dmadone(f)
  PROVE  DOMAIN r = DspFields /\ r.irqpending = TRUE /\ r.kinds # {}
<1> DEFINE a == Sound!Announced(f)
<1>1. DOMAIN a = DspFields /\ a.irqpending = TRUE /\ Sound!Kind(f.wide) \in a.kinds
  BY SMT DEF Sound!Announced, DspFields
<1> HIDE DEF a
<1>2. \/ r = [a EXCEPT !.count = Sound!BytesOf(f.block, f.wide) - 1]
      \/ r = [a EXCEPT !.mode = 0, !.timer = FALSE]
  BY Zenon DEF Sound!dsp_dmadone, a
<1>3. DOMAIN r = DspFields /\ r.irqpending = a.irqpending /\ r.kinds = a.kinds
  <2>1. CASE r = [a EXCEPT !.count = Sound!BytesOf(f.block, f.wide) - 1]
    BY <1>1, <2>1, SMT DEF DspFields
  <2>2. CASE r = [a EXCEPT !.mode = 0, !.timer = FALSE]
    BY <1>1, <2>2, SMT DEF DspFields
  <2> QED  BY <1>2, <2>1, <2>2, Zenon
<1> QED  BY <1>1, <1>3, SMT

\* A sample that DMA moves: the last one of a block raises the line.
LEMMA PlayedKeeps ==
  ASSUME SoundSound, NEW d, NEW channel, NEW atEnd, Sound!Played(d, channel, atEnd)
  PROVE  SoundSound'
<1> DEFINE f == [dsp EXCEPT !.count = @ - 1]
<1>1. DOMAIN f = DspFields /\ f.irqpending = dsp.irqpending /\ f.kinds = dsp.kinds
  BY SMT DEF SoundSound, DspFields
<1>2. \/ dsp' = f /\ UNCHANGED pic
      \/ dsp' = Sound!dsp_dmadone(f) /\ Sound!Raises
  BY Zenon DEF Sound!Played
<1>3. UNCHANGED <<player, soundDeaf>>
  BY Zenon DEF Sound!Played
<1> HIDE DEF f
<1>4. CASE dsp' = f /\ UNCHANGED pic
  BY <1>1, <1>3, <1>4, Zenon DEF SoundSound
<1>5. CASE dsp' = Sound!dsp_dmadone(f) /\ Sound!Raises
  BY <1>1, <1>3, <1>5, DmaDone, SoundAnnounces, Zenon
<1> QED  BY <1>2, <1>4, <1>5

\* dsp_reset forgets what is pending, and the history tells whether the line stayed high.
LEMMA ResetKeeps ==
  ASSUME SoundSound, Sound!dsp_reset
  PROVE  SoundSound'
<1>1. CASE dsp.highspeed
  <2>1. dsp' = [dsp EXCEPT !.highspeed = FALSE] /\ UNCHANGED <<pic, soundDeaf, player>>
    BY <1>1, Zenon DEF Sound!dsp_reset
  <2>2. DOMAIN dsp' = DspFields /\ dsp'.irqpending = dsp.irqpending /\ dsp'.kinds = dsp.kinds
    BY <2>1, SMT DEF SoundSound, DspFields
  <2> QED  BY <2>1, <2>2, Zenon DEF SoundSound
<1>2. CASE ~dsp.highspeed
  <2> DEFINE low == IF dsp.irqpending THEN Sound!lower_irq(pic, Sound!SoundIrq) ELSE pic
             stopped == [dsp EXCEPT !.mode = 1]
             done == IF dsp.mode # 0 THEN Sound!dsp_dmadone(stopped) ELSE dsp
  <2>1. /\ dsp' = [done EXCEPT !.irqpending = FALSE, !.mode = 0, !.count = 0]
        /\ pic' = IF dsp.mode # 0 THEN Sound!raise_irq(low, Sound!SoundIrq) ELSE low
        /\ soundDeaf' = (Sound!SoundIrq \in pic'.line) /\ UNCHANGED player
    BY <1>2, Zenon DEF Sound!dsp_reset
  <2>2. DOMAIN stopped = DspFields /\ DOMAIN dsp = DspFields
    BY SMT DEF SoundSound, DspFields
  <2> HIDE DEF stopped
  <2>3. DOMAIN done = DspFields
    BY <2>2, DmaDone, Zenon
  <2>4. low \in LineType
    BY SoundLines, LoweredIs, SMT DEF SoundSound, Sound!SoundIrq
  <2> HIDE DEF done, low
  <2>5. pic' \in LineType
    BY <2>1, <2>4, SoundLines, RaisedIs, SMT DEF Sound!SoundIrq
  <2>6. DOMAIN dsp' = DspFields /\ dsp'.irqpending = FALSE
    BY <2>1, <2>3, SMT DEF DspFields
  <2>7. CASE 5 \in pic'.line
    <3>1. (5 \in pic'.line) = TRUE
      BY <2>7
    <3>2. soundDeaf' = TRUE
      BY <2>1, <3>1, Zenon DEF Sound!SoundIrq
    <3> QED  BY <2>1, <2>5, <2>6, <2>7, <3>2, Zenon DEF SoundSound
  <2>8. CASE 5 \notin pic'.line
    <3>1. (5 \in pic'.line) = FALSE
      BY <2>8
    <3>2. soundDeaf' = FALSE
      BY <2>1, <3>1, Zenon DEF Sound!SoundIrq
    <3> QED  BY <2>1, <2>5, <2>6, <2>8, <3>2, Zenon DEF SoundSound
  <2> QED  BY <2>7, <2>8
<1> QED  BY <1>1, <1>2

\* The last kind that is acknowledged lowers the line.
LEMMA AcknowledgeKeeps ==
  ASSUME SoundSound, Sound!Acknowledge
  PROVE  SoundSound'
<1>1. PICK which \in dsp.kinds :
        LET f == [dsp EXCEPT !.kinds = @ \ {which}] IN
        /\ dsp' = [f EXCEPT !.irqpending = f.kinds # {}] /\ pic' = Sound!Lowers(f)
        /\ soundDeaf' = (soundDeaf /\ Sound!SoundIrq \in pic'.line)
  BY Zenon DEF Sound!Acknowledge
<1> DEFINE f == [dsp EXCEPT !.kinds = @ \ {which}]
<1>2. DOMAIN f = DspFields /\ f.irqpending = dsp.irqpending
  BY SMT DEF SoundSound, DspFields
<1>3. /\ dsp' = [f EXCEPT !.irqpending = f.kinds # {}] /\ pic' = Sound!Lowers(f)
      /\ soundDeaf' = (soundDeaf /\ Sound!SoundIrq \in pic'.line)
  BY <1>1
<1>4. player.serving /\ dsp.irqpending /\ UNCHANGED player
  BY Zenon DEF Sound!Acknowledge
<1> HIDE DEF f
<1>5. DOMAIN dsp' = DspFields /\ dsp'.kinds = f.kinds /\ dsp'.irqpending = (f.kinds # {})
  BY <1>2, <1>3, SMT DEF DspFields
<1>6. CASE f.kinds = {}
  <2>1. pic' = Lowered(pic, 5)
    BY <1>3, <1>6, SoundLines, Zenon DEF Sound!Lowers, Sound!SoundIrq
  <2>2. pic' \in LineType /\ 5 \notin pic'.line
    BY <2>1, LoweredIs, SMT DEF SoundSound
  <2>3. (f.kinds # {}) = FALSE /\ (soundDeaf /\ 5 \in pic'.line) = FALSE
    BY <1>6, <2>2
  <2>4. dsp'.irqpending = FALSE /\ soundDeaf' = FALSE
    BY <1>3, <1>5, <2>3, Zenon DEF Sound!SoundIrq
  <2> QED  BY <1>4, <1>5, <2>2, <2>4, Zenon DEF SoundSound
<1>7. CASE f.kinds # {}
  <2>1. pic' = pic
    BY <1>3, <1>7, Zenon DEF Sound!Lowers
  <2>2. 5 \in pic.line
    BY <1>4, Zenon DEF SoundSound
  <2>3. (f.kinds # {}) = TRUE
    BY <1>7
  <2>4. dsp'.irqpending = TRUE /\ dsp'.kinds # {}
    BY <1>5, <1>7, <2>3, Zenon
  <2> QED  BY <1>4, <1>5, <2>1, <2>2, <2>4, Zenon DEF SoundSound
<1> QED  BY <1>6, <1>7

\* Every step of the sound card and its driver but a sample.
LEMMA SoundNextKeeps ==
  ASSUME SoundSound, Sound!SoundNext
  PROVE  SoundSound'
<1>0. DOMAIN dsp = DspFields /\ DOMAIN player = PlayerFields /\ OtherLine(pic, pic)
  BY FloppyLines, Zenon DEF SoundSound
<1>1. CASE Sound!dsp_dmatimer
  BY <1>0, <1>1, SoundQuiet, Zenon DEF Sound!dsp_dmatimer, Sound!sound
<1>2. CASE Sound!PrepareBlock
  <2>1. UNCHANGED <<pic, dsp, soundDeaf>> /\ DOMAIN player' = PlayerFields /\ player'.serving = player.serving
    BY <1>0, <1>2, SMT DEF Sound!PrepareBlock, PlayerFields
  <2> QED  BY <1>0, <2>1, SoundQuiet, SMT
<1>3. CASE Sound!dsp_dma
  <2>1. /\ UNCHANGED <<pic, soundDeaf>> /\ DOMAIN player' = PlayerFields /\ player'.serving = player.serving
        /\ DOMAIN dsp' = DspFields /\ dsp'.irqpending = dsp.irqpending /\ dsp'.kinds = dsp.kinds
    BY <1>0, <1>3, SMT DEF Sound!dsp_dma, PlayerFields, DspFields
  <2> QED  BY <1>0, <2>1, SoundQuiet, SMT
<1>4. CASE Sound!Pause \/ Sound!Continue
  <2>1. /\ UNCHANGED <<pic, player, soundDeaf>>
        /\ DOMAIN dsp' = DspFields /\ dsp'.irqpending = dsp.irqpending /\ dsp'.kinds = dsp.kinds
    BY <1>0, <1>4, SMT DEF Sound!Pause, Sound!Continue, DspFields
  <2> QED  BY <1>0, <2>1, SoundQuiet, SMT
<1>5. CASE Sound!ExitAuto
  <2> DEFINE stopped == [dsp EXCEPT !.mode = 1]
  <2>1. DOMAIN stopped = DspFields
    BY <1>0, SMT
  <2>2. dsp' = Sound!dsp_dmadone(stopped) /\ Sound!Raises /\ UNCHANGED <<player, soundDeaf>>
    BY <1>5, Zenon DEF Sound!ExitAuto
  <2> HIDE DEF stopped
  <2> QED  BY <2>1, <2>2, DmaDone, SoundAnnounces, Zenon
<1>6. CASE Sound!TriggerIrq
  <2>1. /\ DOMAIN dsp' = DspFields /\ dsp'.irqpending = TRUE /\ 8 \in dsp'.kinds
        /\ Sound!Raises /\ UNCHANGED <<player, soundDeaf>>
    BY <1>0, <1>6, SMT DEF Sound!TriggerIrq, DspFields
  <2> QED  BY <2>1, SoundAnnounces, Zenon
<1>7. CASE Sound!StopChannel
  <2>1. UNCHANGED <<pic, dsp, soundDeaf>> /\ DOMAIN player' = PlayerFields /\ player'.serving = player.serving
    BY <1>0, <1>7, SMT DEF Sound!StopChannel, PlayerFields
  <2> QED  BY <1>0, <2>1, SoundQuiet, SMT
<1>8. CASE Sound!dsp_reset
  BY <1>8, ResetKeeps
<1>9. CASE Sound!TakeSoundInterrupt
  <2>1. DOMAIN player' = PlayerFields /\ player'.serving = TRUE /\ UNCHANGED <<dsp, soundDeaf>>
    BY <1>0, <1>9, SMT DEF Sound!TakeSoundInterrupt, PlayerFields
  <2>2. pic' \in LineType /\ pic'.line = pic.line
    BY <1>9, SoundLines, TakenIs, SMT DEF Sound!TakeSoundInterrupt, Sound!SoundIrq, SoundSound
  <2> QED  BY <2>1, <2>2, Zenon DEF SoundSound
<1>10. CASE Sound!Acknowledge
  BY <1>10, AcknowledgeKeeps
<1>11. CASE Sound!HandlerEnds
  <2>1. DOMAIN player' = PlayerFields /\ UNCHANGED <<pic, dsp, soundDeaf>> /\ (dsp.kinds = {} \/ ~dsp.irqpending)
    BY <1>0, <1>11, SMT DEF Sound!HandlerEnds, PlayerFields
  <2> QED  BY <2>1, Zenon DEF SoundSound
<1> QED  BY <1>1, <1>2, <1>3, <1>4, <1>5, <1>6, <1>7, <1>8, <1>9, <1>10, <1>11, Zenon DEF Sound!SoundNext

\* Every step of the two devices on the DMA controllers.
LEMMA SoundKeeps ==
  ASSUME SoundSound, Sound!Next
  PROVE  SoundSound'
<1>0. pic \in LineType
  BY Zenon DEF SoundSound
<1>1. CASE Sound!raise_HLDA
  <2>1. CASE \E d, atEnd : Sound!FloppyMoves(d, atEnd) /\ UNCHANGED Sound!sound
    <3>1. OtherLine(pic, pic') /\ UNCHANGED <<dsp, player, soundDeaf>>
      BY <1>0, <2>1, FloppyMovesOther, Zenon DEF Sound!sound
    <3> QED  BY <3>1, SoundQuiet, Zenon DEF SoundSound
  <2>2. CASE \E d, channel, atEnd : Sound!Played(d, channel, atEnd)
    BY <2>2, PlayedKeeps, Zenon
  <2> QED  BY <1>1, <2>1, <2>2, Zenon DEF Sound!raise_HLDA
<1>2. CASE Sound!FloppyNext /\ UNCHANGED Sound!sound
  <2>1. OtherLine(pic, pic') /\ UNCHANGED <<dsp, player, soundDeaf>>
    BY <1>0, <1>2, FloppyIsOther, Zenon DEF Sound!sound
  <2> QED  BY <2>1, SoundQuiet, Zenon DEF SoundSound
<1>3. CASE Sound!SoundNext
  BY <1>3, SoundNextKeeps
<1> QED  BY <1>1, <1>2, <1>3, Zenon DEF Sound!Next

\* The sound card as it begins.
LEMMA SoundStarts ==
  ASSUME Disks!Init
  PROVE  SoundSound
<1>1. DOMAIN dsp = DspFields /\ dsp.irqpending = FALSE /\ DOMAIN player = PlayerFields /\ soundDeaf = FALSE
  BY SMT DEF Disks!Init, Disks!SoundInit, DspFields, PlayerFields
<1>2. pic \in LineType /\ pic.line = {}
  BY SMT DEF Disks!Init, Disks!NoIrq, LineType
<1> QED  BY <1>1, <1>2, SMT DEF SoundSound

\* What is sound has the property of the run.
LEMMA SoundSays ==
  ASSUME SoundSound
  PROVE  Sound!OnlyResetDeafens
  BY Zenon DEF SoundSound, Sound!OnlyResetDeafens, Sound!SoundIrq

-----------------------------------------------------------------------------
(* The keyboard controller: its functions, from a structure to the next.   *)

KbdFields ==
  {"outb", "auxb", "kbdByte", "auxByte", "kbdClock", "auxClock", "allow", "requested", "port60",
   "timer", "tested", "ctlQ", "kbdQ", "scanning", "kbdData", "mouseQ", "mode", "savedMode", "enable",
   "delayed", "button", "mouseData", "panic"}
Datum == {"answer", "none", "mouse", "key", "motion"} \X Int

\* Packets stand in the queue of the mouse as a whole, but for what was read of the first.
Whole(q) ==
  \A j \in 1 .. Len(q) : q[j][1] = "motion" => j < Len(q) /\ (j > 1 => q[j - 1] = <<"mouse", 0>>)

\* The structure, when only the mouse's bytes leave the output buffer marked as the mouse's.
KbdOK(k) ==
  /\ DOMAIN k = KbdFields
  /\ k.auxb => k.outb
  /\ k.kbdByte \in Datum /\ k.kbdQ \in Seq(Datum)
  /\ k.mouseQ \in Seq(Datum) /\ k.delayed \in Int /\ Whole(k.mouseQ)

\* The scan codes of a queue are in order, and none is newer than n.
Ordered(q, n) ==
  /\ \A i \in 1 .. Len(q) : q[i][1] = "key" => q[i][2] <= n
  /\ \A i, j \in 1 .. Len(q) : i < j /\ q[i][1] = "key" /\ q[j][1] = "key" => q[i][2] < q[j][2]

\* The scan code of the output buffer is older than those of the queue.
Oldest(b, q, n) ==
  b[1] = "key" => b[2] <= n /\ \A i \in 1 .. Len(q) : q[i][1] = "key" => b[2] < q[i][2]

KeysIn(k, n) == Ordered(k.kbdQ, n) /\ Oldest(k.kbdByte, k.kbdQ, n)

KeysOf(k) ==
  {b[2] : b \in {d \in {k.kbdQ[j] : j \in DOMAIN k.kbdQ} : d[1] = "key"}}
  \cup (IF k.outb /\ ~k.auxb /\ k.kbdByte[1] = "key" THEN {k.kbdByte[2]} ELSE {})

\* What a function may do to the output buffer and the interrupts asked for: it
\* fills a free buffer, and then asks for the interrupt of the byte.
LineKept(k, r) ==
  /\ r.allow = k.allow /\ k.requested \subseteq r.requested
  /\ k.outb => r.outb /\ r.auxb = k.auxb
  /\ (r.outb /\ ~k.outb /\ Kbd!Reader(r) \in r.allow) => r.requested # {}

\* What it may do to the queues and to the byte.
DataKept(k, r) == KbdOK(r) /\ \A n \in Nat : KeysIn(k, n) => KeysIn(r, n)

\* Scan codes that are pending stay so.
KeysStay(k, r) == KeysOf(k) \subseteq KeysOf(r)

Kept(k, r) == LineKept(k, r) /\ DataKept(k, r) /\ KeysStay(k, r)

SameBuffer(k, r) == r.outb = k.outb /\ r.auxb = k.auxb /\ r.kbdByte = k.kbdByte
SameLine(k, r) == r.allow = k.allow /\ r.requested = k.requested
SameQueues(k, r) == r.kbdQ = k.kbdQ /\ r.mouseQ = k.mouseQ /\ r.delayed = k.delayed

\* A function that changes nothing of these.
LEMMA SameKept ==
  ASSUME NEW k, NEW r, KbdOK(k), DOMAIN r = KbdFields, SameBuffer(k, r), SameLine(k, r), SameQueues(k, r)
  PROVE  Kept(k, r)
<1>1. LineKept(k, r)
  BY Zenon DEF LineKept, SameBuffer, SameLine
<1>2. DataKept(k, r)
  BY Zenon DEF DataKept, KbdOK, KeysIn, SameBuffer, SameQueues
<1>3. KeysStay(k, r)
  <2>1. r.outb = k.outb /\ r.auxb = k.auxb /\ r.kbdByte = k.kbdByte /\ r.kbdQ = k.kbdQ
    BY Zenon DEF SameBuffer, SameQueues
  <2>2. KeysOf(r) = KeysOf(k)
    BY <2>1 DEF KeysOf
  <2> QED  BY <2>2 DEF KeysStay
<1> QED  BY <1>1, <1>2, <1>3, Zenon DEF Kept

\* What two functions in turn may do, both may.
LEMMA KeptTwice ==
  ASSUME NEW k, NEW r, NEW q, Kept(k, r), Kept(r, q)
  PROVE  Kept(k, q)
<1>1. DataKept(k, q) /\ KeysStay(k, q)
  BY Zenon DEF Kept, DataKept, KeysStay
<1>2. LineKept(k, q)
  <2>1. q.allow = k.allow /\ k.requested \subseteq q.requested /\ (k.outb => q.outb /\ q.auxb = k.auxb)
    BY Zenon DEF Kept, LineKept
  <2>2. ASSUME q.outb, ~k.outb, Kbd!Reader(q) \in q.allow PROVE q.requested # {}
    <3>1. CASE r.outb
      <4>1. q.auxb = r.auxb /\ q.allow = r.allow /\ r.requested \subseteq q.requested
        BY <3>1, Zenon DEF Kept, LineKept
      <4>2. Kbd!Reader(q) = Kbd!Reader(r)
        BY <4>1, Zenon DEF Kbd!Reader
      <4>3. r.requested # {}
        BY <2>2, <3>1, <4>1, <4>2, Zenon DEF Kept, LineKept
      <4> QED  BY <4>1, <4>3, Zenon
    <3>2. CASE ~r.outb
      BY <2>2, <3>2, Zenon DEF Kept, LineKept
    <3> QED  BY <3>1, <3>2
  <2> QED  BY <2>1, <2>2, Zenon DEF LineKept
<1> QED  BY <1>1, <1>2, Zenon DEF Kept

\* An interrupt is asked for when its command-byte bit allows it.
LEMMA RequestIs ==
  ASSUME NEW k, DOMAIN k = KbdFields, NEW i, NEW r, r = Kbd!Request(k, i)
  PROVE  /\ DOMAIN r = KbdFields /\ SameBuffer(k, r) /\ SameQueues(k, r) /\ r.allow = k.allow
         /\ i \in k.allow => r.requested = k.requested \cup {i}
         /\ i \notin k.allow => r.requested = k.requested
<1>1. CASE i \in k.allow
  <2>1. r = [k EXCEPT !.requested = k.requested \cup {i}]
    BY <1>1, Zenon DEF Kbd!Request
  <2> QED  BY <1>1, <2>1, SMT DEF KbdFields, SameBuffer, SameQueues
<1>2. CASE i \notin k.allow
  <2>1. r = k
    BY <1>2, Zenon DEF Kbd!Request
  <2> QED  BY <1>2, <2>1, Zenon DEF SameBuffer, SameQueues
<1> QED  BY <1>1, <1>2

\* The timer is started, or left alone.
LEMMA ActivateIs ==
  ASSUME NEW k, DOMAIN k = KbdFields, NEW wanted, NEW r, r = Kbd!activate_timer_if(k, wanted)
  PROVE  DOMAIN r = KbdFields /\ SameBuffer(k, r) /\ SameLine(k, r) /\ SameQueues(k, r)
<1>1. r \in {k, [k EXCEPT !.timer = TRUE]}
  BY Zenon DEF Kbd!activate_timer_if
<1>2. CASE r = k
  BY <1>2, Zenon DEF SameBuffer, SameLine, SameQueues
<1>3. CASE r = [k EXCEPT !.timer = TRUE]
  BY <1>3, SMT DEF KbdFields, SameBuffer, SameLine, SameQueues
<1> QED  BY <1>1, <1>2, <1>3

\* A free output buffer holds no scan code, so that those of the queue are all.
QueueKeys(q) == {b[2] : b \in {d \in {q[j] : j \in DOMAIN q} : d[1] = "key"}}

\* While the output buffer is free, all pending scan codes are in the queue.
LEMMA QueueKeysStay ==
  ASSUME NEW k, NEW r, ~k.outb, QueueKeys(k.kbdQ) \subseteq QueueKeys(r.kbdQ)
  PROVE  KeysStay(k, r)
<1>1. KeysOf(k) = QueueKeys(k.kbdQ)
  BY Zenon DEF KeysOf, QueueKeys
<1>2. QueueKeys(r.kbdQ) \subseteq KeysOf(r)
  BY Zenon DEF KeysOf, QueueKeys
<1> QED  BY <1>1, <1>2, Zenon DEF KeysStay

\* The buffer and the queues as far as the keys go: the byte is an answer, or none.
LEMMA NoKeyOldest ==
  ASSUME NEW q, NEW n, NEW b, b[1] # "key"
  PROVE  Oldest(b, q, n)
  BY Zenon DEF Oldest

\* An answer of the controller or of the mouse.
LEMMA ControllerEnQKept ==
  ASSUME NEW k, KbdOK(k), NEW source \in {Kbd!Kbd, Kbd!Aux}, NEW r, r = Kbd!controller_enQ(k, Kbd!Answer, source)
  PROVE  Kept(k, r)
<1>0. DOMAIN k = KbdFields
  BY Zenon DEF KbdOK
<1>1. CASE k.outb
  <2>1. r \in {[k EXCEPT !.panic = TRUE], [k EXCEPT !.ctlQ = Append(@, Kbd!Answer)]}
    BY <1>1, Zenon DEF Kbd!controller_enQ
  <2>2. DOMAIN r = KbdFields /\ SameBuffer(k, r) /\ SameLine(k, r) /\ SameQueues(k, r)
    <3>1. CASE r = [k EXCEPT !.panic = TRUE]
      BY <1>0, <3>1, SMT DEF KbdFields, SameBuffer, SameLine, SameQueues
    <3>2. CASE r = [k EXCEPT !.ctlQ = Append(@, Kbd!Answer)]
      BY <1>0, <3>2, SMT DEF KbdFields, SameBuffer, SameLine, SameQueues
    <3> QED  BY <2>1, <3>1, <3>2
  <2> QED  BY <2>2, SameKept, Zenon
<1>2. CASE ~k.outb
  <2>0. ~k.auxb
    BY <1>2, Zenon DEF KbdOK
  <2>1. Kbd!Kbd # Kbd!Aux
    BY SMT DEF Kbd!Kbd, Kbd!Aux
  <2>2. /\ DOMAIN r = KbdFields /\ r.outb = TRUE /\ SameQueues(k, r) /\ r.allow = k.allow
        /\ r.auxb = (source # Kbd!Kbd) /\ r.kbdByte \in {k.kbdByte, Kbd!Answer}
        /\ source \in k.allow => r.requested = k.requested \cup {source}
        /\ source \notin k.allow => r.requested = k.requested
    <3>1. CASE source = Kbd!Kbd
      <4> DEFINE f == [k EXCEPT !.kbdByte = Kbd!Answer, !.outb = TRUE, !.auxb = FALSE]
      <4>1. /\ DOMAIN f = KbdFields /\ f.outb = TRUE /\ f.auxb = FALSE /\ f.kbdByte = Kbd!Answer
            /\ SameQueues(k, f) /\ SameLine(k, f)
        BY <1>0, SMT DEF KbdFields, SameQueues, SameLine
      <4>2. r = Kbd!Request(f, source)
        BY <1>2, <3>1, Zenon DEF Kbd!controller_enQ
      <4>3. (source # Kbd!Kbd) = FALSE
        BY <3>1
      <4> HIDE DEF f
      <4>4. /\ DOMAIN r = KbdFields /\ SameBuffer(f, r) /\ SameQueues(f, r) /\ r.allow = f.allow
            /\ source \in f.allow => r.requested = f.requested \cup {source}
            /\ source \notin f.allow => r.requested = f.requested
        BY <4>1, <4>2, RequestIs, SMT
      <4> QED  BY <4>1, <4>3, <4>4, Zenon DEF SameBuffer, SameQueues, SameLine
    <3>2. CASE source = Kbd!Aux
      <4> DEFINE f == [k EXCEPT !.auxByte = Kbd!Answer, !.outb = TRUE, !.auxb = TRUE]
      <4>1. /\ DOMAIN f = KbdFields /\ f.outb = TRUE /\ f.auxb = TRUE /\ f.kbdByte = k.kbdByte
            /\ SameQueues(k, f) /\ SameLine(k, f)
        BY <1>0, SMT DEF KbdFields, SameQueues, SameLine
      <4>2. r = Kbd!Request(f, source)
        BY <1>2, <2>1, <3>2, Zenon DEF Kbd!controller_enQ
      <4>3. (source # Kbd!Kbd) = TRUE
        BY <2>1, <3>2
      <4> HIDE DEF f
      <4>4. /\ DOMAIN r = KbdFields /\ SameBuffer(f, r) /\ SameQueues(f, r) /\ r.allow = f.allow
            /\ source \in f.allow => r.requested = f.requested \cup {source}
            /\ source \notin f.allow => r.requested = f.requested
        BY <4>1, <4>2, RequestIs, SMT
      <4> QED  BY <4>1, <4>3, <4>4, Zenon DEF SameBuffer, SameQueues, SameLine
    <3> QED  BY <3>1, <3>2
  <2>3. LineKept(k, r)
    <3>1. Kbd!Reader(r) = source
      <4>1. CASE source = Kbd!Kbd
        <5>1. (source # Kbd!Kbd) = FALSE
          BY <4>1
        <5> QED  BY <2>2, <4>1, <5>1, Zenon DEF Kbd!Reader
      <4>2. CASE source # Kbd!Kbd
        <5>1. (source # Kbd!Kbd) = TRUE
          BY <4>2
        <5> QED  BY <2>2, <4>2, <5>1, Zenon DEF Kbd!Reader
      <4> QED  BY <4>1, <4>2
    <3>2. k.requested \subseteq r.requested
      BY <2>2, Zenon
    <3>3. source \in r.allow => r.requested # {}
      BY <2>2, Zenon
    <3> QED  BY <1>2, <2>2, <3>1, <3>2, <3>3, Zenon DEF LineKept
  <2>4. DataKept(k, r)
    <3>1. Kbd!Answer \in Datum /\ Kbd!Answer[1] # "key"
      BY SMT DEF Kbd!Answer, Datum
    <3>2. KbdOK(r)
      BY <2>2, <3>1, Zenon DEF KbdOK, SameQueues
    <3>3. ASSUME NEW n \in Nat, KeysIn(k, n) PROVE KeysIn(r, n)
      <4>1. CASE r.kbdByte = k.kbdByte
        BY <2>2, <3>3, <4>1, Zenon DEF KeysIn, SameQueues
      <4>2. CASE r.kbdByte = Kbd!Answer
        BY <2>2, <3>1, <3>3, <4>2, NoKeyOldest, Zenon DEF KeysIn, SameQueues
      <4> QED  BY <2>2, <4>1, <4>2
    <3> QED  BY <3>2, <3>3, Zenon DEF DataKept
  <2>5. KeysStay(k, r)
    BY <1>2, <2>2, QueueKeysStay, Zenon DEF SameQueues
  <2> QED  BY <2>3, <2>4, <2>5, Zenon DEF Kept
<1> QED  BY <1>1, <1>2

\* One more byte at the end of a queue.
LEMMA AppendIs ==
  ASSUME NEW q \in Seq(Datum), NEW b \in Datum
  PROVE  /\ Append(q, b) \in Seq(Datum) /\ Len(Append(q, b)) = Len(q) + 1 /\ Len(q) \in Nat
         /\ \A i \in 1 .. Len(q) : Append(q, b)[i] = q[i]
         /\ Append(q, b)[Len(q) + 1] = b
<1> DEFINE D == Datum
<1> HIDE DEF D
<1>1. q \in Seq(D) /\ b \in D
  BY DEF D
<1>2. /\ Append(q, b) \in Seq(D) /\ Len(Append(q, b)) = Len(q) + 1 /\ Len(q) \in Nat
      /\ \A i \in 1 .. Len(q) : Append(q, b)[i] = q[i]
      /\ Append(q, b)[Len(q) + 1] = b
  BY ONLY <1>1, SMT
<1> QED  BY <1>2 DEF D

\* What is left of a queue whose first byte is taken.
LEMMA TailIs ==
  ASSUME NEW q \in Seq(Datum), q # <<>>
  PROVE  /\ Tail(q) \in Seq(Datum) /\ Len(Tail(q)) = Len(q) - 1 /\ Len(q) \in Nat \ {0} /\ Head(q) = q[1]
         /\ q[1] \in Datum
         /\ \A i \in 1 .. Len(q) - 1 : Tail(q)[i] = q[i + 1]
<1> DEFINE D == Datum
<1> HIDE DEF D
<1>1. q \in Seq(D)
  BY DEF D
<1>2. /\ Tail(q) \in Seq(D) /\ Len(Tail(q)) = Len(q) - 1 /\ Len(q) \in Nat \ {0} /\ Head(q) = q[1]
      /\ q[1] \in D
      /\ \A i \in 1 .. Len(q) - 1 : Tail(q)[i] = q[i + 1]
  BY ONLY <1>1, q # <<>>, SMT
<1> QED  BY <1>2 DEF D

\* Every byte has a number.
LEMMA DatumsHaveNumbers ==
  ASSUME NEW q \in Seq(Datum)
  PROVE  \A i \in 1 .. Len(q) : q[i][2] \in Int
<1> SUFFICES ASSUME NEW i \in 1 .. Len(q) PROVE q[i][2] \in Int
  OBVIOUS
<1>1. q[i] \in Datum
  BY SMT
<1> QED  BY <1>1, SMT DEF Datum

\* The scan codes of a queue with a byte more are the same, and that of the byte.
LEMMA KeysAppended ==
  ASSUME NEW q \in Seq(Datum), NEW b \in Datum, NEW p, p = Append(q, b)
  PROVE  QueueKeys(q) \subseteq QueueKeys(p)
<1>1. DOMAIN q = 1 .. Len(q) /\ DOMAIN p = 1 .. Len(q) + 1 /\ Len(q) \in Nat
  BY AppendIs, SMT
<1>2. \A j \in 1 .. Len(q) : p[j] = q[j] /\ j \in 1 .. Len(q) + 1
  BY AppendIs, <1>1, SMT
<1>3. {q[j] : j \in DOMAIN q} \subseteq {p[j] : j \in DOMAIN p}
  BY <1>1, <1>2, Zenon
<1> QED  BY <1>3, Zenon DEF QueueKeys

\* A scan code that is newer than all, or an answer, goes to the end of the queue.
LEMMA OrderedAppended ==
  ASSUME NEW q \in Seq(Datum), NEW b \in Datum, NEW n \in Nat, NEW m \in Nat, n <= m,
         b[1] = "key" => b[2] > n /\ b[2] <= m, Ordered(q, n)
  PROVE  Ordered(Append(q, b), m)
<1> DEFINE p == Append(q, b)
<1>1. /\ Len(p) = Len(q) + 1 /\ Len(q) \in Nat
      /\ \A i \in 1 .. Len(q) : p[i] = q[i]
      /\ p[Len(q) + 1] = b
  BY AppendIs, Zenon
<1>2. \A i \in 1 .. Len(q) : q[i][2] \in Int
  <2> SUFFICES ASSUME NEW i \in 1 .. Len(q) PROVE q[i][2] \in Int
    OBVIOUS
  <2>1. q[i] \in Datum
    BY SMT
  <2> QED  BY <2>1, SMT DEF Datum
<1>3. b[2] \in Int
  BY SMT DEF Datum
<1> HIDE DEF p
<1>4. \A i \in 1 .. Len(p) : p[i][1] = "key" => p[i][2] <= m
  <2> SUFFICES ASSUME NEW i \in 1 .. Len(p), p[i][1] = "key" PROVE p[i][2] <= m
    OBVIOUS
  <2>1. CASE i \in 1 .. Len(q)
    BY <1>1, <1>2, <2>1, SMT DEF Ordered
  <2>2. CASE i = Len(q) + 1
    BY <1>1, <2>2, SMT
  <2> QED  BY <1>1, <2>1, <2>2, SMT
<1>5. ASSUME NEW i \in 1 .. Len(p), NEW j \in 1 .. Len(p), i < j, p[i][1] = "key", p[j][1] = "key"
      PROVE  p[i][2] < p[j][2]
  <2>1. i \in 1 .. Len(q) /\ (j \in 1 .. Len(q) \/ j = Len(q) + 1)
    BY <1>1, <1>5, SMT
  <2>2. CASE j \in 1 .. Len(q)
    <3>1. p[i] = q[i] /\ p[j] = q[j]
      BY <1>1, <2>1, <2>2, Zenon
    <3> QED  BY <1>5, <2>1, <2>2, <3>1, Zenon DEF Ordered
  <2>3. CASE j = Len(q) + 1
    <3>1. p[i] = q[i] /\ p[j] = b
      BY <1>1, <2>1, <2>3, Zenon
    <3>2. q[i][2] <= n
      BY <1>5, <2>1, <3>1, Zenon DEF Ordered
    <3>3. b[2] > n
      BY <1>5, <3>1, Zenon
    <3>4. q[i][2] \in Int
      BY <1>2, <2>1, Zenon
    <3> QED  BY <1>3, <3>1, <3>2, <3>3, <3>4, SMT
  <2> QED  BY <2>1, <2>2, <2>3
<1> QED  BY <1>4, <1>5, Zenon DEF Ordered, p

\* A newer scan code behind the queue leaves the byte in the buffer the oldest.
LEMMA OldestAppended ==
  ASSUME NEW q \in Seq(Datum), NEW b \in Datum, NEW n \in Nat, NEW m \in Nat, n <= m,
         b[1] = "key" => b[2] > n, NEW a \in Datum, Oldest(a, q, n)
  PROVE  Oldest(a, Append(q, b), m)
<1> DEFINE p == Append(q, b)
<1>1. /\ Len(p) = Len(q) + 1 /\ Len(q) \in Nat
      /\ \A i \in 1 .. Len(q) : p[i] = q[i]
      /\ p[Len(q) + 1] = b
  BY AppendIs, Zenon
<1>2. a[2] \in Int /\ b[2] \in Int
  BY SMT DEF Datum
<1> HIDE DEF p
<1>3. ASSUME a[1] = "key" PROVE a[2] <= m
  BY <1>2, <1>3, SMT DEF Oldest
<1>4. ASSUME a[1] = "key", NEW i \in 1 .. Len(p), p[i][1] = "key" PROVE a[2] < p[i][2]
  <2>1. CASE i \in 1 .. Len(q)
    <3>1. p[i] = q[i]
      BY <1>1, <2>1, Zenon
    <3> QED  BY <1>4, <2>1, <3>1, Zenon DEF Oldest
  <2>2. CASE i = Len(q) + 1
    <3>1. p[i] = b /\ a[2] <= n
      BY <1>1, <1>4, <2>2, Zenon DEF Oldest
    <3>2. b[2] > n
      BY <1>4, <3>1, Zenon
    <3> QED  BY <1>2, <3>1, <3>2, SMT
  <2> QED  BY <1>1, <2>1, <2>2, SMT
<1> QED  BY <1>3, <1>4, Zenon DEF Oldest, p

\* A function that changes the mouse's queue and the movement due, if anything.
LEMMA MouseKept ==
  ASSUME NEW k, NEW r, KbdOK(k), DOMAIN r = KbdFields, SameBuffer(k, r), SameLine(k, r), r.kbdQ = k.kbdQ,
         r.mouseQ \in Seq(Datum), Whole(r.mouseQ), r.delayed \in Int
  PROVE  Kept(k, r)
<1>1. LineKept(k, r)
  BY Zenon DEF LineKept, SameBuffer, SameLine
<1>2. DataKept(k, r)
  BY Zenon DEF DataKept, KbdOK, KeysIn, SameBuffer
<1>3. KeysStay(k, r)
  <2>1. r.outb = k.outb /\ r.auxb = k.auxb /\ r.kbdByte = k.kbdByte /\ r.kbdQ = k.kbdQ
    BY Zenon DEF SameBuffer
  <2>2. KeysOf(r) = KeysOf(k)
    BY <2>1 DEF KeysOf
  <2> QED  BY <2>2 DEF KeysStay
<1> QED  BY <1>1, <1>2, <1>3, Zenon DEF Kept

\* A byte of the keyboard goes to the end of its queue, or is dropped.
LEMMA EnQIs ==
  ASSUME NEW k, KbdOK(k), NEW b \in Datum, NEW r, r = Kbd!kbd_enQ(k, b)
  PROVE  /\ KbdOK(r) /\ SameBuffer(k, r) /\ SameLine(k, r) /\ KeysStay(k, r)
         /\ \A n, m \in Nat : KeysIn(k, n) /\ n <= m /\ (b[1] = "key" => b[2] > n /\ b[2] <= m) => KeysIn(r, m)
<1>0. DOMAIN k = KbdFields /\ k.kbdQ \in Seq(Datum) /\ k.kbdByte \in Datum
  BY Zenon DEF KbdOK
<1>1. CASE Len(k.kbdQ) >= KbdQueue
  <2>1. r = k
    BY <1>1, Zenon DEF Kbd!kbd_enQ
  <2>2. ASSUME NEW n \in Nat, NEW m \in Nat, n <= m, KeysIn(k, n) PROVE KeysIn(k, m)
    <3>1. k.kbdByte[2] \in Int
      BY <1>0, SMT DEF Datum
    <3>2. \A i \in 1 .. Len(k.kbdQ) : k.kbdQ[i][2] \in Int
      BY <1>0, DatumsHaveNumbers, Zenon
    <3>3. Ordered(k.kbdQ, m)
      BY <2>2, <3>2, SMT DEF KeysIn, Ordered
    <3>4. Oldest(k.kbdByte, k.kbdQ, m)
      BY <2>2, <3>1, SMT DEF KeysIn, Oldest
    <3> QED  BY <3>3, <3>4, Zenon DEF KeysIn
  <2> QED  BY <2>1, <2>2, Zenon DEF SameBuffer, SameLine, KeysStay
<1>2. CASE ~(Len(k.kbdQ) >= KbdQueue)
  <2> DEFINE f == [k EXCEPT !.kbdQ = Append(k.kbdQ, b)]
  <2>1. /\ DOMAIN f = KbdFields /\ SameBuffer(k, f) /\ SameLine(k, f) /\ f.kbdQ = Append(k.kbdQ, b)
        /\ f.mouseQ = k.mouseQ /\ f.delayed = k.delayed
    BY <1>0, SMT DEF KbdFields, SameBuffer, SameLine
  <2>2. r = Kbd!activate_timer_if(f, k.kbdClock)
    BY <1>2, Zenon DEF Kbd!kbd_enQ
  <2> HIDE DEF f
  <2>3. DOMAIN r = KbdFields /\ SameBuffer(f, r) /\ SameLine(f, r) /\ SameQueues(f, r)
    BY <2>1, <2>2, ActivateIs, SMT
  <2>4. /\ DOMAIN r = KbdFields /\ SameBuffer(k, r) /\ SameLine(k, r) /\ r.kbdQ = Append(k.kbdQ, b)
        /\ r.mouseQ = k.mouseQ /\ r.delayed = k.delayed
    BY <2>1, <2>3, Zenon DEF SameBuffer, SameLine, SameQueues
  <2>5. KbdOK(r)
    <3>1. r.kbdQ \in Seq(Datum)
      BY <1>0, <2>4, AppendIs, Zenon
    <3> QED  BY <2>4, <3>1, Zenon DEF KbdOK, SameBuffer
  <2>6. KeysStay(k, r)
    <3>1. QueueKeys(k.kbdQ) \subseteq QueueKeys(r.kbdQ)
      BY <1>0, <2>4, KeysAppended, Zenon
    <3> QED  BY <2>4, <3>1, Zenon DEF KeysStay, KeysOf, QueueKeys, SameBuffer
  <2>7. ASSUME NEW n \in Nat, NEW m \in Nat, n <= m, KeysIn(k, n), b[1] = "key" => b[2] > n /\ b[2] <= m
        PROVE  KeysIn(r, m)
    <3>1. Ordered(r.kbdQ, m)
      <4>1. Ordered(k.kbdQ, n) /\ (b[1] = "key" => b[2] > n /\ b[2] <= m)
        BY <2>7, Zenon DEF KeysIn
      <4>2. Ordered(Append(k.kbdQ, b), m)
        BY ONLY <1>0, <2>7, <4>1, b \in Datum, OrderedAppended, Zenon
      <4> QED  BY <2>4, <4>2
    <3>2. Oldest(r.kbdByte, r.kbdQ, m)
      <4>1. b[1] = "key" => b[2] > n
        BY <2>7, Zenon
      <4> QED  BY <1>0, <2>4, <2>7, <4>1, OldestAppended, Zenon DEF KeysIn, SameBuffer
    <3> QED  BY <3>1, <3>2, Zenon DEF KeysIn
  <2> QED  BY <2>4, <2>5, <2>6, <2>7, Zenon
<1> QED  BY <1>1, <1>2

\* An answer put in the keyboard's queue.
LEMMA EnQKept ==
  ASSUME NEW k, KbdOK(k), NEW r, r = Kbd!kbd_enQ(k, Kbd!Answer)
  PROVE  Kept(k, r)
<1>1. Kbd!Answer \in Datum /\ Kbd!Answer[1] # "key"
  BY SMT DEF Kbd!Answer, Datum
<1>2. /\ KbdOK(r) /\ SameBuffer(k, r) /\ SameLine(k, r) /\ KeysStay(k, r)
      /\ \A n, m \in Nat : KeysIn(k, n) /\ n <= m /\ (Kbd!Answer[1] = "key" => Kbd!Answer[2] > n /\ Kbd!Answer[2] <= m)
                           => KeysIn(r, m)
  BY <1>1, EnQIs, SMT
<1>3. \A n \in Nat : n <= n
  BY SMT
<1>4. DataKept(k, r)
  BY <1>1, <1>2, <1>3, Zenon DEF DataKept
<1>5. LineKept(k, r)
  BY <1>2, Zenon DEF LineKept, SameBuffer, SameLine
<1> QED  BY <1>2, <1>4, <1>5, Zenon DEF Kept

\* An answer that goes straight to the output buffer may take the place of a scan code.
LEMMA EnQImmKept ==
  ASSUME NEW k, KbdOK(k), NEW r, r = Kbd!kbd_enQ_imm(k, Kbd!Answer)
  PROVE  LineKept(k, r) /\ DataKept(k, r)
<1>0. DOMAIN k = KbdFields
  BY Zenon DEF KbdOK
<1>1. CASE Len(k.kbdQ) >= KbdQueue
  <2>1. r = [k EXCEPT !.panic = TRUE]
    BY <1>1, Zenon DEF Kbd!kbd_enQ_imm
  <2>2. DOMAIN r = KbdFields /\ SameBuffer(k, r) /\ SameLine(k, r) /\ SameQueues(k, r)
    BY <1>0, <2>1, SMT DEF KbdFields, SameBuffer, SameLine, SameQueues
  <2> QED  BY <2>2, SameKept, Zenon DEF Kept
<1>2. CASE ~(Len(k.kbdQ) >= KbdQueue)
  <2> DEFINE f == [k EXCEPT !.kbdByte = Kbd!Answer, !.outb = TRUE]
  <2>1. /\ DOMAIN f = KbdFields /\ f.outb = TRUE /\ f.auxb = k.auxb /\ f.kbdByte = Kbd!Answer
        /\ SameQueues(k, f) /\ SameLine(k, f)
    BY <1>0, SMT DEF KbdFields, SameQueues, SameLine
  <2>2. r = Kbd!Request(f, Kbd!Kbd)
    BY <1>2, Zenon DEF Kbd!kbd_enQ_imm
  <2> HIDE DEF f
  <2>3. /\ DOMAIN r = KbdFields /\ SameBuffer(f, r) /\ SameQueues(f, r) /\ r.allow = f.allow
        /\ Kbd!Kbd \in f.allow => r.requested = f.requested \cup {Kbd!Kbd}
        /\ Kbd!Kbd \notin f.allow => r.requested = f.requested
    BY <2>1, <2>2, RequestIs, SMT
  <2>4. /\ DOMAIN r = KbdFields /\ r.outb = TRUE /\ r.auxb = k.auxb /\ r.kbdByte = Kbd!Answer
        /\ SameQueues(k, r) /\ r.allow = k.allow
        /\ Kbd!Kbd \in k.allow => r.requested = k.requested \cup {Kbd!Kbd}
        /\ Kbd!Kbd \notin k.allow => r.requested = k.requested
    BY <2>1, <2>3, Zenon DEF SameBuffer, SameQueues, SameLine
  <2>5. LineKept(k, r)
    <3>1. ~k.outb => Kbd!Reader(r) = Kbd!Kbd
      BY <2>4, Zenon DEF KbdOK, Kbd!Reader
    <3>2. k.requested \subseteq r.requested /\ (Kbd!Kbd \in r.allow => r.requested # {})
      BY <2>4, Zenon
    <3> QED  BY <2>4, <3>1, <3>2, Zenon DEF LineKept
  <2>6. Kbd!Answer \in Datum /\ Kbd!Answer[1] # "key"
    BY SMT DEF Kbd!Answer, Datum
  <2>7. DataKept(k, r)
    BY <2>4, <2>6, NoKeyOldest, Zenon DEF DataKept, KbdOK, KeysIn, SameQueues
  <2> QED  BY <2>5, <2>7
<1> QED  BY <1>1, <1>2

\* The clocks of the two devices, and the reset of the keyboard.
LEMMA ClocksSame ==
  ASSUME NEW k, DOMAIN k = KbdFields, NEW on, NEW r, r \in {Kbd!set_kbd_clock_enable(k, on), Kbd!set_aux_clock_enable(k, on)}
  PROVE  DOMAIN r = KbdFields /\ SameBuffer(k, r) /\ SameLine(k, r) /\ SameQueues(k, r)
<1>1. CASE r = Kbd!set_kbd_clock_enable(k, on)
  <2> DEFINE f == [k EXCEPT !.kbdClock = on]
             w == on /\ ~k.kbdClock
  <2>1. DOMAIN f = KbdFields /\ SameBuffer(k, f) /\ SameLine(k, f) /\ SameQueues(k, f)
    BY SMT DEF KbdFields, SameBuffer, SameLine, SameQueues
  <2>2. r = Kbd!activate_timer_if(f, w)
    BY <1>1, Zenon DEF Kbd!set_kbd_clock_enable
  <2> HIDE DEF f, w
  <2>3. DOMAIN r = KbdFields /\ SameBuffer(f, r) /\ SameLine(f, r) /\ SameQueues(f, r)
    BY <2>1, <2>2, ActivateIs, SMT
  <2> QED  BY <2>1, <2>3, Zenon DEF SameBuffer, SameLine, SameQueues
<1>2. CASE r = Kbd!set_aux_clock_enable(k, on)
  <2> DEFINE f == [k EXCEPT !.auxClock = on]
             w == on /\ ~k.auxClock
  <2>1. DOMAIN f = KbdFields /\ SameBuffer(k, f) /\ SameLine(k, f) /\ SameQueues(k, f)
    BY SMT DEF KbdFields, SameBuffer, SameLine, SameQueues
  <2>2. r = Kbd!activate_timer_if(f, w)
    BY <1>2, Zenon DEF Kbd!set_aux_clock_enable
  <2> HIDE DEF f, w
  <2>3. DOMAIN r = KbdFields /\ SameBuffer(f, r) /\ SameLine(f, r) /\ SameQueues(f, r)
    BY <2>1, <2>2, ActivateIs, SMT
  <2> QED  BY <2>1, <2>3, Zenon DEF SameBuffer, SameLine, SameQueues
<1> QED  BY <1>1, <1>2

\* The keyboard's own reset empties its queue and touches nothing else.
LEMMA ResetInternalsKept ==
  ASSUME NEW k, KbdOK(k), NEW r, r = Kbd!resetinternals(k)
  PROVE  LineKept(k, r) /\ DataKept(k, r)
<1>1. /\ DOMAIN r = KbdFields /\ SameBuffer(k, r) /\ SameLine(k, r) /\ r.kbdQ = <<>>
      /\ r.mouseQ = k.mouseQ /\ r.delayed = k.delayed
  BY SMT DEF KbdOK, KbdFields, SameBuffer, SameLine, Kbd!resetinternals
<1>2. LineKept(k, r)
  BY <1>1, Zenon DEF LineKept, SameBuffer, SameLine
<1>3. r.kbdQ \in Seq(Datum) /\ 1 .. Len(r.kbdQ) = {}
  <2>1. <<>> \in Seq(Datum) /\ Len(<<>>) = 0
    BY SMT
  <2>2. 1 .. 0 = {}
    BY SMT
  <2> QED  BY <1>1, <2>1, <2>2, SMT
<1>4. KbdOK(r)
  BY <1>1, <1>3, Zenon DEF KbdOK, SameBuffer
<1>5. ASSUME NEW n \in Nat, KeysIn(k, n) PROVE KeysIn(r, n)
  BY <1>1, <1>3, <1>5, Zenon DEF KeysIn, Ordered, Oldest, SameBuffer
<1> QED  BY <1>2, <1>4, <1>5, Zenon DEF DataKept

\* The mouse: a packet goes to the queue as a whole.
LEMMA PacketIs ==
  ASSUME NEW d \in Int, NEW p, p = SubSeq(Kbd!Packet(d), 1, 3)
  PROVE  p \in Seq(Datum) /\ Len(p) = 3 /\ p[1] = <<"mouse", 0>> /\ p[2] = <<"motion", d>> /\ p[3] = <<"mouse", 0>>
<1> DEFINE D == Datum
           a == <<"mouse", 0>>
           b == <<"motion", d>>
<1>1. a \in D /\ b \in D
  BY SMT DEF Datum
<1>2. p = SubSeq(<<a, b, a>>, 1, 3)
  BY DEF Kbd!Packet
<1> HIDE DEF D, a, b
<1>3. <<a, b, a>> \in Seq(D) /\ Len(<<a, b, a>>) = 3
  BY ONLY <1>1, SMT
<1>4. p \in Seq(D) /\ Len(p) = 3 /\ \A i \in 1 .. 3 : p[i] = <<a, b, a>>[i]
  BY ONLY <1>2, <1>3, SMT
<1>5. p[1] = a /\ p[2] = b /\ p[3] = a
  BY <1>4, SMT
<1> QED  BY <1>4, <1>5 DEF D, a, b

\* Two queues joined.
LEMMA JoinIs ==
  ASSUME NEW q \in Seq(Datum), NEW p \in Seq(Datum), NEW r, r = q \o p
  PROVE  /\ r \in Seq(Datum) /\ Len(r) = Len(q) + Len(p) /\ Len(q) \in Nat
         /\ \A i \in 1 .. Len(q) : r[i] = q[i]
         /\ \A i \in 1 .. Len(p) : r[Len(q) + i] = p[i]
<1> DEFINE D == Datum
<1> HIDE DEF D
<1>1. q \in Seq(D) /\ p \in Seq(D)
  BY DEF D
<1>2. /\ r \in Seq(D) /\ Len(r) = Len(q) + Len(p) /\ Len(q) \in Nat
      /\ \A i \in 1 .. Len(q) : r[i] = q[i]
      /\ \A i \in 1 .. Len(p) : r[Len(q) + i] = p[i]
  BY ONLY <1>1, r = q \o p, SMT
<1> QED  BY <1>2 DEF D

\* A queue of whole packets, and a packet behind it.
LEMMA PacketJoined ==
  ASSUME NEW q \in Seq(Datum), Whole(q), NEW d \in Int, NEW r, r = q \o SubSeq(Kbd!Packet(d), 1, 3)
  PROVE  r \in Seq(Datum) /\ Whole(r)
<1> DEFINE p == SubSeq(Kbd!Packet(d), 1, 3)
<1>1. p \in Seq(Datum) /\ Len(p) = 3 /\ p[1] = <<"mouse", 0>> /\ p[2] = <<"motion", d>> /\ p[3] = <<"mouse", 0>>
  BY PacketIs, Zenon
<1> HIDE DEF p
<1>2. /\ r \in Seq(Datum) /\ Len(r) = Len(q) + Len(p) /\ Len(q) \in Nat
      /\ \A i \in 1 .. Len(q) : r[i] = q[i]
      /\ \A i \in 1 .. Len(p) : r[Len(q) + i] = p[i]
  <2>1. r = q \o p
    BY DEF p
  <2> QED  BY <1>1, <2>1, JoinIs, SMT
<1> DEFINE n == Len(q)
<1>3. /\ Len(r) = n + 3 /\ n \in Nat
      /\ r[n + 1] = <<"mouse", 0>> /\ r[n + 2] = <<"motion", d>> /\ r[n + 3] = <<"mouse", 0>>
  BY <1>1, <1>2, SMT
<1>4. ASSUME NEW j \in 1 .. Len(r), r[j][1] = "motion"
      PROVE  j < Len(r) /\ (j > 1 => r[j - 1] = <<"mouse", 0>>)
  <2>1. CASE j \in 1 .. n
    <3>1. q[j][1] = "motion" /\ j < n + 3
      BY <1>2, <1>4, <2>1, SMT
    <3>2. ASSUME j > 1 PROVE r[j - 1] = <<"mouse", 0>>
      <4>1. j - 1 \in 1 .. n
        BY <2>1, <3>2, SMT
      <4>2. r[j - 1] = q[j - 1]
        BY <1>2, <4>1, Zenon
      <4> QED  BY <2>1, <3>1, <3>2, <4>2, Zenon DEF Whole
    <3> QED  BY <1>3, <3>1, <3>2, SMT
  <2>2. CASE j \notin 1 .. n
    <3>1. j \in {n + 1, n + 2, n + 3}
      BY <1>3, <2>2, SMT
    <3>2. r[n + 1][1] # "motion" /\ r[n + 3][1] # "motion"
      BY <1>3, SMT
    <3>3. j = n + 2
      BY <1>4, <3>1, <3>2, Zenon
    <3>4. j < Len(r) /\ j - 1 = n + 1
      BY <1>3, <3>3, SMT
    <3> QED  BY <1>3, <3>4, Zenon
  <2> QED  BY <2>1, <2>2
<1> QED  BY <1>2, <1>4, Zenon DEF Whole

\* A packet is put in the mouse's queue, or dropped, entirely.
LEMMA PacketKept ==
  ASSUME NEW k, KbdOK(k), NEW d \in Int, NEW r, r = Kbd!mouse_enQ_packet(k, d)
  PROVE  Kept(k, r) /\ r.kbdQ = k.kbdQ
<1>0. DOMAIN k = KbdFields /\ k.mouseQ \in Seq(Datum) /\ k.delayed \in Int /\ Whole(k.mouseQ)
  BY Zenon DEF KbdOK
<1>1. CASE ~Kbd!RoomForPacket(k)
  <2>1. r = k
    BY <1>1, Zenon DEF Kbd!mouse_enQ_packet
  <2> QED  BY <1>0, <2>1, SameKept, Zenon DEF SameBuffer, SameLine, SameQueues
<1>2. CASE Kbd!RoomForPacket(k)
  <2>1. MouseQueue \in Nat
    BY ConstantsAssumption, SMT DEF Kbd!ConstantsOK
  <2>2. Len(k.mouseQ) \in Nat
    BY <1>0, JoinIs, Zenon
  <2>3. ~(MouseQueue - Len(k.mouseQ) < 3)
    BY <1>2, <2>1, <2>2, SMT DEF Kbd!RoomForPacket
  <2> DEFINE q == k.mouseQ \o SubSeq(Kbd!Packet(d), 1, 3)
             f == [k EXCEPT !.mouseQ = q]
  <2>4. r = Kbd!activate_timer_if(f, k.auxClock)
    BY <1>2, <2>3, Zenon DEF Kbd!mouse_enQ_packet
  <2>5. q \in Seq(Datum) /\ Whole(q)
    BY <1>0, PacketJoined, Zenon
  <2> HIDE DEF q
  <2>6. /\ DOMAIN f = KbdFields /\ SameBuffer(k, f) /\ SameLine(k, f) /\ f.kbdQ = k.kbdQ /\ f.mouseQ = q
        /\ f.delayed = k.delayed
    BY <1>0, SMT DEF KbdFields, SameBuffer, SameLine
  <2> HIDE DEF f
  <2>7. DOMAIN r = KbdFields /\ SameBuffer(f, r) /\ SameLine(f, r) /\ SameQueues(f, r)
    BY <2>4, <2>6, ActivateIs, SMT
  <2>8. /\ DOMAIN r = KbdFields /\ SameBuffer(k, r) /\ SameLine(k, r) /\ r.kbdQ = k.kbdQ /\ r.mouseQ = q
        /\ r.delayed = k.delayed
    BY <2>6, <2>7, Zenon DEF SameBuffer, SameLine, SameQueues
  <2> QED  BY <1>0, <2>5, <2>8, MouseKept, Zenon
<1> QED  BY <1>1, <1>2

\* A packet is made of the movement that has piled up.
LEMMA CreateKept ==
  ASSUME NEW k, KbdOK(k), NEW force, NEW r, r = Kbd!create_mouse_packet(k, force)
  PROVE  Kept(k, r) /\ r.kbdQ = k.kbdQ
<1> DEFINE d == IF k.delayed > PacketMost THEN PacketMost
                ELSE IF k.delayed < -PacketMost THEN -PacketMost ELSE k.delayed
           f == [k EXCEPT !.delayed = @ - d]
<1>0. DOMAIN k = KbdFields /\ k.mouseQ \in Seq(Datum) /\ k.delayed \in Int /\ Whole(k.mouseQ)
  BY Zenon DEF KbdOK
<1>1. PacketMost \in Nat
  BY ConstantsAssumption, SMT DEF Kbd!ConstantsOK
<1>2. d \in Int
  BY <1>0, <1>1, SMT
<1>3. r = k \/ r = Kbd!mouse_enQ_packet(f, d)
  BY Zenon DEF Kbd!create_mouse_packet
<1> HIDE DEF d
<1>4. /\ DOMAIN f = KbdFields /\ SameBuffer(k, f) /\ SameLine(k, f) /\ f.kbdQ = k.kbdQ /\ f.mouseQ = k.mouseQ
      /\ f.delayed \in Int
  BY <1>0, <1>2, SMT DEF KbdFields, SameBuffer, SameLine
<1> HIDE DEF f
<1>5. Kept(k, f)
  BY <1>0, <1>4, MouseKept, Zenon
<1>6. CASE r = k
  BY <1>0, <1>6, SameKept, Zenon DEF SameBuffer, SameLine, SameQueues
<1>7. CASE r = Kbd!mouse_enQ_packet(f, d)
  <2>1. KbdOK(f)
    BY <1>5, Zenon DEF Kept, DataKept
  <2>2. Kept(f, r) /\ r.kbdQ = f.kbdQ
    BY <1>2, <1>7, <2>1, PacketKept, SMT
  <2> QED  BY <1>4, <1>5, <2>2, KeptTwice, Zenon
<1> QED  BY <1>3, <1>6, <1>7

\* A setting that is stored: nothing else changes.
Plain(k, r) == DOMAIN r = KbdFields /\ SameBuffer(k, r) /\ SameLine(k, r) /\ SameQueues(k, r)

\* A function that leaves buffer, interrupts and queues alone.
LEMMA PlainKept ==
  ASSUME NEW k, NEW r, KbdOK(k), Plain(k, r)
  PROVE  KbdOK(r) /\ Kept(k, r)
<1>1. Kept(k, r)
  BY SameKept, Zenon DEF Plain
<1> QED  BY <1>1, Zenon DEF Kept, DataKept

\* The controller's other registers.
LEMMA StoredPlain ==
  ASSUME NEW k, DOMAIN k = KbdFields, NEW v,
         NEW r \in {[k EXCEPT !.kbdData = v], [k EXCEPT !.scanning = v], [k EXCEPT !.mouseData = v],
                    [k EXCEPT !.mode = v], [k EXCEPT !.savedMode = v], [k EXCEPT !.enable = v],
                    [k EXCEPT !.panic = v], [k EXCEPT !.port60 = v], [k EXCEPT !.button = v],
                    [k EXCEPT !.timer = v]}
  PROVE  Plain(k, r)
<1>1. CASE r = [k EXCEPT !.kbdData = v]
  BY <1>1, SMT DEF Plain, KbdFields, SameBuffer, SameLine, SameQueues
<1>2. CASE r = [k EXCEPT !.scanning = v]
  BY <1>2, SMT DEF Plain, KbdFields, SameBuffer, SameLine, SameQueues
<1>3. CASE r = [k EXCEPT !.mouseData = v]
  BY <1>3, SMT DEF Plain, KbdFields, SameBuffer, SameLine, SameQueues
<1>4. CASE r = [k EXCEPT !.mode = v]
  BY <1>4, SMT DEF Plain, KbdFields, SameBuffer, SameLine, SameQueues
<1>5. CASE r = [k EXCEPT !.savedMode = v]
  BY <1>5, SMT DEF Plain, KbdFields, SameBuffer, SameLine, SameQueues
<1>6. CASE r = [k EXCEPT !.enable = v]
  BY <1>6, SMT DEF Plain, KbdFields, SameBuffer, SameLine, SameQueues
<1>7. CASE r = [k EXCEPT !.panic = v]
  BY <1>7, SMT DEF Plain, KbdFields, SameBuffer, SameLine, SameQueues
<1>8. CASE r = [k EXCEPT !.port60 = v]
  BY <1>8, SMT DEF Plain, KbdFields, SameBuffer, SameLine, SameQueues
<1>9. CASE r = [k EXCEPT !.button = v]
  BY <1>9, SMT DEF Plain, KbdFields, SameBuffer, SameLine, SameQueues
<1>10. CASE r = [k EXCEPT !.timer = v]
  BY <1>10, SMT DEF Plain, KbdFields, SameBuffer, SameLine, SameQueues
<1> QED  BY <1>1, <1>2, <1>3, <1>4, <1>5, <1>6, <1>7, <1>8, <1>9, <1>10, Zenon

\* A byte sent to the keyboard: it answers, and the commands that reset it, and
\* those that answer at once, are the only ones that lose scan codes.
Loses == {"f5", "f6", "ff", "ed", "05"}

\* A function that may lose scan codes, followed by one that may not.
LEMMA KeptIn ==
  ASSUME NEW k, NEW f, NEW r, KbdOK(f), LineKept(k, f), DataKept(k, f), Kept(f, r)
  PROVE  KbdOK(r) /\ LineKept(k, r) /\ DataKept(k, r)
<1>1. LineKept(k, r)
  <2>1. r.allow = k.allow /\ k.requested \subseteq r.requested /\ (k.outb => r.outb /\ r.auxb = k.auxb)
    BY Zenon DEF Kept, LineKept
  <2>2. ASSUME r.outb, ~k.outb, Kbd!Reader(r) \in r.allow PROVE r.requested # {}
    <3>1. CASE f.outb
      <4>1. r.auxb = f.auxb /\ r.allow = f.allow /\ f.requested \subseteq r.requested
        BY <3>1, Zenon DEF Kept, LineKept
      <4>2. Kbd!Reader(r) = Kbd!Reader(f)
        BY <4>1, Zenon DEF Kbd!Reader
      <4>3. f.requested # {}
        BY <2>2, <3>1, <4>1, <4>2, Zenon DEF LineKept
      <4> QED  BY <4>1, <4>3, Zenon
    <3>2. CASE ~f.outb
      BY <2>2, <3>2, Zenon DEF Kept, LineKept
    <3> QED  BY <3>1, <3>2
  <2> QED  BY <2>1, <2>2, Zenon DEF LineKept
<1> QED  BY <1>1, Zenon DEF Kept, DataKept

\* An answer, before or after something else.
LEMMA EnQ1 ==
  ASSUME NEW k, NEW f, NEW r, KbdOK(f), LineKept(k, f), DataKept(k, f), r = Kbd!kbd_enQ(f, Kbd!Answer)
  PROVE  /\ KbdOK(r) /\ LineKept(k, r) /\ DataKept(k, r)
         /\ KeysStay(k, f) => KeysStay(k, r)
<1>1. Kept(f, r)
  BY EnQKept, Zenon
<1>2. KbdOK(r) /\ LineKept(k, r) /\ DataKept(k, r)
  BY <1>1, KeptIn, Zenon
<1> QED  BY <1>1, <1>2, Zenon DEF Kept, KeysStay

\* A byte sent to the keyboard: only the commands of Loses lose scan codes.
LEMMA KbdSendKept ==
  ASSUME NEW k, KbdOK(k), NEW b, NEW r, r = Kbd!kbd_ctrl_to_kbd(k, b)
  PROVE  /\ KbdOK(r) /\ LineKept(k, r) /\ DataKept(k, r)
         /\ b \notin Loses => KeysStay(k, r)
<1> DEFINE on == [k EXCEPT !.kbdData = TRUE]
           off == [k EXCEPT !.kbdData = FALSE]
           scan == [k EXCEPT !.scanning = TRUE]
           stuck == [k EXCEPT !.panic = TRUE]
           new == Kbd!resetinternals(k)
<1>0. DOMAIN k = KbdFields
  BY Zenon DEF KbdOK
<1>1. Plain(k, k) /\ Plain(k, on) /\ Plain(k, off) /\ Plain(k, scan) /\ Plain(k, stuck)
  <2>1. Plain(k, k)
    BY <1>0, Zenon DEF Plain, SameBuffer, SameLine, SameQueues
  <2>2. Plain(k, on)
    BY <1>0, StoredPlain, Zenon
  <2>3. Plain(k, off)
    BY <1>0, StoredPlain, Zenon
  <2>4. Plain(k, scan)
    BY <1>0, StoredPlain, Zenon
  <2>5. Plain(k, stuck)
    BY <1>0, StoredPlain, Zenon
  <2> QED  BY <2>1, <2>2, <2>3, <2>4, <2>5
<1>2. \/ r \in {k, stuck} \/ r \in {Kbd!kbd_enQ(off, Kbd!Answer), Kbd!kbd_enQ(on, Kbd!Answer),
                                    Kbd!kbd_enQ(scan, Kbd!Answer), Kbd!kbd_enQ(k, Kbd!Answer)}
      \/ r = Kbd!kbd_enQ(Kbd!kbd_enQ(Kbd!kbd_enQ(k, Kbd!Answer), Kbd!Answer), Kbd!Answer)
      \/ b \in Loses /\ r \in {Kbd!kbd_enQ_imm(on, Kbd!Answer), Kbd!kbd_enQ_imm(k, Kbd!Answer)}
      \/ /\ b \in Loses
         /\ r \in {[Kbd!kbd_enQ(new, Kbd!Answer) EXCEPT !.scanning = FALSE],
                   [Kbd!kbd_enQ(new, Kbd!Answer) EXCEPT !.scanning = TRUE],
                   Kbd!kbd_enQ(Kbd!kbd_enQ(new, Kbd!Answer), Kbd!Answer)}
  <2>1. CASE k.kbdData
    <3>1. r = Kbd!kbd_enQ(off, Kbd!Answer)
      BY <2>1, Zenon DEF Kbd!kbd_ctrl_to_kbd
    <3> QED  BY <3>1, Zenon
  <2>2. CASE ~k.kbdData
    <3> DEFINE a1 == Kbd!kbd_enQ_imm(on, Kbd!Answer)
               a2 == Kbd!kbd_enQ_imm(k, Kbd!Answer)
               a3 == Kbd!kbd_enQ(on, Kbd!Answer)
               a4 == Kbd!kbd_enQ(scan, Kbd!Answer)
               a5 == [Kbd!kbd_enQ(new, Kbd!Answer) EXCEPT !.scanning = FALSE]
               a6 == [Kbd!kbd_enQ(new, Kbd!Answer) EXCEPT !.scanning = TRUE]
               a7 == Kbd!kbd_enQ(Kbd!kbd_enQ(new, Kbd!Answer), Kbd!Answer)
               a8 == Kbd!kbd_enQ(Kbd!kbd_enQ(Kbd!kbd_enQ(k, Kbd!Answer), Kbd!Answer), Kbd!Answer)
               a9 == Kbd!kbd_enQ(k, Kbd!Answer)
    <3>1. r = CASE b = "ed" -> a1
                [] b = "05" -> a2
                [] b \in {"f0", "f3"} -> a3
                [] b = "f4" -> a4
                [] b = "f5" -> a5
                [] b = "f6" -> a6
                [] b = "ff" -> a7
                [] b = "f2" -> a8
                [] b = "f7" -> k
                [] b = "fe" -> stuck
                [] OTHER    -> a9
      BY <2>2, Zenon DEF Kbd!kbd_ctrl_to_kbd
    <3> HIDE DEF a1, a2, a3, a4, a5, a6, a7, a8, a9, stuck
    <3>2. \/ r \in {k, stuck, a3, a4, a9, a8}
          \/ b \in Loses /\ r \in {a1, a2, a5, a6, a7}
      BY ONLY <3>1, SMT DEF Loses
    <3> QED  BY <3>2, Zenon DEF a1, a2, a3, a4, a5, a6, a7, a8, a9
  <2> QED  BY <2>1, <2>2
<1> HIDE DEF on, off, scan, stuck, new
<1>3. \A f : Plain(k, f) => KbdOK(f) /\ LineKept(k, f) /\ DataKept(k, f) /\ KeysStay(k, f)
  BY PlainKept, Zenon DEF Kept
<1>4. CASE r \in {k, stuck}
  BY <1>1, <1>3, <1>4, Zenon
<1>5. CASE r \in {Kbd!kbd_enQ(off, Kbd!Answer), Kbd!kbd_enQ(on, Kbd!Answer),
                  Kbd!kbd_enQ(scan, Kbd!Answer), Kbd!kbd_enQ(k, Kbd!Answer)}
  BY <1>1, <1>3, <1>5, EnQ1, Zenon
<1>6. CASE r = Kbd!kbd_enQ(Kbd!kbd_enQ(Kbd!kbd_enQ(k, Kbd!Answer), Kbd!Answer), Kbd!Answer)
  <2> DEFINE f == Kbd!kbd_enQ(k, Kbd!Answer)
             g == Kbd!kbd_enQ(f, Kbd!Answer)
  <2>1. KbdOK(f) /\ LineKept(k, f) /\ DataKept(k, f) /\ KeysStay(k, f)
    BY <1>1, <1>3, EnQ1, Zenon
  <2> HIDE DEF f
  <2>2. KbdOK(g) /\ LineKept(k, g) /\ DataKept(k, g) /\ KeysStay(k, g)
    BY <2>1, EnQ1, Zenon
  <2>3. r = Kbd!kbd_enQ(g, Kbd!Answer)
    BY <1>6 DEF f
  <2> HIDE DEF g
  <2> QED  BY <2>2, <2>3, EnQ1, Zenon
<1>7. CASE b \in Loses /\ r \in {Kbd!kbd_enQ_imm(on, Kbd!Answer), Kbd!kbd_enQ_imm(k, Kbd!Answer)}
  <2>1. PICK f \in {on, k} : r = Kbd!kbd_enQ_imm(f, Kbd!Answer)
    BY <1>7, Zenon
  <2>2. Plain(k, f)
    BY <1>1, <2>1, Zenon
  <2>3. KbdOK(f) /\ f.outb = k.outb /\ f.auxb = k.auxb /\ f.allow = k.allow /\ f.requested = k.requested
    BY <1>3, <2>2, Zenon DEF Plain, SameBuffer, SameLine
  <2>4. LineKept(f, r) /\ DataKept(f, r)
    BY <2>1, <2>3, EnQImmKept, Zenon
  <2>5. LineKept(k, r)
    BY <2>3, <2>4, Zenon DEF LineKept
  <2>6. DataKept(k, r)
    BY <1>3, <2>2, <2>4, Zenon DEF DataKept
  <2> QED  BY <1>7, <2>5, <2>6, Zenon DEF DataKept
<1>8. CASE /\ b \in Loses
           /\ r \in {[Kbd!kbd_enQ(new, Kbd!Answer) EXCEPT !.scanning = FALSE],
                     [Kbd!kbd_enQ(new, Kbd!Answer) EXCEPT !.scanning = TRUE],
                     Kbd!kbd_enQ(Kbd!kbd_enQ(new, Kbd!Answer), Kbd!Answer)}
  <2> DEFINE f == Kbd!kbd_enQ(new, Kbd!Answer)
  <2>1. LineKept(k, new) /\ DataKept(k, new) /\ KbdOK(new)
    BY ResetInternalsKept, Zenon DEF new, DataKept
  <2>2. KbdOK(f) /\ LineKept(k, f) /\ DataKept(k, f)
    BY <2>1, EnQ1, Zenon
  <2>3. r \in {[f EXCEPT !.scanning = FALSE], [f EXCEPT !.scanning = TRUE], Kbd!kbd_enQ(f, Kbd!Answer)}
    BY <1>8
  <2> HIDE DEF f
  <2>4. CASE r = Kbd!kbd_enQ(f, Kbd!Answer)
    BY <1>8, <2>2, <2>4, EnQ1, Zenon
  <2>5. CASE r \in {[f EXCEPT !.scanning = FALSE], [f EXCEPT !.scanning = TRUE]}
    <3>1. DOMAIN f = KbdFields
      BY <2>2, Zenon DEF KbdOK
    <3>2. Plain(f, r)
      <4>1. Plain(f, [f EXCEPT !.scanning = FALSE])
        BY <3>1, StoredPlain, Zenon
      <4>2. Plain(f, [f EXCEPT !.scanning = TRUE])
        BY <3>1, StoredPlain, Zenon
      <4> QED  BY <2>5, <4>1, <4>2, Zenon
    <3>3. Kept(f, r)
      BY <2>2, <3>2, PlainKept, Zenon
    <3> QED  BY <1>8, <2>2, <3>3, KeptIn, Zenon
  <2> QED  BY <2>3, <2>4, <2>5, Zenon
<1> QED  BY <1>2, <1>4, <1>5, <1>6, <1>7, <1>8, Zenon

\* A byte sent to the mouse.
LEMMA AnswersKept ==
  ASSUME NEW k, NEW f, NEW r, KbdOK(f), Kept(k, f), r = Kbd!Answers(f)
  PROVE  KbdOK(r) /\ Kept(k, r)
<1>1. Kept(f, r)
  <2>1. r = Kbd!controller_enQ(f, Kbd!Answer, Kbd!Aux) /\ Kbd!Aux \in {Kbd!Kbd, Kbd!Aux}
    BY Zenon DEF Kbd!Answers
  <2> QED  BY <2>1, ControllerEnQKept, SMT
<1>2. Kept(k, r)
  BY <1>1, KeptTwice, Zenon
<1> QED  BY <1>2, Zenon DEF Kept, DataKept

\* A byte sent to the mouse.
LEMMA MouseSendKept ==
  ASSUME NEW k, KbdOK(k), NEW b, NEW r, r = Kbd!kbd_ctrl_to_mouse(k, b)
  PROVE  Kept(k, r)
<1> DEFINE a1 == [k EXCEPT !.mouseData = FALSE]
           a2 == [k EXCEPT !.mode = "stream"]
           a3 == [k EXCEPT !.mode = "remote"]
           a4 == [k EXCEPT !.savedMode = k.mode, !.mode = "wrap"]
           a5 == [k EXCEPT !.mode = k.savedMode]
           a6 == [k EXCEPT !.enable = TRUE]
           a7 == [k EXCEPT !.enable = FALSE]
           a8 == [k EXCEPT !.enable = FALSE, !.mode = "stream"]
           a9 == [k EXCEPT !.enable = FALSE, !.mode = "reset"]
           e1 == Kbd!Answers(a1)
           e2 == Kbd!Answers(a2)
           e3 == Kbd!Answers(a3)
           e4 == Kbd!Answers(a4)
           e5 == Kbd!Answers(a5)
           e6 == Kbd!Answers(a6)
           e7 == Kbd!Answers(a7)
           e8 == Kbd!Answers(a8)
           e0 == Kbd!Answers(k)
           d1 == [Kbd!Answers(k) EXCEPT !.mouseData = TRUE]
           t2 == Kbd!Answers(Kbd!Answers(k))
           t3 == Kbd!Answers(Kbd!Answers(Kbd!Answers(a9)))
           t4 == Kbd!Answers(Kbd!Answers(Kbd!Answers(Kbd!Answers(k))))
           t5 == Kbd!mouse_enQ_packet(Kbd!Answers(k), 0)
<1>0. DOMAIN k = KbdFields
  BY Zenon DEF KbdOK
<1>1. r \in {k, e0, e1, e2, e3, e4, e5, e6, e7, e8, d1, t2, t3, t4, t5}
  <2>1. r = IF k.mouseData THEN e1
            ELSE IF k.mode = "wrap" /\ b \notin {"ff", "ec"} THEN e0
            ELSE CASE b \in {"e8", "f3"} -> d1
                   [] b = "ea" -> e2
                   [] b = "f0" -> e3
                   [] b = "ee" -> e4
                   [] b = "ec" -> IF k.mode # "wrap" THEN k ELSE e5
                   [] b = "f2" -> t2
                   [] b = "f4" -> e6
                   [] b = "f5" -> e7
                   [] b = "f6" -> e8
                   [] b = "ff" -> t3
                   [] b = "e9" -> t4
                   [] b = "eb" -> t5
                   [] OTHER    -> e0
    BY DEF Kbd!kbd_ctrl_to_mouse, Kbd!Answers
  <2> HIDE DEF e0, e1, e2, e3, e4, e5, e6, e7, e8, d1, t2, t3, t4, t5
  <2> QED  BY ONLY <2>1, SMT
<1>2. Plain(k, k) /\ Plain(k, a1) /\ Plain(k, a2) /\ Plain(k, a3) /\ Plain(k, a5) /\ Plain(k, a6) /\ Plain(k, a7)
  <2>1. Plain(k, k)
    BY <1>0, Zenon DEF Plain, SameBuffer, SameLine, SameQueues
  <2>2. Plain(k, a1)
    BY <1>0, StoredPlain, Zenon
  <2>3. Plain(k, a2)
    BY <1>0, StoredPlain, Zenon
  <2>4. Plain(k, a3)
    BY <1>0, StoredPlain, Zenon
  <2>5. Plain(k, a5)
    BY <1>0, StoredPlain, Zenon
  <2>6. Plain(k, a6)
    BY <1>0, StoredPlain, Zenon
  <2>7. Plain(k, a7)
    BY <1>0, StoredPlain, Zenon
  <2> QED  BY <2>1, <2>2, <2>3, <2>4, <2>5, <2>6, <2>7
<1>3. Plain(k, a4) /\ Plain(k, a8) /\ Plain(k, a9)
  <2>1. Plain(k, a4)
    BY <1>0, SMT DEF Plain, KbdFields, SameBuffer, SameLine, SameQueues
  <2>2. Plain(k, a8)
    BY <1>0, SMT DEF Plain, KbdFields, SameBuffer, SameLine, SameQueues
  <2>3. Plain(k, a9)
    BY <1>0, SMT DEF Plain, KbdFields, SameBuffer, SameLine, SameQueues
  <2> QED  BY <2>1, <2>2, <2>3
<1> HIDE DEF a1, a2, a3, a4, a5, a6, a7, a8, a9
<1>4. \A f : Plain(k, f) => KbdOK(f) /\ Kept(k, f)
  BY PlainKept, Zenon
<1>5. \A f : KbdOK(f) /\ Kept(k, f) => KbdOK(Kbd!Answers(f)) /\ Kept(k, Kbd!Answers(f))
  BY AnswersKept, Zenon
<1>6. Kept(k, e0) /\ Kept(k, e1) /\ Kept(k, e2) /\ Kept(k, e3) /\ Kept(k, e4) /\ Kept(k, e5) /\ Kept(k, e6)
      /\ Kept(k, e7) /\ Kept(k, e8) /\ Kept(k, k)
  BY <1>2, <1>3, <1>4, <1>5, Zenon
<1>7. KbdOK(e0) /\ Kept(k, e0) /\ KbdOK(t2) /\ Kept(k, t2)
  BY <1>2, <1>4, <1>5, Zenon
<1>8. Kept(k, t4)
  <2>1. KbdOK(Kbd!Answers(t2)) /\ Kept(k, Kbd!Answers(t2))
    BY <1>5, <1>7, Zenon
  <2>2. t4 = Kbd!Answers(Kbd!Answers(t2))
    OBVIOUS
  <2> HIDE DEF t2, t4
  <2> QED  BY <1>5, <2>1, <2>2, Zenon
<1>9. Kept(k, t3)
  <2> DEFINE f == Kbd!Answers(a9)
             g == Kbd!Answers(f)
  <2>1. KbdOK(f) /\ Kept(k, f)
    BY <1>3, <1>4, <1>5, Zenon
  <2>2. t3 = Kbd!Answers(g)
    OBVIOUS
  <2> HIDE DEF f, t3
  <2>3. KbdOK(g) /\ Kept(k, g)
    BY <1>5, <2>1, Zenon
  <2> HIDE DEF g
  <2> QED  BY <1>5, <2>2, <2>3, Zenon
<1>10. Kept(k, d1)
  <2>1. d1 = [e0 EXCEPT !.mouseData = TRUE]
    OBVIOUS
  <2> HIDE DEF e0
  <2>2. DOMAIN e0 = KbdFields
    BY <1>7, Zenon DEF KbdOK
  <2>3. Plain(e0, [e0 EXCEPT !.mouseData = TRUE])
    BY <2>2, StoredPlain, Zenon
  <2>4. Plain(e0, d1)
    BY <2>1, <2>3
  <2> HIDE DEF d1
  <2>5. Kept(e0, d1)
    BY <1>7, <2>4, PlainKept, Zenon
  <2> QED  BY <1>7, <2>5, KeptTwice, Zenon
<1>11. Kept(k, t5)
  <2>1. t5 = Kbd!mouse_enQ_packet(e0, 0)
    OBVIOUS
  <2> HIDE DEF e0, t5
  <2>2. 0 \in Int
    BY SMT
  <2>3. Kept(e0, t5)
    BY <1>7, <2>1, <2>2, PacketKept, Zenon
  <2> QED  BY <1>7, <2>3, KeptTwice, Zenon
<1> HIDE DEF e0, e1, e2, e3, e4, e5, e6, e7, e8, d1, t2, t3, t4, t5
<1> QED  BY <1>1, <1>6, <1>7, <1>8, <1>9, <1>10, <1>11, Zenon

\* A queue of packets without its first byte.
LEMMA WholeTail ==
  ASSUME NEW q \in Seq(Datum), q # <<>>, Whole(q)
  PROVE  Whole(Tail(q))
<1> DEFINE p == Tail(q)
           n == Len(q)
<1>1. /\ Len(p) = n - 1 /\ n \in Nat \ {0}
      /\ \A i \in 1 .. n - 1 : p[i] = q[i + 1]
  BY TailIs, Zenon
<1> HIDE DEF p
<1>2. ASSUME NEW j \in 1 .. Len(p), p[j][1] = "motion"
      PROVE  j < Len(p) /\ (j > 1 => p[j - 1] = <<"mouse", 0>>)
  <2>1. j \in 1 .. n - 1 /\ j + 1 \in 1 .. n /\ j + 1 > 1
    BY <1>1, <1>2, SMT
  <2>2. q[j + 1][1] = "motion"
    BY <1>1, <1>2, <2>1, Zenon
  <2>3. j + 1 < n /\ q[(j + 1) - 1] = <<"mouse", 0>>
    BY <2>1, <2>2, Zenon DEF Whole
  <2>4. ASSUME j > 1 PROVE p[j - 1] = <<"mouse", 0>>
    <3>1. j - 1 \in 1 .. n - 1 /\ (j - 1) + 1 = (j + 1) - 1
      BY <2>1, <2>4, <1>1, SMT
    <3>2. p[j - 1] = q[(j - 1) + 1]
      BY <1>1, <3>1, Zenon
    <3> QED  BY <2>3, <3>1, <3>2, Zenon
  <2>5. j < Len(p)
    BY <1>1, <2>1, <2>3, SMT
  <2> QED  BY <2>4, <2>5
<1> QED  BY <1>2, Zenon DEF Whole, p

\* The oldest scan code of a queue leaves it: those behind it are newer.
LEMMA KeysSplit ==
  ASSUME NEW q \in Seq(Datum), q # <<>>
  PROVE  QueueKeys(q) \subseteq QueueKeys(Tail(q)) \cup (IF Head(q)[1] = "key" THEN {Head(q)[2]} ELSE {})
<1> DEFINE p == Tail(q)
           m == Len(q)
<1>1. /\ p \in Seq(Datum) /\ Len(p) = m - 1 /\ m \in Nat \ {0} /\ Head(q) = q[1]
      /\ \A i \in 1 .. m - 1 : p[i] = q[i + 1]
  BY TailIs, Zenon
<1>2. DOMAIN q = 1 .. m /\ DOMAIN p = 1 .. Len(p)
  BY <1>1, SMT
<1> HIDE DEF p
<1>3. ASSUME NEW d \in QueueKeys(q), d \notin QueueKeys(p)
      PROVE  q[1][1] = "key" /\ d = q[1][2]
  <2>1. PICK j \in 1 .. m : q[j][1] = "key" /\ d = q[j][2]
    BY <1>2, <1>3, Zenon DEF QueueKeys
  <2>2. CASE j = 1
    BY <2>1, <2>2
  <2>3. CASE j # 1
    <3>1. j - 1 \in 1 .. Len(p) /\ j - 1 \in 1 .. m - 1 /\ (j - 1) + 1 = j
      BY <1>1, <2>3, SMT
    <3>2. p[j - 1] = q[j]
      BY <1>1, <3>1, Zenon
    <3>3. d \in QueueKeys(p)
      BY <1>2, <2>1, <3>1, <3>2, Zenon DEF QueueKeys
    <3> QED  BY <1>3, <3>3
  <2> QED  BY <2>2, <2>3
<1> QED  BY <1>1, <1>3, Zenon DEF p

\* The first byte of the queue goes to the buffer: it is the oldest scan code.
LEMMA KeysTaken ==
  ASSUME NEW q \in Seq(Datum), q # <<>>, NEW n \in Nat, Ordered(q, n)
  PROVE  Ordered(Tail(q), n) /\ Oldest(Head(q), Tail(q), n)
<1> DEFINE p == Tail(q)
           m == Len(q)
<1>1. /\ p \in Seq(Datum) /\ Len(p) = m - 1 /\ m \in Nat \ {0} /\ Head(q) = q[1] /\ q[1] \in Datum
      /\ \A i \in 1 .. m - 1 : p[i] = q[i + 1]
  BY TailIs, Zenon
<1>2. DOMAIN q = 1 .. m /\ DOMAIN p = 1 .. Len(p)
  BY <1>1, SMT
<1> HIDE DEF p
<1>3. \A i \in 1 .. Len(p) : i + 1 \in 1 .. m /\ p[i] = q[i + 1] /\ 1 < i + 1
  BY <1>1, SMT
<1>4. Ordered(p, n)
  <2>1. \A i \in 1 .. Len(p) : p[i][1] = "key" => p[i][2] <= n
    BY <1>3, Zenon DEF Ordered
  <2>2. \A i, j \in 1 .. Len(p) : i < j => i + 1 < j + 1
    BY <1>1, SMT
  <2>3. ASSUME NEW i \in 1 .. Len(p), NEW j \in 1 .. Len(p), i < j, p[i][1] = "key", p[j][1] = "key"
        PROVE  p[i][2] < p[j][2]
    <3>1. /\ i + 1 \in 1 .. m /\ j + 1 \in 1 .. m /\ i + 1 < j + 1
          /\ q[i + 1][1] = "key" /\ q[j + 1][1] = "key"
      BY <1>3, <2>2, <2>3, Zenon
    <3>2. q[i + 1][2] < q[j + 1][2]
      BY <3>1, Zenon DEF Ordered
    <3> QED  BY <1>3, <3>2
  <2> QED  BY <2>1, <2>3, Zenon DEF Ordered
<1>5. Oldest(q[1], p, n)
  <2>1. 1 \in 1 .. m
    BY <1>1, SMT
  <2> QED  BY <1>3, <2>1, Zenon DEF Ordered, Oldest
<1> QED  BY <1>1, <1>4, <1>5, Zenon DEF p

\* A byte that fills the free output buffer.
LEMMA FilledIs ==
  ASSUME NEW k, ~k.outb, NEW f, DOMAIN f = KbdFields, f.outb = TRUE, SameLine(k, f), NEW i, i = Kbd!Reader(f),
         NEW r, r = Kbd!Request(f, i)
  PROVE  DOMAIN r = KbdFields /\ SameBuffer(f, r) /\ SameQueues(f, r) /\ LineKept(k, r)
<1>1. /\ DOMAIN r = KbdFields /\ SameBuffer(f, r) /\ SameQueues(f, r) /\ r.allow = f.allow
      /\ i \in f.allow => r.requested = f.requested \cup {i}
      /\ i \notin f.allow => r.requested = f.requested
  BY RequestIs, SMT
<1>2. Kbd!Reader(r) = i
  BY <1>1, Zenon DEF Kbd!Reader, SameBuffer
<1>3. k.requested \subseteq r.requested /\ (i \in f.allow => r.requested # {})
  BY <1>1, Zenon DEF SameLine
<1> QED  BY <1>1, <1>2, <1>3, Zenon DEF LineKept, SameLine

\* The transfer to the free output buffer.
LEMMA TransferKept ==
  ASSUME NEW k, KbdOK(k), ~k.outb, NEW r, r = Kbd!Transfer(k)
  PROVE  Kept(k, r)
<1>0. /\ DOMAIN k = KbdFields /\ ~k.auxb /\ k.kbdQ \in Seq(Datum) /\ k.mouseQ \in Seq(Datum)
      /\ k.delayed \in Int /\ Whole(k.mouseQ)
  BY Zenon DEF KbdOK
<1>1. CASE k.kbdClock /\ k.kbdQ # <<>>
  <2> DEFINE f == [k EXCEPT !.kbdByte = Head(k.kbdQ), !.outb = TRUE, !.kbdQ = Tail(k.kbdQ)]
  <2>1. r = Kbd!Request(f, Kbd!Kbd)
    BY <1>1, Zenon DEF Kbd!Transfer
  <2>2. /\ DOMAIN f = KbdFields /\ f.outb = TRUE /\ f.auxb = k.auxb /\ SameLine(k, f)
        /\ f.kbdByte = Head(k.kbdQ) /\ f.kbdQ = Tail(k.kbdQ) /\ f.mouseQ = k.mouseQ /\ f.delayed = k.delayed
    BY <1>0, SMT DEF KbdFields, SameLine
  <2> HIDE DEF f
  <2>3. Kbd!Reader(f) = Kbd!Kbd
    BY <1>0, <2>2, Zenon DEF Kbd!Reader
  <2>4. DOMAIN r = KbdFields /\ SameBuffer(f, r) /\ SameQueues(f, r) /\ LineKept(k, r)
    BY <2>1, <2>2, <2>3, FilledIs, Zenon
  <2>5. /\ r.outb = TRUE /\ r.auxb = k.auxb /\ r.kbdByte = Head(k.kbdQ) /\ r.kbdQ = Tail(k.kbdQ)
        /\ r.mouseQ = k.mouseQ /\ r.delayed = k.delayed
    BY <2>2, <2>4, Zenon DEF SameBuffer, SameQueues
  <2>6. Tail(k.kbdQ) \in Seq(Datum) /\ Head(k.kbdQ) \in Datum
    BY <1>0, <1>1, TailIs, Zenon
  <2>7. KbdOK(r)
    BY <1>0, <2>4, <2>5, <2>6, Zenon DEF KbdOK
  <2>8. ASSUME NEW n \in Nat, KeysIn(k, n) PROVE KeysIn(r, n)
    BY <1>0, <1>1, <2>5, <2>8, KeysTaken, Zenon DEF KeysIn
  <2>9. KeysStay(k, r)
    <3>1. KeysOf(k) = QueueKeys(k.kbdQ)
      BY Zenon DEF KeysOf, QueueKeys
    <3>2. QueueKeys(Tail(k.kbdQ)) \subseteq KeysOf(r)
      <4>1. QueueKeys(r.kbdQ) \subseteq KeysOf(r)
        BY Zenon DEF KeysOf, QueueKeys
      <4> QED  BY <2>5, <4>1, Zenon
    <3>4. Head(k.kbdQ)[1] = "key" => Head(k.kbdQ)[2] \in KeysOf(r)
      <4>1. r.outb /\ ~r.auxb
        BY <1>0, <2>5, Zenon
      <4> QED  BY <2>5, <4>1, Zenon DEF KeysOf
    <3>3. k.kbdQ # <<>> => QueueKeys(k.kbdQ) \subseteq QueueKeys(Tail(k.kbdQ)) \cup (IF Head(k.kbdQ)[1] = "key" THEN {Head(k.kbdQ)[2]} ELSE {})
      BY <1>0, KeysSplit, Zenon
    <3>5. ASSUME NEW d \in KeysOf(k) PROVE d \in KeysOf(r)
      <4>1. d \in QueueKeys(Tail(k.kbdQ)) \/ (Head(k.kbdQ)[1] = "key" /\ d = Head(k.kbdQ)[2])
        BY <1>1, <3>1, <3>3, <3>5, Zenon
      <4> QED  BY <3>2, <3>4, <4>1, Zenon
    <3> QED  BY <3>5, Zenon DEF KeysStay
  <2> QED  BY <2>4, <2>7, <2>8, <2>9, Zenon DEF Kept, DataKept
<1>2. CASE ~(k.kbdClock /\ k.kbdQ # <<>>)
  <2> DEFINE m == Kbd!create_mouse_packet(k, FALSE)
             f == [m EXCEPT !.auxByte = Head(m.mouseQ), !.outb = TRUE, !.auxb = TRUE, !.mouseQ = Tail(m.mouseQ)]
  <2>1. r = IF m.auxClock /\ m.mouseQ # <<>> THEN Kbd!Request(f, Kbd!Aux) ELSE m
    BY <1>2, Zenon DEF Kbd!Transfer
  <2>2. Kept(k, m) /\ m.kbdQ = k.kbdQ
    BY CreateKept, Zenon
  <2> HIDE DEF m
  <2>3. /\ DOMAIN m = KbdFields /\ m.mouseQ \in Seq(Datum) /\ Whole(m.mouseQ) /\ m.delayed \in Int
        /\ m.kbdByte \in Datum /\ m.allow = k.allow
    BY <2>2, Zenon DEF Kept, DataKept, LineKept, KbdOK
  <2>4. CASE ~(m.auxClock /\ m.mouseQ # <<>>)
    BY <2>1, <2>2, <2>4, Zenon
  <2>5. CASE m.auxClock /\ m.mouseQ # <<>>
    <3>1. /\ DOMAIN f = KbdFields /\ f.outb = TRUE /\ f.auxb = TRUE /\ SameLine(m, f)
          /\ f.kbdByte = m.kbdByte /\ f.kbdQ = m.kbdQ /\ f.mouseQ = Tail(m.mouseQ) /\ f.delayed = m.delayed
      BY <2>3, SMT DEF KbdFields, SameLine
    <3>2. r = Kbd!Request(f, Kbd!Aux)
      BY <2>1, <2>5
    <3> HIDE DEF f
    <3>3. Kbd!Reader(f) = Kbd!Aux
      BY <3>1, Zenon DEF Kbd!Reader
    <3>4. /\ DOMAIN r = KbdFields /\ SameBuffer(f, r) /\ SameQueues(f, r) /\ r.allow = f.allow
          /\ Kbd!Aux \in f.allow => r.requested = f.requested \cup {Kbd!Aux}
          /\ Kbd!Aux \notin f.allow => r.requested = f.requested
      BY <3>1, <3>2, RequestIs, SMT
    <3>5. /\ r.outb = TRUE /\ r.auxb = TRUE /\ r.kbdByte = m.kbdByte /\ r.kbdQ = k.kbdQ
          /\ r.mouseQ = Tail(m.mouseQ) /\ r.delayed = m.delayed
      BY <2>2, <3>1, <3>4, Zenon DEF SameBuffer, SameQueues
    <3>6. LineKept(k, r)
      <4>1. Kbd!Reader(r) = Kbd!Aux
        BY <3>5, Zenon DEF Kbd!Reader
      <4>2. k.requested \subseteq f.requested /\ f.allow = k.allow
        BY <2>2, <3>1, Zenon DEF Kept, LineKept, SameLine
      <4>3. k.requested \subseteq r.requested /\ (Kbd!Aux \in r.allow => r.requested # {})
        BY <3>4, <4>2, Zenon
      <4> QED  BY <3>4, <4>1, <4>2, <4>3, Zenon DEF LineKept
    <3>7. Tail(m.mouseQ) \in Seq(Datum) /\ Whole(Tail(m.mouseQ))
      BY <2>3, <2>5, TailIs, WholeTail, Zenon
    <3>8. KbdOK(r)
      BY <1>0, <2>3, <3>4, <3>5, <3>7, Zenon DEF KbdOK
    <3>9. ASSUME NEW n \in Nat, KeysIn(k, n) PROVE KeysIn(r, n)
      <4>1. KeysIn(m, n)
        BY <2>2, <3>9, Zenon DEF Kept, DataKept
      <4> QED  BY <2>2, <3>5, <4>1, Zenon DEF KeysIn
    <3>10. KeysStay(k, r)
      <4>1. QueueKeys(k.kbdQ) \subseteq QueueKeys(r.kbdQ)
        BY <3>5, Zenon
      <4> QED  BY <4>1, QueueKeysStay, Zenon
    <3> QED  BY <3>6, <3>8, <3>9, <3>10, Zenon DEF Kept, DataKept
  <2> QED  BY <2>4, <2>5
<1> QED  BY <1>1, <1>2

\* The controller, its lines and what the guest knows: an interrupt line that is high
\* stands for the byte in the output buffer, and is requested or served; a byte that is
\* enabled to interrupt has raised its line or is about to.
KbdSound ==
  /\ pic \in LineType /\ KbdOK(kbd) /\ keys \in Nat /\ KeysIn(kbd, keys) /\ stale \in BOOLEAN
  /\ ~stale => \A i \in pic.line : kbd.outb /\ i = Kbd!Reader(kbd) /\ (i \in pic.irr \/ handlers # {})
  /\ (~stale /\ kbd.outb /\ Kbd!Reader(kbd) \in kbd.allow) => kbd.requested # {} \/ Kbd!Reader(kbd) \in pic.line

KbdOrder ==
  \A n \in Kbd!Pending \ Kbd!Pending' :
       \/ kbd.outb /\ ~kbd.auxb /\ kbd.kbdByte = <<"key", n>> /\ \A m \in Kbd!Pending : n <= m
       \/ \E b \in Loses : kbd' = Kbd!kbd_ctrl_to_kbd([kbd EXCEPT !.port60 = "none"], b)
       \/ ~kbd.tested /\ kbd'.tested

\* The keyboard controller's operations on its lines.
LEMMA KbdLines ==
  ASSUME NEW p, NEW i
  PROVE  /\ Kbd!raise_irq(p, i) = Raised(p, i) /\ Kbd!lower_irq(p, i) = Lowered(p, i)
         /\ Kbd!take_irq(p, i) = Taken(p, i)
  BY Zenon DEF Kbd!raise_irq, Kbd!lower_irq, Kbd!take_irq, Raised, Lowered, Taken

\* The scan codes that are pending, in the queue and in the buffer.
LEMMA PendingIs ==
  Kbd!Pending = KeysOf(kbd) /\ Kbd!Pending' = KeysOf(kbd')
  BY DEF Kbd!Pending, KeysOf

\* The keyboard controller as it begins.
LEMMA KbdStarts ==
  ASSUME Kbd!Init
  PROVE  KbdSound
<1>1. /\ DOMAIN kbd = KbdFields /\ ~kbd.outb /\ ~kbd.auxb /\ kbd.kbdByte = <<"none", 0>>
      /\ kbd.kbdQ = <<>> /\ kbd.mouseQ = <<>> /\ kbd.delayed = 0
      /\ pic = [line |-> {}, irr |-> {}] /\ keys = 0 /\ stale = FALSE
  BY SMT DEF Kbd!Init, KbdFields, Kbd!NoIrq
<1>2. pic \in LineType /\ pic.line = {}
  BY <1>1, SMT DEF LineType
<1>3. <<"none", 0>> \in Datum /\ <<"none", 0>>[1] # "key" /\ <<>> \in Seq(Datum) /\ Len(<<>>) = 0 /\ 0 \in Nat /\ 0 \in Int
  BY SMT DEF Datum
<1>4. 1 .. 0 = {}
  BY SMT
<1>5. KbdOK(kbd)
  BY <1>1, <1>3, <1>4, Zenon DEF KbdOK, Whole
<1>6. KeysIn(kbd, keys)
  BY <1>1, <1>3, <1>4, Zenon DEF KeysIn, Ordered, Oldest
<1> QED  BY <1>1, <1>2, <1>3, <1>5, <1>6, Zenon DEF KbdSound

\* A function of the class, called where no line changes.
LEMMA KbdQuiet ==
  ASSUME KbdSound, LineKept(kbd, kbd'), DataKept(kbd, kbd'), UNCHANGED <<pic, keys, handlers, stale>>
  PROVE  KbdSound'
<1>1. KbdOK(kbd') /\ KeysIn(kbd', keys')
  BY Zenon DEF KbdSound, DataKept
<1>2. kbd.outb => kbd'.outb /\ Kbd!Reader(kbd') = Kbd!Reader(kbd)
  BY Zenon DEF LineKept, Kbd!Reader
<1>3. ~stale' => \A i \in pic'.line : kbd'.outb /\ i = Kbd!Reader(kbd') /\ (i \in pic'.irr \/ handlers' # {})
  BY <1>2, Zenon DEF KbdSound
<1>4. (~stale' /\ kbd'.outb /\ Kbd!Reader(kbd') \in kbd'.allow) => kbd'.requested # {} \/ Kbd!Reader(kbd') \in pic'.line
  <2>1. CASE kbd.outb
    BY <1>2, <2>1, Zenon DEF KbdSound, LineKept
  <2>2. CASE ~kbd.outb
    BY <2>2, Zenon DEF LineKept
  <2> QED  BY <2>1, <2>2
<1> QED  BY <1>1, <1>3, <1>4, Zenon DEF KbdSound, Kbd!Reader

\* A step that goes no further than a function may.
LEMMA KbdQuietly ==
  ASSUME KbdSound, Kept(kbd, kbd'), UNCHANGED <<pic, keys, handlers, stale>>
  PROVE  KbdSound' /\ KbdOrder
<1>1. KbdSound'
  BY KbdQuiet, Zenon DEF Kept
<1>2. KbdOrder
  BY PendingIs, Zenon DEF KbdOrder, Kept, KeysStay
<1> QED  BY <1>1, <1>2

\* A key is struck.
LEMMA StrikeKeeps ==
  ASSUME KbdSound, Kbd!gen_scancode
  PROVE  KbdSound' /\ KbdOrder
<1> DEFINE b == <<"key", keys + 1>>
<1>1. /\ kbd' = Kbd!kbd_enQ(kbd, b) \/ kbd' = kbd
      /\ keys' = keys + 1 /\ UNCHANGED <<pic, handlers, stale>>
  BY Zenon DEF Kbd!gen_scancode
<1>2. /\ keys \in Nat /\ keys' \in Nat /\ keys <= keys' /\ b \in Datum /\ b[2] > keys /\ b[2] <= keys'
      /\ KbdOK(kbd) /\ KeysIn(kbd, keys)
  BY <1>1, SMT DEF KbdSound, Datum
<1> HIDE DEF b
<1>3. /\ KbdOK(kbd') /\ SameBuffer(kbd, kbd') /\ SameLine(kbd, kbd') /\ KeysStay(kbd, kbd')
      /\ KeysIn(kbd', keys')
  <2>1. CASE kbd' = Kbd!kbd_enQ(kbd, b)
    BY <1>2, <2>1, EnQIs, Zenon
  <2>2. CASE kbd' = kbd
    <3>1. kbd.kbdQ \in Seq(Datum) /\ kbd.kbdByte \in Datum
      BY <1>2, Zenon DEF KbdOK
    <3>2. kbd.kbdByte[2] \in Int
      BY <3>1, SMT DEF Datum
    <3>3. \A i \in 1 .. Len(kbd.kbdQ) : kbd.kbdQ[i][2] \in Int
      BY <3>1, DatumsHaveNumbers, Zenon
    <3>4. Ordered(kbd.kbdQ, keys')
      BY <1>2, <3>3, SMT DEF KeysIn, Ordered
    <3>5. Oldest(kbd.kbdByte, kbd.kbdQ, keys')
      BY <1>2, <3>2, SMT DEF KeysIn, Oldest
    <3>6. KeysIn(kbd, keys')
      BY <3>4, <3>5, Zenon DEF KeysIn
    <3> QED  BY <1>2, <2>2, <3>6, Zenon DEF SameBuffer, SameLine, KeysStay
  <2> QED  BY <1>1, <2>1, <2>2
<1>4. Kbd!Reader(kbd') = Kbd!Reader(kbd) /\ kbd'.outb = kbd.outb /\ kbd'.allow = kbd.allow /\ kbd'.requested = kbd.requested
  BY <1>3, Zenon DEF SameBuffer, SameLine, Kbd!Reader
<1>5. KbdSound'
  BY <1>1, <1>2, <1>3, <1>4, Zenon DEF KbdSound, Kbd!Reader
<1>6. KbdOrder
  BY <1>3, PendingIs, Zenon DEF KbdOrder, KeysStay
<1> QED  BY <1>5, <1>6

\* The mouse moves, or the host takes it.
LEMMA MotionKeeps ==
  ASSUME KbdSound, (\E d \in Movements, b \in BOOLEAN : Kbd!mouse_motion(d, b)) \/ Kbd!mouse_enabled_changed
  PROVE  KbdSound' /\ KbdOrder
<1>0. KbdOK(kbd) /\ DOMAIN kbd = KbdFields
  BY Zenon DEF KbdSound, KbdOK
<1>1. ASSUME NEW d \in Movements, NEW b \in BOOLEAN, Kbd!mouse_motion(d, b)
      PROVE  Kept(kbd, kbd') /\ UNCHANGED <<pic, keys, handlers, stale>>
  <2> DEFINE m == [kbd EXCEPT !.button = b, !.delayed = @ + d]
  <2>1. UNCHANGED <<pic, keys, handlers, stale>> /\ \E force : kbd' = Kbd!create_mouse_packet(m, force)
    BY <1>1, Zenon DEF Kbd!mouse_motion
  <2>2. d \in Int /\ kbd.delayed \in Int /\ kbd.mouseQ \in Seq(Datum) /\ Whole(kbd.mouseQ)
    BY <1>0, ConstantsAssumption, SMT DEF KbdOK, Kbd!ConstantsOK
  <2>3. /\ DOMAIN m = KbdFields /\ SameBuffer(kbd, m) /\ SameLine(kbd, m) /\ m.kbdQ = kbd.kbdQ
        /\ m.mouseQ = kbd.mouseQ /\ m.delayed \in Int
    BY <1>0, <2>2, SMT DEF KbdFields, SameBuffer, SameLine
  <2> HIDE DEF m
  <2>4. Kept(kbd, m)
    BY <1>0, <2>2, <2>3, MouseKept, Zenon
  <2>5. KbdOK(m)
    BY <2>4, Zenon DEF Kept, DataKept
  <2>6. Kept(m, kbd')
    BY <2>1, <2>5, CreateKept, Zenon
  <2> QED  BY <2>1, <2>4, <2>6, KeptTwice, Zenon
<1>2. ASSUME Kbd!mouse_enabled_changed
      PROVE  Kept(kbd, kbd') /\ UNCHANGED <<pic, keys, handlers, stale>>
  <2> DEFINE m == Kbd!create_mouse_packet(kbd, TRUE)
  <2>1. UNCHANGED <<pic, keys, handlers, stale>> /\ kbd' = [m EXCEPT !.delayed = 0]
    BY <1>2, Zenon DEF Kbd!mouse_enabled_changed
  <2>2. Kept(kbd, m)
    BY <1>0, CreateKept, Zenon
  <2> HIDE DEF m
  <2>3. KbdOK(m) /\ DOMAIN m = KbdFields /\ m.mouseQ \in Seq(Datum) /\ Whole(m.mouseQ)
    BY <2>2, Zenon DEF Kept, DataKept, KbdOK
  <2>4. /\ DOMAIN kbd' = KbdFields /\ SameBuffer(m, kbd') /\ SameLine(m, kbd') /\ kbd'.kbdQ = m.kbdQ
        /\ kbd'.mouseQ = m.mouseQ /\ kbd'.delayed \in Int
    BY <2>1, <2>3, SMT DEF KbdFields, SameBuffer, SameLine
  <2>5. Kept(m, kbd')
    BY <2>3, <2>4, MouseKept, Zenon
  <2> QED  BY <2>1, <2>2, <2>5, KeptTwice, Zenon
<1>3. Kept(kbd, kbd') /\ UNCHANGED <<pic, keys, handlers, stale>>
  BY <1>1, <1>2, Zenon
<1> QED  BY <1>3, KbdQuietly, Zenon

\* The guest reads the byte: its line falls, and the scan code that it takes is the oldest.
LEMMA ReadKeeps ==
  ASSUME KbdSound, Kbd!read
  PROVE  KbdSound' /\ KbdOrder
<1> DEFINE i == Kbd!Reader(kbd)
           free == [kbd EXCEPT !.outb = FALSE, !.auxb = FALSE, !.requested = @ \ {i},
                               !.kbdByte = <<"none", 0>>, !.auxByte = <<"none", 0>>]
           next == Kbd!NextOfController(free, i)
           f == [free EXCEPT !.auxByte = Head(free.ctlQ), !.outb = TRUE, !.auxb = TRUE, !.ctlQ = Tail(@)]
<1>0. /\ pic \in LineType /\ KbdOK(kbd) /\ DOMAIN kbd = KbdFields /\ kbd.kbdQ \in Seq(Datum)
      /\ kbd.mouseQ \in Seq(Datum) /\ kbd.delayed \in Int /\ Whole(kbd.mouseQ) /\ keys \in Nat /\ KeysIn(kbd, keys)
  BY Zenon DEF KbdSound, KbdOK
<1>1. /\ kbd.outb /\ kbd' = [next EXCEPT !.timer = TRUE] /\ pic' = Kbd!lower_irq(pic, i)
      /\ stale' = (stale \/ (i = Kbd!Kbd /\ kbd.ctlQ # <<>>)) /\ handlers' = {} /\ keys' = keys
  BY Zenon DEF Kbd!read
<1>2. i \in {Kbd!Kbd, Kbd!Aux} /\ i \in Int /\ Kbd!Kbd # Kbd!Aux /\ (i = Kbd!Aux => kbd.auxb)
  BY SMT DEF Kbd!Reader, Kbd!Kbd, Kbd!Aux
<1>3. pic' \in LineType /\ pic'.line = pic.line \ {i} /\ pic'.irr = pic.irr \ {i}
  BY <1>0, <1>1, <1>2, KbdLines, LoweredIs, SMT
<1> HIDE DEF i
<1>4. /\ DOMAIN free = KbdFields /\ free.outb = FALSE /\ free.auxb = FALSE /\ free.kbdByte = <<"none", 0>>
      /\ SameQueues(kbd, free) /\ free.allow = kbd.allow /\ free.ctlQ = kbd.ctlQ
  BY <1>0, SMT DEF KbdFields, SameQueues
<1> HIDE DEF free
<1>5. /\ DOMAIN next = KbdFields /\ next.kbdByte = <<"none", 0>> /\ SameQueues(kbd, next) /\ next.allow = kbd.allow
      /\ \/ next.outb = FALSE /\ next.auxb = FALSE
         \/ /\ kbd.ctlQ # <<>> /\ next.outb = TRUE /\ next.auxb = TRUE
            /\ i \in kbd.allow => next.requested # {}
  <2>1. CASE kbd.ctlQ = <<>>
    <3>1. next = free
      BY <1>4, <2>1, Zenon DEF Kbd!NextOfController
    <3> QED  BY <1>4, <3>1, Zenon
  <2>2. CASE kbd.ctlQ # <<>>
    <3>1. next = Kbd!Request(f, i)
      BY <1>4, <2>2, Zenon DEF Kbd!NextOfController
    <3>2. /\ DOMAIN f = KbdFields /\ f.outb = TRUE /\ f.auxb = TRUE /\ f.kbdByte = free.kbdByte
          /\ SameQueues(free, f) /\ f.allow = free.allow
      BY <1>4, SMT DEF KbdFields, SameQueues
    <3> HIDE DEF f, next
    <3>3. /\ DOMAIN next = KbdFields /\ SameBuffer(f, next) /\ SameQueues(f, next) /\ next.allow = f.allow
          /\ i \in f.allow => next.requested = f.requested \cup {i}
          /\ i \notin f.allow => next.requested = f.requested
      BY <3>1, <3>2, RequestIs, SMT
    <3>4. i \in kbd.allow => next.requested # {}
      BY <1>4, <3>2, <3>3, Zenon
    <3> QED  BY <1>4, <2>2, <3>2, <3>3, <3>4, Zenon DEF SameBuffer, SameQueues
  <2> QED  BY <2>1, <2>2
<1> HIDE DEF next
<1>6. Plain(next, kbd')
  <2>1. Plain(next, [next EXCEPT !.timer = TRUE])
    BY <1>5, StoredPlain, Zenon
  <2> QED  BY <1>1, <2>1
<1>7. /\ DOMAIN kbd' = KbdFields /\ kbd'.kbdByte = <<"none", 0>> /\ kbd'.allow = kbd.allow
      /\ kbd'.kbdQ = kbd.kbdQ /\ kbd'.mouseQ = kbd.mouseQ /\ kbd'.delayed = kbd.delayed
      /\ \/ kbd'.outb = FALSE /\ kbd'.auxb = FALSE
         \/ /\ kbd.ctlQ # <<>> /\ kbd'.outb = TRUE /\ kbd'.auxb = TRUE
            /\ i \in kbd.allow => kbd'.requested # {}
  BY <1>5, <1>6, Zenon DEF Plain, SameBuffer, SameLine, SameQueues
<1>8. <<"none", 0>> \in Datum /\ <<"none", 0>>[1] # "key"
  BY SMT DEF Datum
<1>9. KbdOK(kbd')
  BY <1>0, <1>7, <1>8, Zenon DEF KbdOK
<1>10. KeysIn(kbd', keys')
  <2>1. Ordered(kbd'.kbdQ, keys')
    BY <1>0, <1>1, <1>7, Zenon DEF KeysIn
  <2>2. Oldest(kbd'.kbdByte, kbd'.kbdQ, keys')
    BY <1>7, <1>8, NoKeyOldest, Zenon
  <2> QED  BY <2>1, <2>2, Zenon DEF KeysIn
<1>11. ASSUME ~stale' PROVE ~stale /\ (kbd.ctlQ # <<>> => i = Kbd!Aux)
  BY <1>1, <1>2, <1>11, Zenon
<1>12. ASSUME ~stale', NEW j \in pic'.line PROVE FALSE
  BY <1>3, <1>11, <1>12, Zenon DEF KbdSound, i
<1>13. ASSUME ~stale', kbd'.outb, Kbd!Reader(kbd') \in kbd'.allow PROVE kbd'.requested # {}
  <2>1. kbd.ctlQ # <<>> /\ kbd'.auxb = TRUE /\ (i \in kbd.allow => kbd'.requested # {})
    BY <1>7, <1>13, Zenon
  <2>2. Kbd!Reader(kbd') = Kbd!Aux
    BY <2>1, Zenon DEF Kbd!Reader
  <2>3. i = Kbd!Aux
    BY <1>11, <1>13, <2>1
  <2> QED  BY <1>7, <1>13, <2>1, <2>2, <2>3, Zenon
<1>14. KbdSound'
  <2>1. ~stale' => \A j \in pic'.line : kbd'.outb /\ j = Kbd!Reader(kbd') /\ (j \in pic'.irr \/ handlers' # {})
    BY <1>12, Zenon
  <2>2. (~stale' /\ kbd'.outb /\ Kbd!Reader(kbd') \in kbd'.allow) => kbd'.requested # {} \/ Kbd!Reader(kbd') \in pic'.line
    BY <1>13, Zenon
  <2> QED  BY <1>0, <1>1, <1>3, <1>9, <1>10, <2>1, <2>2, Zenon DEF KbdSound, Kbd!Reader
<1>15. KbdOrder
  <2> SUFFICES ASSUME NEW n \in KeysOf(kbd), n \notin KeysOf(kbd')
               PROVE  kbd.outb /\ ~kbd.auxb /\ kbd.kbdByte = <<"key", n>> /\ \A m \in KeysOf(kbd) : n <= m
    BY PendingIs, Zenon DEF KbdOrder
  <2>1. n \notin QueueKeys(kbd.kbdQ)
    <3>1. QueueKeys(kbd'.kbdQ) \subseteq KeysOf(kbd')
      BY Zenon DEF QueueKeys, KeysOf
    <3> QED  BY <1>7, <3>1, Zenon
  <2>2. kbd.outb /\ ~kbd.auxb /\ kbd.kbdByte[1] = "key" /\ n = kbd.kbdByte[2]
    BY <2>1, Zenon DEF KeysOf, QueueKeys
  <2>3. kbd.kbdByte \in Datum
    BY <1>0, Zenon DEF KbdOK
  <2>4. kbd.kbdByte = <<"key", n>> /\ n \in Int
    BY <2>2, <2>3, SMT DEF Datum
  <2>5. ASSUME NEW m \in KeysOf(kbd) PROVE n <= m
    <3>1. CASE m \in QueueKeys(kbd.kbdQ)
      <4>1. PICK j \in DOMAIN kbd.kbdQ : kbd.kbdQ[j][1] = "key" /\ m = kbd.kbdQ[j][2]
        BY <3>1, Zenon DEF QueueKeys
      <4>2. DOMAIN kbd.kbdQ = 1 .. Len(kbd.kbdQ)
        BY <1>0, SMT
      <4>3. n < kbd.kbdQ[j][2]
        BY <1>0, <2>2, <4>1, <4>2, Zenon DEF KeysIn, Oldest
      <4>4. kbd.kbdQ[j][2] \in Int
        BY <1>0, <4>2, DatumsHaveNumbers, Zenon
      <4> QED  BY <2>4, <4>1, <4>3, <4>4, SMT
    <3>2. CASE m \notin QueueKeys(kbd.kbdQ)
      <4>1. m = n
        BY <2>2, <2>5, <3>2, Zenon DEF KeysOf, QueueKeys
      <4> QED  BY <2>4, <4>1, SMT
    <3> QED  BY <3>1, <3>2
  <2> QED  BY <2>2, <2>4, <2>5
<1> QED  BY <1>14, <1>15

\* The guest takes an interrupt.
LEMMA TakeKeeps ==
  ASSUME KbdSound, NEW i \in {Kbd!Kbd, Kbd!Aux}, Kbd!TakeInterrupt(i)
  PROVE  KbdSound' /\ KbdOrder
<1>0. i \in Int
  BY SMT DEF Kbd!Kbd, Kbd!Aux
<1>1. pic' = Taken(pic, i) /\ handlers' # {} /\ kbd' = kbd /\ keys' = keys /\ stale' = stale
  BY KbdLines, Zenon DEF Kbd!TakeInterrupt
<1>2. pic' \in LineType /\ pic'.line = pic.line
  BY <1>0, <1>1, TakenIs, SMT DEF KbdSound
<1>3. KbdSound'
  BY <1>1, <1>2, Zenon DEF KbdSound, Kbd!Reader
<1>4. KbdOrder
  BY <1>1, PendingIs, Zenon DEF KbdOrder
<1> QED  BY <1>3, <1>4

\* The tick: the interrupts asked for are raised, and the transfer is made.
LEMMA TickKeeps ==
  ASSUME KbdSound, Kbd!timer_handler
  PROVE  KbdSound' /\ KbdOrder
<1> DEFINE k == [kbd EXCEPT !.requested = {}, !.timer = FALSE]
           up == IF Kbd!Kbd \in kbd.requested THEN Raised(pic, Kbd!Kbd) ELSE pic
<1>0. /\ pic \in LineType /\ KbdOK(kbd) /\ DOMAIN kbd = KbdFields /\ keys \in Nat /\ KeysIn(kbd, keys)
      /\ kbd.kbdQ \in Seq(Datum)
  BY Zenon DEF KbdSound, KbdOK
<1>1. /\ pic' = IF Kbd!Aux \in kbd.requested THEN Raised(up, Kbd!Aux) ELSE up
      /\ kbd' = IF kbd.timer /\ ~kbd.outb THEN Kbd!Transfer(k) ELSE k
      /\ stale' = (stale \/ (kbd.requested \ (IF kbd.outb THEN {Kbd!Reader(kbd)} ELSE {}) # {}))
      /\ keys' = keys /\ handlers' = handlers
  BY KbdLines, Zenon DEF Kbd!timer_handler
<1>2. Kbd!Kbd \in Int /\ Kbd!Aux \in Int /\ Kbd!Kbd # Kbd!Aux /\ Kbd!Reader(kbd) \in {Kbd!Kbd, Kbd!Aux}
  BY SMT DEF Kbd!Reader, Kbd!Kbd, Kbd!Aux
<1>3. up \in LineType
  BY <1>0, <1>2, RaisedIs, SMT
<1>4. pic' \in LineType
  BY <1>1, <1>2, <1>3, RaisedIs, SMT
<1>5. /\ DOMAIN k = KbdFields /\ SameBuffer(kbd, k) /\ SameQueues(kbd, k) /\ k.allow = kbd.allow /\ k.requested = {}
  BY <1>0, SMT DEF KbdFields, SameBuffer, SameQueues
<1> HIDE DEF k
<1>6. KbdOK(k) /\ KeysOf(k) = KeysOf(kbd) /\ KeysIn(k, keys)
  <2>1. KbdOK(k) /\ KeysIn(k, keys)
    BY <1>0, <1>5, Zenon DEF KbdOK, SameBuffer, SameQueues, KeysIn
  <2>2. k.outb = kbd.outb /\ k.auxb = kbd.auxb /\ k.kbdByte = kbd.kbdByte /\ k.kbdQ = kbd.kbdQ
    BY <1>5, Zenon DEF SameBuffer, SameQueues
  <2>3. KeysOf(k) = KeysOf(kbd)
    BY <2>2 DEF KeysOf
  <2> QED  BY <2>1, <2>3
<1>7. Kept(k, kbd')
  <2>1. Kept(k, k)
    BY <1>5, <1>6, SameKept, Zenon DEF SameBuffer, SameLine, SameQueues
  <2>2. ~kbd.outb => ~k.outb
    BY <1>5, Zenon DEF SameBuffer
  <2>3. ~kbd.outb => Kept(k, Kbd!Transfer(k))
    BY <1>6, <2>2, TransferKept, Zenon
  <2> QED  BY <1>1, <2>1, <2>3, Zenon
<1>8. KbdOK(kbd') /\ KeysIn(kbd', keys') /\ KeysOf(kbd) \subseteq KeysOf(kbd') /\ LineKept(k, kbd')
  BY <1>0, <1>1, <1>6, <1>7, Zenon DEF Kept, DataKept, KeysStay
<1>9. KbdOrder
  BY <1>8, PendingIs, Zenon DEF KbdOrder
<1>10. CASE kbd.outb
  <2>1. kbd' = k
    BY <1>1, <1>10
  <2>2. kbd'.outb /\ Kbd!Reader(kbd') = Kbd!Reader(kbd) /\ kbd'.allow = kbd.allow
    BY <1>5, <1>10, <2>1, Zenon DEF SameBuffer, Kbd!Reader
  <2> DEFINE i == Kbd!Reader(kbd)
  <2>3. ASSUME ~stale' PROVE ~stale /\ kbd.requested \subseteq {i}
    BY <1>1, <1>10, <2>3, Zenon
  <2>4. ASSUME ~stale' PROVE pic' = IF i \in kbd.requested THEN Raised(pic, i) ELSE pic
    BY <1>1, <1>2, <2>3, <2>4, Zenon
  <2>5. i \in Int
    BY <1>2, Zenon
  <2> HIDE DEF i
  <2>6. ASSUME ~stale', NEW j \in pic'.line PROVE j = i /\ (j \in pic'.irr \/ handlers' # {})
    <3>0. \A l \in pic.line : l = i /\ (l \in pic.irr \/ handlers # {})
      BY <2>3, <2>6, Zenon DEF KbdSound, i
    <3>1. CASE i \in kbd.requested
      <4>1. /\ pic'.line = pic.line \cup {i}
            /\ i \notin pic.line => pic'.irr = pic.irr \cup {i}
            /\ i \in pic.line => pic'.irr = pic.irr
        BY <1>0, <2>4, <2>5, <2>6, <3>1, RaisedIs, SMT
      <4> QED  BY <1>1, <2>6, <3>0, <4>1, Zenon
    <3>2. CASE i \notin kbd.requested
      BY <1>1, <2>4, <2>6, <3>0, <3>2, Zenon
    <3> QED  BY <3>1, <3>2
  <2>7. ASSUME ~stale', i \in kbd.allow PROVE i \in pic'.line
    <3>1. CASE i \in kbd.requested
      <4>1. pic'.line = pic.line \cup {i}
        BY <1>0, <2>4, <2>5, <2>7, <3>1, RaisedIs, Zenon
      <4> QED  BY <4>1, Zenon
    <3>2. CASE i \notin kbd.requested
      <4>1. kbd.requested = {} /\ ~stale
        BY <2>3, <2>7, <3>2, Zenon
      <4>2. i \in pic.line
        BY <1>10, <2>7, <4>1, Zenon DEF KbdSound, i
      <4> QED  BY <2>4, <2>7, <3>2, <4>2, Zenon
    <3> QED  BY <3>1, <3>2
  <2>8. KbdSound'
    <3>1. ~stale' => \A j \in pic'.line : kbd'.outb /\ j = Kbd!Reader(kbd') /\ (j \in pic'.irr \/ handlers' # {})
      BY <2>2, <2>6, Zenon DEF i
    <3>2. (~stale' /\ kbd'.outb /\ Kbd!Reader(kbd') \in kbd'.allow) => kbd'.requested # {} \/ Kbd!Reader(kbd') \in pic'.line
      BY <2>2, <2>7, Zenon DEF i
    <3> QED  BY <1>0, <1>1, <1>4, <1>8, <3>1, <3>2, Zenon DEF KbdSound, Kbd!Reader
  <2> QED  BY <1>9, <2>8
<1>11. CASE ~kbd.outb
  <2>1. ASSUME ~stale' PROVE ~stale /\ kbd.requested = {} /\ pic' = pic /\ pic'.line = {}
    <3>1. ~stale /\ kbd.requested = {}
      BY <1>1, <1>11, <2>1, Zenon
    <3>2. pic' = pic
      BY <1>1, <3>1, Zenon
    <3> QED  BY <1>11, <3>1, <3>2, Zenon DEF KbdSound
  <2>2. ~stale' => \A j \in pic'.line : kbd'.outb /\ j = Kbd!Reader(kbd') /\ (j \in pic'.irr \/ handlers' # {})
    BY <2>1, Zenon
  <2>3. (~stale' /\ kbd'.outb /\ Kbd!Reader(kbd') \in kbd'.allow) => kbd'.requested # {} \/ Kbd!Reader(kbd') \in pic'.line
    <3>1. ~k.outb
      BY <1>5, <1>11, Zenon DEF SameBuffer
    <3> QED  BY <1>8, <3>1, Zenon DEF LineKept
  <2>4. KbdSound'
    BY <1>0, <1>1, <1>4, <1>8, <2>2, <2>3, Zenon DEF KbdSound, Kbd!Reader
  <2> QED  BY <1>9, <2>4
<1> QED  BY <1>10, <1>11

\* A command of the guest to the controller.  The first self-test empties the output buffer.
LEMMA CommandKeeps ==
  ASSUME KbdSound, NEW b, Kbd!write_64(b)
  PROVE  KbdSound' /\ KbdOrder
<1> DEFINE k == [kbd EXCEPT !.port60 = IF b \in Kbd!Ports THEN b ELSE "none"]
           new == [k EXCEPT !.ctlQ = <<>>, !.outb = FALSE, !.tested = TRUE]
           tested == IF kbd.tested THEN k ELSE new
           full == [k EXCEPT !.panic = TRUE]
           said == Kbd!controller_enQ(k, Kbd!Answer, Kbd!Kbd)
           passed == Kbd!controller_enQ(tested, Kbd!Answer, Kbd!Kbd)
           s1 == Kbd!set_kbd_clock_enable(k, FALSE)
           s2 == Kbd!set_kbd_clock_enable(k, TRUE)
           s3 == Kbd!set_aux_clock_enable(k, FALSE)
           s4 == Kbd!set_aux_clock_enable(k, TRUE)
<1>0. /\ pic \in LineType /\ KbdOK(kbd) /\ DOMAIN kbd = KbdFields /\ keys \in Nat /\ KeysIn(kbd, keys)
  BY Zenon DEF KbdSound, KbdOK
<1>1. /\ kbd' = CASE b \in Kbd!Ports -> k
                  [] b = "20" -> IF k.outb THEN k ELSE said
                  [] b \in Kbd!Answered -> IF k.outb THEN full ELSE said
                  [] b = "aa" -> IF tested.outb THEN tested ELSE passed
                  [] b = "ad" -> s1
                  [] b = "ae" -> s2
                  [] b = "a7" -> s3
                  [] b = "a8" -> s4
                  [] OTHER    -> k
      /\ stale' = (stale \/ (b = "aa" /\ ~kbd.tested /\ kbd.outb))
      /\ UNCHANGED <<pic, keys, handlers>>
  BY DEF Kbd!write_64
<1>2. Plain(kbd, k)
  BY <1>0, StoredPlain, Zenon
<1>3. KbdOK(k) /\ Kept(kbd, k) /\ DOMAIN k = KbdFields
  BY <1>0, <1>2, PlainKept, Zenon DEF Plain
<1>4. Kept(kbd, said)
  <2>1. Kept(k, said)
    BY <1>3, ControllerEnQKept, Zenon
  <2> QED  BY <1>3, <2>1, KeptTwice, Zenon
<1>5. Kept(kbd, full)
  <2>1. Plain(k, full)
    BY <1>3, StoredPlain, Zenon
  <2>2. Kept(k, full)
    BY <1>3, <2>1, PlainKept, Zenon
  <2> QED  BY <1>3, <2>2, KeptTwice, Zenon
<1>6. Kept(kbd, s1) /\ Kept(kbd, s2) /\ Kept(kbd, s3) /\ Kept(kbd, s4)
  <2>1. Plain(k, s1) /\ Plain(k, s2) /\ Plain(k, s3) /\ Plain(k, s4)
    <3> HIDE DEF k
    <3>1. \A on : Plain(k, Kbd!set_kbd_clock_enable(k, on)) /\ Plain(k, Kbd!set_aux_clock_enable(k, on))
      BY <1>3, ClocksSame, Zenon DEF Plain
    <3> QED  BY <3>1, Zenon
  <2>2. \A r : Plain(k, r) => Kept(kbd, r)
    BY <1>3, PlainKept, KeptTwice, Zenon
  <2> HIDE DEF s1, s2, s3, s4
  <2> QED  BY <2>1, <2>2, Zenon
<1>7. tested.outb \in BOOLEAN \/ TRUE
  OBVIOUS
<1>8. CASE b = "aa" /\ ~kbd.tested
  <2> DEFINE f == [new EXCEPT !.kbdByte = Kbd!Answer, !.outb = TRUE, !.auxb = FALSE]
  <2>0. /\ DOMAIN new = KbdFields /\ new.outb = FALSE /\ new.tested = TRUE
    BY <1>3, SMT DEF KbdFields
  <2>1. kbd' = Kbd!Request(f, Kbd!Kbd)
    <3>1. tested = new
      BY <1>8
    <3>2. kbd' = IF tested.outb THEN tested ELSE passed
      <4> HIDE DEF k, new, tested, full, said, passed, s1, s2, s3, s4
      <4> QED  BY <1>1, <1>8, SMT DEF Kbd!Ports, Kbd!Answered
    <3>3. kbd' = passed
      BY <2>0, <3>1, <3>2, Zenon
    <3> QED  BY <2>0, <3>1, <3>3, Zenon DEF Kbd!controller_enQ
  <2>2. /\ DOMAIN f = KbdFields /\ f.outb = TRUE /\ f.auxb = FALSE /\ f.kbdByte = Kbd!Answer
        /\ SameQueues(k, f) /\ f.allow = k.allow /\ f.requested = k.requested /\ f.tested = TRUE
    BY <1>3, SMT DEF KbdFields, SameQueues
  <2> HIDE DEF f, k, new
  <2>3. /\ DOMAIN kbd' = KbdFields /\ SameBuffer(f, kbd') /\ SameQueues(f, kbd') /\ kbd'.allow = f.allow
        /\ Kbd!Kbd \in f.allow => kbd'.requested = f.requested \cup {Kbd!Kbd}
        /\ Kbd!Kbd \notin f.allow => kbd'.requested = f.requested
    BY <2>1, <2>2, RequestIs, SMT
  <2>4. kbd'.tested = TRUE
    <3>1. kbd' = f \/ kbd' = [f EXCEPT !.requested = @ \cup {Kbd!Kbd}]
      BY <2>1, Zenon DEF Kbd!Request
    <3> QED  BY <2>2, <3>1, SMT DEF KbdFields
  <2>5. /\ DOMAIN kbd' = KbdFields /\ kbd'.outb = TRUE /\ kbd'.auxb = FALSE /\ kbd'.kbdByte = Kbd!Answer
        /\ SameQueues(kbd, kbd') /\ kbd'.allow = kbd.allow /\ kbd.requested \subseteq kbd'.requested
        /\ Kbd!Kbd \in kbd'.allow => kbd'.requested # {}
    BY <1>2, <2>2, <2>3, Zenon DEF Plain, SameBuffer, SameQueues, SameLine
  <2>6. Kbd!Answer \in Datum /\ Kbd!Answer[1] # "key"
    BY SMT DEF Kbd!Answer, Datum
  <2>7. KbdOK(kbd')
    BY <1>0, <2>5, <2>6, Zenon DEF KbdOK, SameQueues
  <2>8. KeysIn(kbd', keys)
    <3>1. Oldest(kbd'.kbdByte, kbd'.kbdQ, keys)
      BY <2>5, <2>6, NoKeyOldest, Zenon
    <3>2. Ordered(kbd'.kbdQ, keys)
      BY <1>0, <2>5, Zenon DEF KeysIn, SameQueues
    <3> QED  BY <3>1, <3>2, Zenon DEF KeysIn
  <2>9. Kbd!Reader(kbd') = Kbd!Kbd
    BY <2>5, Zenon DEF Kbd!Reader
  <2>10. ASSUME ~stale' PROVE ~stale /\ ~kbd.outb
    BY <1>1, <1>8, <2>10, Zenon
  <2>11. ~stale' => pic.line = {}
    BY <2>10, Zenon DEF KbdSound
  <2>12. KbdSound'
    BY <1>0, <1>1, <2>5, <2>7, <2>8, <2>9, <2>11, Zenon DEF KbdSound, Kbd!Reader
  <2>13. KbdOrder
    BY <1>8, <2>4, Zenon DEF KbdOrder
  <2> QED  BY <2>12, <2>13
<1>9. CASE ~(b = "aa" /\ ~kbd.tested)
  <2>1. kbd' \in {k, said, full, s1, s2, s3, s4}
    <3>1. b = "aa" => tested = k /\ passed = said
      BY <1>9
    <3> HIDE DEF k, new, tested, full, said, passed, s1, s2, s3, s4
    <3>2. b = "aa" => kbd' \in {k, said}
      BY <1>1, <3>1, SMT DEF Kbd!Ports, Kbd!Answered
    <3>3. b # "aa" => kbd' \in {k, said, full, s1, s2, s3, s4}
      BY <1>1, SMT
    <3> QED  BY <3>2, <3>3, Zenon
  <2> HIDE DEF k, said, full, s1, s2, s3, s4
  <2>2. Kept(kbd, kbd')
    BY <1>3, <1>4, <1>5, <1>6, <2>1, Zenon
  <2>3. stale' = stale
    <3>1. (b = "aa" /\ ~kbd.tested /\ kbd.outb) = FALSE
      BY <1>9, Zenon
    <3>2. stale' = (stale \/ FALSE)
      BY <1>1, <3>1, Zenon
    <3>3. (stale \/ FALSE) = stale
      BY SMT DEF KbdSound
    <3> QED  BY <3>2, <3>3
  <2> QED  BY <1>1, <2>2, <2>3, KbdQuietly, Zenon
<1> QED  BY <1>8, <1>9

\* A command byte: the interrupt of a waiting byte that it allows is asked for again.
LEMMA SettingKeeps ==
  ASSUME KbdSound, NEW v, kbd' = Kbd!write_command_byte(v), UNCHANGED <<pic, keys, handlers, stale>>
  PROVE  KbdSound' /\ KbdOrder
<1> DEFINE new == {i \in {Kbd!Kbd, Kbd!Aux} : v[IF i = Kbd!Kbd THEN 1 ELSE 2]}
           a == [kbd EXCEPT !.port60 = "none", !.allow = new]
           e == Kbd!set_kbd_clock_enable(a, ~v[3])
           k == Kbd!set_aux_clock_enable(e, ~v[4])
<1>0. /\ KbdOK(kbd) /\ DOMAIN kbd = KbdFields
  BY Zenon DEF KbdSound, KbdOK
<1>1. kbd' = IF Kbd!Aux \in k.allow /\ k.auxb THEN Kbd!Request(k, Kbd!Aux)
             ELSE IF k.outb THEN Kbd!Request(k, Kbd!Kbd) ELSE k
  BY DEF Kbd!write_command_byte
<1> HIDE DEF new
<1>2. DOMAIN a = KbdFields /\ SameBuffer(kbd, a) /\ SameQueues(kbd, a) /\ a.requested = kbd.requested
  BY <1>0, SMT DEF KbdFields, SameBuffer, SameQueues
<1> HIDE DEF a
<1>3. DOMAIN e = KbdFields /\ SameBuffer(a, e) /\ SameLine(a, e) /\ SameQueues(a, e)
  BY <1>2, ClocksSame, Zenon
<1> HIDE DEF e
<1>4. DOMAIN k = KbdFields /\ SameBuffer(e, k) /\ SameLine(e, k) /\ SameQueues(e, k)
  BY <1>3, ClocksSame, Zenon
<1> HIDE DEF k
<1>5. /\ DOMAIN k = KbdFields /\ SameBuffer(kbd, k) /\ SameQueues(kbd, k) /\ k.requested = kbd.requested
  BY <1>2, <1>3, <1>4, Zenon DEF SameBuffer, SameLine, SameQueues
<1>6. \A i, r : r = Kbd!Request(k, i) =>
        /\ DOMAIN r = KbdFields /\ SameBuffer(k, r) /\ SameQueues(k, r) /\ r.allow = k.allow
        /\ i \in k.allow => r.requested = k.requested \cup {i}
        /\ i \notin k.allow => r.requested = k.requested
  BY <1>5, RequestIs, SMT
<1>7. /\ DOMAIN kbd' = KbdFields /\ SameBuffer(k, kbd') /\ SameQueues(k, kbd') /\ kbd'.allow = k.allow
      /\ (kbd'.outb /\ Kbd!Reader(kbd') \in kbd'.allow) => kbd'.requested # {}
  <2>1. CASE Kbd!Aux \in k.allow /\ k.auxb
    <3>1. kbd' = Kbd!Request(k, Kbd!Aux)
      BY <1>1, <2>1
    <3>2. /\ DOMAIN kbd' = KbdFields /\ SameBuffer(k, kbd') /\ SameQueues(k, kbd') /\ kbd'.allow = k.allow
          /\ Kbd!Aux \in k.allow => kbd'.requested = k.requested \cup {Kbd!Aux}
      BY <1>6, <3>1, Zenon
    <3>3. kbd'.requested # {}
      BY <2>1, <3>2, Zenon
    <3> QED  BY <3>2, <3>3, Zenon
  <2>2. CASE ~(Kbd!Aux \in k.allow /\ k.auxb) /\ k.outb
    <3>1. kbd' = Kbd!Request(k, Kbd!Kbd)
      BY <1>1, <2>2
    <3>2. /\ DOMAIN kbd' = KbdFields /\ SameBuffer(k, kbd') /\ SameQueues(k, kbd') /\ kbd'.allow = k.allow
          /\ Kbd!Kbd \in k.allow => kbd'.requested = k.requested \cup {Kbd!Kbd}
      BY <1>6, <3>1, Zenon
    <3>3. ASSUME Kbd!Reader(kbd') \in kbd'.allow PROVE Kbd!Kbd \in k.allow
      <4>1. kbd'.auxb = k.auxb
        BY <3>2, Zenon DEF SameBuffer
      <4>2. CASE k.auxb
        BY <2>2, <3>2, <3>3, <4>1, <4>2, Zenon DEF Kbd!Reader
      <4>3. CASE ~k.auxb
        BY <3>2, <3>3, <4>1, <4>3, Zenon DEF Kbd!Reader
      <4> QED  BY <4>2, <4>3
    <3> QED  BY <3>2, <3>3, Zenon
  <2>3. CASE ~(Kbd!Aux \in k.allow /\ k.auxb) /\ ~k.outb
    BY <1>1, <1>5, <2>3, Zenon DEF SameBuffer, SameQueues
  <2> QED  BY <2>1, <2>2, <2>3
<1>8. SameBuffer(kbd, kbd') /\ SameQueues(kbd, kbd')
  BY <1>5, <1>7, Zenon DEF SameBuffer, SameQueues
<1>9. KbdOK(kbd') /\ KeysIn(kbd', keys')
  BY <1>0, <1>7, <1>8, Zenon DEF KbdSound, KbdOK, KeysIn, SameBuffer, SameQueues
<1>10. KeysOf(kbd) \subseteq KeysOf(kbd')
  <2>1. kbd'.outb = kbd.outb /\ kbd'.auxb = kbd.auxb /\ kbd'.kbdByte = kbd.kbdByte /\ kbd'.kbdQ = kbd.kbdQ
    BY <1>8, Zenon DEF SameBuffer, SameQueues
  <2>2. KeysOf(kbd') = KeysOf(kbd)
    BY <2>1 DEF KeysOf
  <2> QED  BY <2>2
<1>11. kbd'.outb = kbd.outb /\ Kbd!Reader(kbd') = Kbd!Reader(kbd)
  BY <1>8, Zenon DEF SameBuffer, Kbd!Reader
<1>12. KbdSound'
  <2>1. ~stale' => \A i \in pic'.line : kbd'.outb /\ i = Kbd!Reader(kbd') /\ (i \in pic'.irr \/ handlers' # {})
    BY <1>11, Zenon DEF KbdSound
  <2> QED  BY <1>7, <1>9, <2>1, Zenon DEF KbdSound, Kbd!Reader
<1>13. KbdOrder
  BY <1>10, PendingIs, Zenon DEF KbdOrder
<1> QED  BY <1>12, <1>13

\* A byte that the guest writes to port 60h.
LEMMA DatumKeeps ==
  ASSUME KbdSound, Kbd!write_60
  PROVE  KbdSound' /\ KbdOrder
<1> DEFINE k == [kbd EXCEPT !.port60 = "none"]
<1>0. /\ KbdOK(kbd) /\ DOMAIN kbd = KbdFields
  BY Zenon DEF KbdSound, KbdOK
<1>1. /\ UNCHANGED <<pic, keys, handlers, stale>>
      /\ \/ \E b : kbd' = Kbd!kbd_ctrl_to_kbd(k, b)
         \/ \E v : kbd' = Kbd!write_command_byte(v)
         \/ kbd' = k
         \/ \E source \in {Kbd!Kbd, Kbd!Aux} : kbd' = Kbd!controller_enQ(k, Kbd!Answer, source)
         \/ \E b : kbd' = Kbd!kbd_ctrl_to_mouse(k, b)
  BY Zenon DEF Kbd!write_60
<1>2. Plain(kbd, k)
  BY <1>0, StoredPlain, Zenon
<1>3. KbdOK(k) /\ Kept(kbd, k) /\ DOMAIN k = KbdFields
  BY <1>0, <1>2, PlainKept, Zenon DEF Plain
<1>4. CASE \E b : kbd' = Kbd!kbd_ctrl_to_kbd(k, b)
  <2>1. PICK b : kbd' = Kbd!kbd_ctrl_to_kbd(k, b)
    BY <1>4
  <2>2. b \in Loses => KbdOrder
    BY <2>1, Zenon DEF KbdOrder
  <2> HIDE DEF k
  <2>3. KbdOK(kbd') /\ LineKept(k, kbd') /\ DataKept(k, kbd') /\ (b \notin Loses => KeysStay(k, kbd'))
    BY <1>3, <2>1, KbdSendKept, Zenon
  <2>4. LineKept(kbd, kbd')
    <3>1. k.outb = kbd.outb /\ k.auxb = kbd.auxb /\ k.allow = kbd.allow /\ k.requested = kbd.requested
      BY <1>2, Zenon DEF Plain, SameBuffer, SameLine
    <3> QED  BY <2>3, <3>1, Zenon DEF LineKept
  <2>5. DataKept(kbd, kbd')
    BY <1>3, <2>3, Zenon DEF Kept, DataKept
  <2>6. KbdSound'
    BY <1>1, <2>4, <2>5, KbdQuiet, Zenon
  <2>7. b \notin Loses => KbdOrder
    BY <1>3, <2>3, PendingIs, Zenon DEF KbdOrder, Kept, KeysStay
  <2> QED  BY <2>2, <2>6, <2>7, Zenon
<1>5. CASE \E v : kbd' = Kbd!write_command_byte(v)
  BY <1>1, <1>5, SettingKeeps, Zenon
<1> HIDE DEF k
<1>6. CASE kbd' = k
  BY <1>1, <1>3, <1>6, KbdQuietly, Zenon
<1>7. CASE \E source \in {Kbd!Kbd, Kbd!Aux} : kbd' = Kbd!controller_enQ(k, Kbd!Answer, source)
  <2>1. Kept(k, kbd')
    BY <1>3, <1>7, ControllerEnQKept, Zenon
  <2>2. Kept(kbd, kbd')
    BY <1>3, <2>1, KeptTwice, Zenon
  <2> QED  BY <1>1, <2>2, KbdQuietly, Zenon
<1>8. CASE \E b : kbd' = Kbd!kbd_ctrl_to_mouse(k, b)
  <2>1. Kept(k, kbd')
    BY <1>3, <1>8, MouseSendKept, Zenon
  <2>2. Kept(kbd, kbd')
    BY <1>3, <2>1, KeptTwice, Zenon
  <2> QED  BY <1>1, <2>2, KbdQuietly, Zenon
<1> QED  BY <1>1, <1>4, <1>5, <1>6, <1>7, <1>8, Zenon

\* Every step of the keyboard controller and its driver.
LEMMA KbdKeeps ==
  ASSUME KbdSound, Kbd!Next
  PROVE  KbdSound' /\ KbdOrder
<1>1. CASE Kbd!gen_scancode
  BY <1>1, StrikeKeeps
<1>2. CASE (\E d \in Movements, b \in BOOLEAN : Kbd!mouse_motion(d, b)) \/ Kbd!mouse_enabled_changed
  BY <1>2, MotionKeeps
<1>3. CASE Kbd!read
  BY <1>3, ReadKeeps
<1>4. CASE \E b \in KbdCommands : Kbd!write_64(b)
  BY <1>4, CommandKeeps
<1>5. CASE Kbd!write_60
  BY <1>5, DatumKeeps
<1>6. CASE Kbd!timer_handler
  BY <1>6, TickKeeps
<1>7. CASE \E i \in {Kbd!Kbd, Kbd!Aux} : Kbd!TakeInterrupt(i)
  BY <1>7, TakeKeeps
<1> QED  BY <1>1, <1>2, <1>3, <1>4, <1>5, <1>6, <1>7, Zenon DEF Kbd!Next

\* What the invariant says of the controller to its driver.
LEMMA KbdSays ==
  ASSUME KbdSound
  PROVE  Kbd!OnlyMixedBytesSilence /\ Kbd!PacketsAreWhole
<1>1. Kbd!OnlyMixedBytesSilence
  BY Zenon DEF KbdSound, Kbd!OnlyMixedBytesSilence
<1>2. Kbd!PacketsAreWhole
  <2>1. kbd.mouseQ \in Seq(Datum) /\ Whole(kbd.mouseQ)
    BY Zenon DEF KbdSound, KbdOK
  <2>2. DOMAIN kbd.mouseQ = 1 .. Len(kbd.mouseQ)
    BY <2>1, SMT
  <2> QED  BY <2>1, <2>2, Zenon DEF Whole, Kbd!PacketsAreWhole
<1> QED  BY <1>1, <1>2

-----------------------------------------------------------------------------
(* The network card: its interrupt line. *)

CardFields ==
  {"stop", "start", "ISR", "IMR", "loop", "promisc", "page_start", "page_stop", "bound_ptr", "curr_page",
   "remote_dma", "remote_bytes", "tx_timer_active"}
DriverFields == {"lag", "ready", "handling", "draining", "waiting", "next", "got"}

\* A line that is high is requested or served, and so is an event that is pending,
\* unless it is a frame that came masked; with no event pending the line is low; and a driver that
\* waits for its transmission is going to be told.
CardLine ==
  /\ pic \in LineType /\ DOMAIN card = CardFields /\ DOMAIN cardDrv = DriverFields
  /\ card.IMR \subseteq Card!Events
  /\ 3 \in pic.line => 3 \in pic.irr \/ cardDrv.handling
  /\ \A b \in Card!Events : b \in card.ISR => (b = "rx" /\ b \in masked) \/ 3 \in pic.irr \/ cardDrv.handling
  /\ card.ISR \cap Card!Events = {} => 3 \notin pic.line
  /\ cardDrv.waiting => cardTimer \/ "tx" \in card.ISR \/ "tx" \in masked
  /\ ~cardDrv.ready => card.stop /\ card.IMR = {} /\ card.ISR \cap Card!Events = {}

\* The card's operations on its line.
LEMMA CardLines ==
  ASSUME NEW p, NEW i
  PROVE  /\ Card!raise_irq(p, i) = Raised(p, i) /\ Card!lower_irq(p, i) = Lowered(p, i)
         /\ Card!take_irq(p, i) = Taken(p, i) /\ Card!Line = 3
  BY Zenon DEF Card!raise_irq, Card!lower_irq, Card!take_irq, Raised, Lowered, Taken, Card!Line

\* A step that leaves the events, the mask, the line and the driver's part in them alone.
LEMMA CardLineQuiet ==
  ASSUME CardLine, UNCHANGED <<pic, masked>>, DOMAIN card' = CardFields, DOMAIN cardDrv' = DriverFields,
         card'.IMR = card.IMR \/ (card'.IMR \subseteq Card!Events /\ cardDrv'.ready),
         card'.ISR \cap Card!Events = card.ISR \cap Card!Events,
         cardDrv'.ready = cardDrv.ready, cardDrv'.handling = cardDrv.handling,
         cardDrv'.waiting => (cardDrv.waiting /\ (cardTimer => cardTimer')) \/ cardTimer',
         ~cardDrv.ready => card'.stop = card.stop
  PROVE  CardLine'
<1>1. \A b \in Card!Events : b \in card'.ISR <=> b \in card.ISR
  BY Zenon
<1>2. "tx" \in Card!Events
  BY SMT DEF Card!Events
<1>3. card'.IMR \subseteq Card!Events
  BY Zenon DEF CardLine
<1>4. cardDrv'.waiting => cardTimer' \/ "tx" \in card'.ISR \/ "tx" \in masked'
  BY <1>1, <1>2, Zenon DEF CardLine
<1>5. ~cardDrv'.ready => card'.stop /\ card'.IMR = {} /\ card'.ISR \cap Card!Events = {}
  BY Zenon DEF CardLine
<1>6. \A b \in Card!Events : b \in card'.ISR => (b = "rx" /\ b \in masked') \/ 3 \in pic'.irr \/ cardDrv'.handling
  BY <1>1, Zenon DEF CardLine
<1>7. /\ pic' \in LineType
      /\ 3 \in pic'.line => 3 \in pic'.irr \/ cardDrv'.handling
      /\ card'.ISR \cap Card!Events = {} => 3 \notin pic'.line
  BY Zenon DEF CardLine
<1> QED  BY <1>3, <1>4, <1>5, <1>6, <1>7, Zenon DEF CardLine, Card!Events

\* An event: its line rises when it is enabled.
LEMMA SignalLine ==
  ASSUME CardLine, NEW r, DOMAIN r = CardFields, r.ISR = card.ISR, r.IMR = card.IMR, NEW b \in Card!Events,
         Card!Signal(r, b), cardDrv.ready \/ b \in r.IMR, masked \ {b} \subseteq masked', b \in r.IMR \/ (b = "rx" /\ b \in masked'),
         cardDrv' = cardDrv, cardTimer' = cardTimer \/ b = "tx"
  PROVE  CardLine'
<1>1. card' = [r EXCEPT !.ISR = @ \cup {b}] /\ pic' = IF b \in r.IMR THEN Raised(pic, 3) ELSE pic
  BY CardLines, Zenon DEF Card!Signal
<1>2. DOMAIN card' = CardFields /\ card'.ISR = card.ISR \cup {b} /\ card'.IMR = card.IMR
  BY <1>1, SMT DEF CardFields
<1>3. pic \in LineType /\ 3 \in Int
  BY SMT DEF CardLine
<1>4. /\ pic' \in LineType
      /\ 3 \in pic.irr => 3 \in pic'.irr
      /\ 3 \in pic'.line => 3 \in pic'.irr \/ cardDrv.handling
      /\ b \in r.IMR => 3 \in pic'.line
  <2>1. CASE b \in r.IMR
    <3>1. pic' = Raised(pic, 3)
      BY <1>1, <2>1
    <3>2. /\ pic' \in LineType /\ pic'.line = pic.line \cup {3}
          /\ 3 \notin pic.line => pic'.irr = pic.irr \cup {3}
          /\ 3 \in pic.line => pic'.irr = pic.irr
      BY <1>3, <3>1, RaisedIs, SMT
    <3> QED  BY <3>2, Zenon DEF CardLine
  <2>2. CASE b \notin r.IMR
    <3>1. pic' = pic
      BY <1>1, <2>2
    <3> QED  BY <1>3, <2>2, <3>1, Zenon DEF CardLine
  <2> QED  BY <2>1, <2>2
<1>5. \A a \in Card!Events : a \in card'.ISR => (a = "rx" /\ a \in masked') \/ 3 \in pic'.irr \/ cardDrv'.handling
  <2> SUFFICES ASSUME NEW a \in Card!Events, a \in card'.ISR
               PROVE  (a = "rx" /\ a \in masked') \/ 3 \in pic'.irr \/ cardDrv'.handling
    BY Zenon
  <2>1. CASE a = b
    BY <1>4, <2>1, Zenon
  <2>2. CASE a # b
    BY <1>2, <1>4, <2>2, Zenon DEF CardLine
  <2> QED  BY <2>1, <2>2
<1>6. b \in card'.ISR \cap Card!Events
  BY <1>2, Zenon
<1>7. cardDrv'.waiting => cardTimer' \/ "tx" \in card'.ISR \/ "tx" \in masked'
  BY <1>2, Zenon DEF CardLine
<1>8. cardDrv'.ready
  <2>1. ~cardDrv.ready => b \notin r.IMR
    BY Zenon DEF CardLine
  <2> QED  BY <2>1, Zenon
<1> QED  BY <1>2, <1>4, <1>5, <1>6, <1>7, <1>8, Zenon DEF CardLine, Card!Events

\* A frame that arrives.
LEMMA RxLine ==
  ASSUME CardLine, NEW n, NEW own, Card!rx_frame(n, own), UNCHANGED <<cardTimer, cardDrv>>
  PROVE  CardLine'
<1>1. CASE UNCHANGED <<card, pic, masked>>
  BY <1>1, Zenon DEF CardLine, Card!Events
<1>2. CASE ~UNCHANGED <<card, pic, masked>>
  <2> DEFINE r == [card EXCEPT !.curr_page = Card!After(card.curr_page, n)]
  <2>1. Card!Listening /\ Card!Signal(r, "rx") /\ masked' = Card!Marked("rx")
    BY <1>2, Zenon DEF Card!rx_frame
  <2>2. DOMAIN r = CardFields /\ r.ISR = card.ISR /\ r.IMR = card.IMR
    BY SMT DEF CardLine, CardFields
  <2> HIDE DEF r
  <2>3. cardDrv.ready
    BY <2>1, Zenon DEF CardLine, Card!Listening
  <2>4. "rx" \in Card!Events
    BY SMT DEF Card!Events
  <2>5. masked \ {"rx"} \subseteq masked' /\ ("rx" \in r.IMR \/ "rx" \in masked')
    BY <2>1, <2>2, Zenon DEF Card!Marked
  <2>6. cardTimer' = cardTimer
    BY Zenon
  <2> QED  BY <2>1, <2>2, <2>3, <2>4, <2>5, <2>6, SignalLine, Zenon
<1> QED  BY <1>1, <1>2

\* The card's line as it begins.
LEMMA CardLineStarts ==
  ASSUME Card!Init
  PROVE  CardLine
<1>1. /\ DOMAIN card = CardFields /\ card.stop = TRUE /\ card.IMR = {} /\ card.ISR = {"reset"}
      /\ pic = [line |-> {}, irr |-> {}] /\ masked = {}
  BY SMT DEF Card!Init, Card!reset, CardFields, Card!NoIrq
<1>2. DOMAIN cardDrv = DriverFields /\ cardDrv.waiting = FALSE /\ cardDrv.ready = FALSE
  <2>1. cardDrv = Card!Idle(0) \/ cardDrv = Card!Idle(1)
    BY Zenon DEF Card!Init
  <2>2. CASE cardDrv = Card!Idle(0)
    BY <2>2, SMT DEF Card!Idle, DriverFields
  <2>3. CASE cardDrv = Card!Idle(1)
    BY <2>3, SMT DEF Card!Idle, DriverFields
  <2> QED  BY <2>1, <2>2, <2>3
<1>3. pic \in LineType /\ pic.line = {} /\ card.ISR \cap Card!Events = {}
  BY <1>1, SMT DEF LineType, Card!Events
<1> QED  BY <1>1, <1>2, <1>3, Zenon DEF CardLine

\* The driver's steps and the writes that change no event.
LEMMA CardLineOthers ==
  ASSUME CardLine,
         \/ Card!StopCard \/ Card!StartCard \/ Card!Transmit \/ Card!WriteIMR \/ Card!StartFrame
         \/ Card!asic_read \/ Card!FinishFrame \/ Card!RingDrained
  PROVE  CardLine'
<1>0. DOMAIN card = CardFields /\ DOMAIN cardDrv = DriverFields
  BY Zenon DEF CardLine
<1>1. "reset" \notin Card!Events /\ "rdma" \notin Card!Events
  BY SMT DEF Card!Events
<1>2. CASE Card!StopCard
  <2>1. /\ DOMAIN card' = CardFields /\ card'.IMR = card.IMR /\ card'.ISR = card.ISR \cup {"reset"}
    BY <1>0, <1>2, SMT DEF Card!StopCard, CardFields
  <2>2. cardDrv.ready /\ UNCHANGED <<pic, masked, cardDrv, cardTimer>>
    BY <1>2, Zenon DEF Card!StopCard
  <2>3. card'.ISR \cap Card!Events = card.ISR \cap Card!Events
    BY <1>1, <2>1, Zenon
  <2> QED  BY <1>0, <2>1, <2>2, <2>3, CardLineQuiet, Zenon
<1>3. CASE Card!StartCard
  <2>1. /\ DOMAIN card' = CardFields /\ card'.IMR = card.IMR /\ card'.ISR = card.ISR \ {"reset"}
    BY <1>0, <1>3, SMT DEF Card!StartCard, CardFields
  <2>2. cardDrv.ready /\ UNCHANGED <<pic, masked, cardDrv, cardTimer>>
    BY <1>3, Zenon DEF Card!StartCard
  <2>3. card'.ISR \cap Card!Events = card.ISR \cap Card!Events
    BY <1>1, <2>1, Zenon
  <2> QED  BY <1>0, <2>1, <2>2, <2>3, CardLineQuiet, Zenon
<1>4. CASE Card!Transmit
  <2>1. /\ DOMAIN card' = CardFields /\ card'.IMR = card.IMR /\ card'.ISR = card.ISR
    BY <1>0, <1>4, SMT DEF Card!Transmit, CardFields
  <2>2. cardDrv' = [cardDrv EXCEPT !.waiting = TRUE]
    BY <1>4, Zenon DEF Card!Transmit
  <2>3. /\ DOMAIN cardDrv' = DriverFields /\ cardDrv'.ready = cardDrv.ready /\ cardDrv'.handling = cardDrv.handling
    BY <1>0, <2>2, SMT DEF DriverFields
  <2>4. cardDrv.ready /\ UNCHANGED pic /\ cardTimer' = TRUE /\ masked' = masked \ {"tx"}
    BY <1>4, Zenon DEF Card!Transmit
  <2>5. "rx" # "tx"
    OBVIOUS
  <2>6. \A b \in Card!Events : b \in card'.ISR => (b = "rx" /\ b \in masked') \/ 3 \in pic'.irr \/ cardDrv'.handling
    BY <2>1, <2>3, <2>4, <2>5, Zenon DEF CardLine
  <2> QED  BY <2>1, <2>3, <2>4, <2>6, Zenon DEF CardLine, Card!Events
<1>5. CASE Card!WriteIMR
  <2>1. PICK m \in SUBSET Card!Events : card' = [card EXCEPT !.IMR = m]
    BY <1>5, Zenon DEF Card!WriteIMR
  <2>2. /\ DOMAIN card' = CardFields /\ card'.IMR = m /\ card'.ISR = card.ISR
    BY <1>0, <2>1, SMT DEF CardFields
  <2>3. cardDrv.ready /\ UNCHANGED <<pic, masked, cardDrv, cardTimer>>
    BY <1>5, Zenon DEF Card!WriteIMR
  <2> QED  BY <1>0, <2>1, <2>2, <2>3, CardLineQuiet, Zenon
<1>6. CASE Card!StartFrame
  <2>1. PICK from : card' = [card EXCEPT !.remote_dma = from, !.remote_bytes = mem[from].pages]
    BY <1>6, Zenon DEF Card!StartFrame
  <2>2. /\ DOMAIN card' = CardFields /\ card'.IMR = card.IMR /\ card'.ISR = card.ISR /\ card'.stop = card.stop
    BY <1>0, <2>1, SMT DEF CardFields
  <2>3. UNCHANGED <<pic, masked, cardDrv, cardTimer>>
    BY <1>6, Zenon DEF Card!StartFrame
  <2> QED  BY <1>0, <2>2, <2>3, CardLineQuiet, Zenon
<1>7. CASE Card!asic_read
  <2>1. /\ DOMAIN card' = CardFields /\ card'.IMR = card.IMR /\ card'.stop = card.stop
        /\ card'.ISR = IF card.remote_bytes = 1 THEN card.ISR \cup {"rdma"} ELSE card.ISR
    BY <1>0, <1>7, SMT DEF Card!asic_read, CardFields
  <2>2. /\ DOMAIN cardDrv' = DriverFields /\ cardDrv'.ready = cardDrv.ready /\ cardDrv'.handling = cardDrv.handling
        /\ cardDrv'.waiting = cardDrv.waiting
    BY <1>0, <1>7, SMT DEF Card!asic_read, DriverFields
  <2>3. UNCHANGED <<pic, masked, cardTimer>>
    BY <1>7, Zenon DEF Card!asic_read
  <2>4. card'.ISR \cap Card!Events = card.ISR \cap Card!Events
    BY <1>1, <2>1, Zenon
  <2> QED  BY <2>1, <2>2, <2>3, <2>4, CardLineQuiet, Zenon
<1>8. CASE Card!FinishFrame
  <2>1. /\ DOMAIN card' = CardFields /\ card'.IMR = card.IMR /\ card'.stop = card.stop
        /\ card'.ISR = card.ISR \ {"rdma"}
    BY <1>0, <1>8, SMT DEF Card!FinishFrame, CardFields
  <2>2. /\ DOMAIN cardDrv' = DriverFields /\ cardDrv'.ready = cardDrv.ready /\ cardDrv'.handling = cardDrv.handling
        /\ cardDrv'.waiting = cardDrv.waiting
    BY <1>0, <1>8, SMT DEF Card!FinishFrame, DriverFields
  <2>3. UNCHANGED <<pic, masked, cardTimer>>
    BY <1>8, Zenon DEF Card!FinishFrame
  <2>4. card'.ISR \cap Card!Events = card.ISR \cap Card!Events
    BY <1>1, <2>1, Zenon
  <2> QED  BY <2>1, <2>2, <2>3, <2>4, CardLineQuiet, Zenon
<1>9. CASE Card!RingDrained
  <2>1. /\ DOMAIN cardDrv' = DriverFields /\ cardDrv'.ready = cardDrv.ready /\ cardDrv'.handling = cardDrv.handling
        /\ cardDrv'.waiting = cardDrv.waiting
    BY <1>0, <1>9, SMT DEF Card!RingDrained, DriverFields
  <2>2. UNCHANGED <<pic, masked, cardTimer, card>>
    BY <1>9, Zenon DEF Card!RingDrained
  <2> QED  BY <1>0, <2>1, <2>2, CardLineQuiet, Zenon
<1> QED  BY <1>2, <1>3, <1>4, <1>5, <1>6, <1>7, <1>8, <1>9, Zenon

\* The driver sets the card up, after a reset: no event is pending, and the line is low.
LEMMA SetupLine ==
  ASSUME CardLine, Card!Setup
  PROVE  CardLine'
<1>1. PICK promisc, loop :
        card' = [card EXCEPT !.stop = FALSE, !.start = TRUE, !.ISR = {}, !.IMR = Card!Events, !.promisc = promisc,
                             !.loop = loop, !.page_start = RingStart, !.page_stop = Card!Stop,
                             !.curr_page = RingStart + cardDrv.lag, !.bound_ptr = RingStart]
  BY Zenon DEF Card!Setup
<1>2. DOMAIN card' = CardFields /\ card'.ISR = {} /\ card'.IMR = Card!Events
  <2> DEFINE m == Card!Events
             q == Card!Stop
             a == RingStart + cardDrv.lag
  <2>1. DOMAIN card = CardFields
    BY Zenon DEF CardLine
  <2>2. card' = [card EXCEPT !.stop = FALSE, !.start = TRUE, !.ISR = {}, !.IMR = m, !.promisc = promisc,
                             !.loop = loop, !.page_start = RingStart, !.page_stop = q,
                             !.curr_page = a, !.bound_ptr = RingStart]
    BY <1>1
  <2> HIDE DEF m, q, a
  <2>3. DOMAIN card' = CardFields
    BY ONLY <2>1, <2>2, Zenon
  <2>4. card'.ISR = {} /\ card'.IMR = m
    BY ONLY <2>1, <2>2, SMT DEF CardFields
  <2> QED  BY <2>3, <2>4 DEF m
<1>3. cardDrv' = [Card!Idle(cardDrv.lag) EXCEPT !.ready = TRUE, !.next = RingStart + cardDrv.lag]
  BY Zenon DEF Card!Setup
<1>4. DOMAIN cardDrv' = DriverFields /\ cardDrv'.waiting = FALSE /\ cardDrv'.ready = TRUE
  BY <1>3, SMT DEF Card!Idle, DriverFields
<1>5. UNCHANGED <<pic, masked, cardTimer>> /\ ~cardDrv.ready
  BY Zenon DEF Card!Setup
<1>6. 3 \notin pic.line
  BY <1>5, Zenon DEF CardLine
<1> QED  BY <1>2, <1>4, <1>5, <1>6, Zenon DEF CardLine, Card!Events

\* A reset of the card lowers its line.
LEMMA AsicResetLine ==
  ASSUME CardLine, Card!AsicReset
  PROVE  CardLine'
<1>1. card' = Card!reset /\ pic' = Lowered(pic, 3) /\ cardDrv' = Card!Idle(cardDrv.lag) /\ masked' = {}
  BY CardLines, Zenon DEF Card!AsicReset
<1>2. /\ DOMAIN card' = CardFields /\ card'.stop = TRUE /\ card'.IMR = {} /\ card'.ISR = {"reset"}
      /\ card'.ISR \cap Card!Events = {}
  BY <1>1, SMT DEF Card!reset, CardFields, Card!Events
<1>3. DOMAIN cardDrv' = DriverFields /\ cardDrv'.waiting = FALSE /\ cardDrv'.ready = FALSE
  BY <1>1, SMT DEF Card!Idle, DriverFields
<1>4. pic' \in LineType /\ 3 \notin pic'.line
  <2>1. pic \in LineType /\ 3 \in Int
    BY SMT DEF CardLine
  <2>2. pic' \in LineType /\ pic'.line = pic.line \ {3}
    BY <1>1, <2>1, LoweredIs, SMT
  <2> QED  BY <2>2, Zenon
<1> QED  BY <1>2, <1>3, <1>4, Zenon DEF CardLine, Card!Events

\* The transmit timer: an event that is enabled is announced, unless it is pending already.
LEMMA TxLine ==
  ASSUME CardLine, Card!tx_timer
  PROVE  CardLine'
<1> DEFINE r == [card EXCEPT !.tx_timer_active = FALSE]
<1>1. DOMAIN r = CardFields /\ r.ISR = card.ISR /\ r.IMR = card.IMR /\ r.stop = card.stop
  BY SMT DEF CardLine, CardFields
<1>2. cardDrv' = cardDrv /\ cardTimer' = FALSE /\ "tx" \in Card!Events
  BY SMT DEF Card!tx_timer, Card!Events
<1>3. CASE "tx" \in card.IMR /\ "tx" \notin card.ISR
  <2>1. Card!Signal(r, "tx") /\ masked' = masked
    BY <1>3, Zenon DEF Card!tx_timer
  <2> HIDE DEF r
  <2> QED  BY <1>1, <1>2, <1>3, <2>1, SignalLine, Zenon
<1>4. CASE ~("tx" \in card.IMR /\ "tx" \notin card.ISR)
  <2>1. card' = r /\ pic' = pic /\ masked' = IF "tx" \in card.IMR THEN masked ELSE masked \cup {"tx"}
    BY <1>4, Zenon DEF Card!tx_timer
  <2> HIDE DEF r
  <2>2. masked \subseteq masked' /\ ("tx" \in masked' \/ "tx" \in card.ISR)
    BY <1>4, <2>1, Zenon
  <2>3. \A b \in Card!Events : b \in card'.ISR => (b = "rx" /\ b \in masked') \/ 3 \in pic'.irr \/ cardDrv'.handling
    BY <1>1, <1>2, <2>1, <2>2, Zenon DEF CardLine
  <2> QED  BY <1>1, <1>2, <2>1, <2>2, <2>3, Zenon DEF CardLine, Card!Events
<1> QED  BY <1>3, <1>4

\* The driver's handler starts.
LEMMA CardTakenLine ==
  ASSUME CardLine, Card!TakeInterrupt
  PROVE  CardLine'
<1>1. pic' = Taken(pic, 3) /\ cardDrv' = [cardDrv EXCEPT !.handling = TRUE] /\ UNCHANGED <<card, masked, cardTimer>>
  BY CardLines, Zenon DEF Card!TakeInterrupt
<1>2. /\ DOMAIN cardDrv' = DriverFields /\ cardDrv'.handling = TRUE /\ cardDrv'.ready = cardDrv.ready
      /\ cardDrv'.waiting = cardDrv.waiting
  BY <1>1, SMT DEF CardLine, DriverFields
<1>3. pic' \in LineType /\ pic'.line = pic.line
  <2>1. pic \in LineType /\ 3 \in Int
    BY SMT DEF CardLine
  <2> QED  BY <1>1, <2>1, TakenIs, SMT
<1> QED  BY <1>1, <1>2, <1>3, Zenon DEF CardLine, Card!Events

\* The driver acknowledges an event; the line falls with the last one that is enabled.
LEMMA AcknowledgeLine ==
  ASSUME CardLine, NEW b \in Card!Events, Card!Acknowledge(b)
  PROVE  CardLine'
<1>1. /\ card' = [card EXCEPT !.ISR = @ \ {b}]
      /\ pic' = IF (card.ISR \ {b}) \cap card.IMR = {} THEN Lowered(pic, 3) ELSE pic
      /\ cardDrv' = IF b = "rx" THEN [cardDrv EXCEPT !.draining = TRUE] ELSE [cardDrv EXCEPT !.waiting = FALSE]
      /\ masked' = masked \ {b} /\ cardDrv.handling /\ cardTimer' = cardTimer
  BY CardLines, Zenon DEF Card!Acknowledge, Card!Cleared
<1>2. DOMAIN card' = CardFields /\ card'.ISR = card.ISR \ {b} /\ card'.IMR = card.IMR /\ card'.stop = card.stop
  BY <1>1, SMT DEF CardLine, CardFields
<1>3. /\ DOMAIN cardDrv' = DriverFields /\ cardDrv'.handling = cardDrv.handling /\ cardDrv'.ready = cardDrv.ready
      /\ IF b = "rx" THEN cardDrv'.waiting = cardDrv.waiting ELSE cardDrv'.waiting = FALSE
  <2>1. CASE b = "rx"
    <3>1. cardDrv' = [cardDrv EXCEPT !.draining = TRUE]
      BY <1>1, <2>1
    <3> QED  BY <2>1, <3>1, SMT DEF CardLine, DriverFields
  <2>2. CASE b # "rx"
    <3>1. cardDrv' = [cardDrv EXCEPT !.waiting = FALSE]
      BY <1>1, <2>2
    <3> QED  BY <2>2, <3>1, SMT DEF CardLine, DriverFields
  <2> QED  BY <2>1, <2>2
<1>4. /\ pic' \in LineType
      /\ \/ pic' = pic /\ card'.ISR \cap card.IMR # {}
         \/ 3 \notin pic'.line
  <2>1. pic \in LineType /\ 3 \in Int
    BY SMT DEF CardLine
  <2>2. CASE (card.ISR \ {b}) \cap card.IMR = {}
    <3>1. pic' \in LineType /\ pic'.line = pic.line \ {3}
      BY <1>1, <2>1, <2>2, LoweredIs, SMT
    <3> QED  BY <3>1, Zenon
  <2>3. CASE (card.ISR \ {b}) \cap card.IMR # {}
    BY <1>1, <1>2, <2>1, <2>3, Zenon
  <2> QED  BY <2>2, <2>3
<1>5. card'.ISR \cap Card!Events = {} => 3 \notin pic'.line
  BY <1>4, Zenon DEF CardLine
<1>6. cardDrv'.handling
  BY <1>1, <1>3, Zenon
<1>7. cardDrv'.waiting => cardTimer' \/ "tx" \in card'.ISR \/ "tx" \in masked'
  <2>1. CASE b = "rx"
    <3>1. "rx" # "tx"
      OBVIOUS
    <3> QED  BY <1>1, <1>2, <1>3, <2>1, <3>1, Zenon DEF CardLine
  <2>2. CASE b # "rx"
    BY <1>3, <2>2, Zenon
  <2> QED  BY <2>1, <2>2
<1>8. ~cardDrv'.ready => card'.stop /\ card'.IMR = {} /\ card'.ISR \cap Card!Events = {}
  BY <1>2, <1>3, Zenon DEF CardLine
<1> QED  BY <1>2, <1>3, <1>4, <1>5, <1>6, <1>7, <1>8, Zenon DEF CardLine, Card!Events

\* The handler leaves when no event is left, and the line is then low.
LEMMA ReturnLine ==
  ASSUME CardLine, Card!HandlerReturns
  PROVE  CardLine'
<1>1. /\ cardDrv' = [cardDrv EXCEPT !.handling = FALSE] /\ UNCHANGED <<card, pic, masked, cardTimer>>
      /\ card.ISR \cap Card!Events = {}
  BY Zenon DEF Card!HandlerReturns
<1>2. /\ DOMAIN cardDrv' = DriverFields /\ cardDrv'.ready = cardDrv.ready /\ cardDrv'.waiting = cardDrv.waiting
  BY <1>1, SMT DEF CardLine, DriverFields
<1>3. 3 \notin pic'.line /\ \A b \in Card!Events : b \notin card'.ISR
  BY <1>1, Zenon DEF CardLine
<1> QED  BY <1>1, <1>2, <1>3, Zenon DEF CardLine, Card!Events

\* Every step of the card and its driver.
LEMMA CardLineKeeps ==
  ASSUME CardLine, Card!Next
  PROVE  CardLine'
<1>1. CASE Card!Receive
  <2>1. (\E n, own : Card!rx_frame(n, own)) /\ UNCHANGED <<cardTimer, cardDrv>>
    BY <1>1, Zenon DEF Card!Receive
  <2> QED  BY <2>1, RxLine, Zenon
<1>2. CASE Card!LoopBack
  <2>1. (\E n, own : Card!rx_frame(n, own)) /\ UNCHANGED <<cardTimer, cardDrv>>
    BY <1>2, Zenon DEF Card!LoopBack
  <2> QED  BY <2>1, RxLine, Zenon
<1>3. CASE Card!Setup
  BY <1>3, SetupLine
<1>4. CASE Card!AsicReset
  BY <1>4, AsicResetLine
<1>5. CASE Card!tx_timer
  BY <1>5, TxLine
<1>6. CASE Card!TakeInterrupt
  BY <1>6, CardTakenLine
<1>7. CASE \E b \in Card!Events : Card!Acknowledge(b)
  BY <1>7, AcknowledgeLine
<1>8. CASE Card!HandlerReturns
  BY <1>8, ReturnLine
<1>9. CASE \/ Card!StopCard \/ Card!StartCard \/ Card!Transmit \/ Card!WriteIMR \/ Card!StartFrame
           \/ Card!asic_read \/ Card!FinishFrame \/ Card!RingDrained
  BY <1>9, CardLineOthers
<1> QED  BY <1>1, <1>2, <1>3, <1>4, <1>5, <1>6, <1>7, <1>8, <1>9, Zenon DEF Card!Next

-----------------------------------------------------------------------------
(* The ring of the network card. *)

\* The ring has two pages at least, and a frame takes one at least.
LEMMA RingConstants ==
  /\ RingStart \in Nat \ {0} /\ RingPages \in Nat /\ RingPages >= 2
  /\ PagesOfFrame \subseteq Nat \ {0}
  BY ConstantsAssumption, SMT DEF Card!ConstantsOK

\* How far q is ahead of p, in pages.
Ahead(p, q) == IF q >= p THEN q - p ELSE q - p + RingPages

\* Counting pages around the ring.
LEMMA AfterIs ==
  ASSUME NEW p \in Card!Ring
  PROVE  /\ p \in Int
         /\ \A o \in 0 .. RingPages - 1 : Card!After(p, o) \in Card!Ring /\ Ahead(p, Card!After(p, o)) = o
         /\ \A a, b \in 0 .. RingPages - 1 : a + b <= RingPages - 1 => Card!After(Card!After(p, a), b) = Card!After(p, a + b)
         /\ \A q \in Card!Ring : Ahead(p, q) \in 0 .. RingPages - 1 /\ Card!After(p, Ahead(p, q)) = q
<1>1. RingStart \in Nat \ {0} /\ RingPages \in Nat /\ RingPages >= 2
  BY RingConstants
<1> QED  BY <1>1, SMT DEF Card!Ring, Card!Stop, Card!After, Ahead

\* What the ring holds from page p on.
Seen(m, p, u) == [o \in 0 .. u - 1 |-> m[Card!After(p, o)]]

\* The page at offset o belongs to a frame, all of whose pages are there, each
\* naming the frame, its part, the frame's length and the page behind it.
InFrame(v, p, u, o) ==
  LET x == v[o]
  IN  /\ x.frame \in Int /\ x.part \in Int /\ x.pages \in Int
      /\ 1 <= x.part /\ x.part <= x.pages
      /\ 0 <= o - x.part + 1 /\ o - x.part + 1 + x.pages <= u
      /\ x.next = Card!After(p, o - x.part + 1 + x.pages)
      /\ \A j \in 0 .. x.pages - 1 :
           v[o - x.part + 1 + j] = [frame |-> x.frame, part |-> j + 1, next |-> x.next, pages |-> x.pages]

\* The frames from "first" to "last", each behind the one before.
Layout(v, p, u, first, last) ==
  /\ \A o \in 0 .. u - 1 : InFrame(v, p, u, o)
  /\ \A o \in 0 .. u - 2 : v[o].part = v[o].pages => v[o + 1].part = 1 /\ v[o + 1].frame = v[o].frame + 1
  /\ u > 0 => v[0].frame = first /\ v[0].part = 1 /\ v[u - 1].frame = last
  /\ u = 0 => first = last + 1

\* A frame is put behind the others.
LEMMA LayoutGrows ==
  ASSUME NEW u \in Nat, NEW n \in Nat \ {0}, NEW first \in Int, NEW last \in Int, NEW p, NEW v, NEW w,
         Layout(v, p, u, first, last), \A o \in 0 .. u - 1 : w[o] = v[o],
         \A k \in 0 .. n - 1 :
           w[u + k] = [frame |-> last + 1, part |-> k + 1, next |-> Card!After(p, u + n), pages |-> n]
  PROVE  Layout(w, p, u + n, first, last + 1)
<1> DEFINE end == Card!After(p, u + n)
<1> HIDE DEF end
<1>0. \A k \in 0 .. n - 1 : w[u + k] = [frame |-> last + 1, part |-> k + 1, next |-> end, pages |-> n]
  BY DEF end
<1>1. \A k \in 0 .. n - 1 : w[u + k].frame = last + 1 /\ w[u + k].part = k + 1 /\ w[u + k].next = end /\ w[u + k].pages = n
  <2> SUFFICES ASSUME NEW k \in 0 .. n - 1
               PROVE  w[u + k].frame = last + 1 /\ w[u + k].part = k + 1 /\ w[u + k].next = end /\ w[u + k].pages = n
    BY Zenon
  <2>1. w[u + k] = [frame |-> last + 1, part |-> k + 1, next |-> end, pages |-> n]
    BY <1>0, Zenon
  <2> QED  BY <2>1, SMT
<1>2. ASSUME NEW o \in 0 .. u - 1 PROVE InFrame(w, p, u + n, o)
  <2>1. InFrame(v, p, u, o) /\ w[o] = v[o]
    BY <1>2, Zenon DEF Layout
  <2> DEFINE x == v[o]
             st == o - x.part + 1
  <2>2. /\ x.frame \in Int /\ x.part \in Int /\ x.pages \in Int
        /\ 1 <= x.part /\ x.part <= x.pages /\ 0 <= st /\ st + x.pages <= u
        /\ x.next = Card!After(p, st + x.pages)
        /\ \A j \in 0 .. x.pages - 1 :
             v[st + j] = [frame |-> x.frame, part |-> j + 1, next |-> x.next, pages |-> x.pages]
    BY <2>1, Zenon DEF InFrame
  <2>3. \A j \in 0 .. x.pages - 1 : st + j \in 0 .. u - 1
    BY <2>2, SMT
  <2>4. \A j \in 0 .. x.pages - 1 :
             w[st + j] = [frame |-> x.frame, part |-> j + 1, next |-> x.next, pages |-> x.pages]
    BY <2>2, <2>3, Zenon
  <2>5. st + x.pages <= u + n
    BY <2>2, SMT
  <2> QED  BY <2>1, <2>2, <2>4, <2>5, Zenon DEF InFrame
<1>3. ASSUME NEW o \in u .. u + n - 1 PROVE InFrame(w, p, u + n, o)
  <2>1. o - u \in 0 .. n - 1 /\ u + (o - u) = o
    BY SMT
  <2>2. w[o].frame = last + 1 /\ w[o].part = (o - u) + 1 /\ w[o].next = end /\ w[o].pages = n
    BY <1>1, <2>1, Zenon
  <2>3. o - w[o].part + 1 = u
    BY <2>2, SMT
  <2>4. /\ w[o].frame \in Int /\ w[o].part \in Int /\ w[o].pages \in Int
        /\ 1 <= w[o].part /\ w[o].part <= w[o].pages /\ 0 <= u
        /\ u + w[o].pages <= u + n
    BY <2>1, <2>2, SMT
  <2>5. w[o].next = Card!After(p, u + w[o].pages)
    BY <2>2 DEF end
  <2>6. \A j \in 0 .. w[o].pages - 1 :
          w[u + j] = [frame |-> w[o].frame, part |-> j + 1, next |-> w[o].next, pages |-> w[o].pages]
    BY <1>0, <2>2, Zenon
  <2> QED  BY <2>3, <2>4, <2>5, <2>6, Zenon DEF InFrame
<1>4. \A o \in 0 .. (u + n) - 1 : InFrame(w, p, u + n, o)
  <2> SUFFICES ASSUME NEW o \in 0 .. (u + n) - 1 PROVE InFrame(w, p, u + n, o)
    BY Zenon
  <2>1. o \in 0 .. u - 1 \/ o \in u .. u + n - 1
    BY SMT
  <2> QED  BY <1>2, <1>3, <2>1, Zenon
<1>5. ASSUME NEW o \in 0 .. (u + n) - 2, w[o].part = w[o].pages
      PROVE  w[o + 1].part = 1 /\ w[o + 1].frame = w[o].frame + 1
  <2>1. CASE o \in 0 .. u - 2
    <3>1. o \in 0 .. u - 1 /\ o + 1 \in 0 .. u - 1
      BY <2>1, SMT
    <3>2. w[o] = v[o] /\ w[o + 1] = v[o + 1]
      BY <3>1, Zenon
    <3> QED  BY <1>5, <2>1, <3>2, Zenon DEF Layout
  <2>2. CASE o = u - 1
    <3>1. o \in 0 .. u - 1 /\ u > 0 /\ o + 1 = u + 0 /\ 0 \in 0 .. n - 1
      BY <2>2, SMT
    <3>2. w[o] = v[o] /\ v[o].frame = last
      BY <2>2, <3>1, Zenon DEF Layout
    <3>3. w[o + 1].frame = last + 1 /\ w[o + 1].part = 0 + 1
      BY <1>1, <3>1, Zenon
    <3> QED  BY <3>2, <3>3, SMT
  <2>3. CASE o \in u .. u + n - 2
    <3>1. o - u \in 0 .. n - 2 /\ o - u \in 0 .. n - 1 /\ u + (o - u) = o
      BY <2>3, SMT
    <3>2. w[o].part = (o - u) + 1 /\ w[o].pages = n
      BY <1>1, <3>1, Zenon
    <3>3. (o - u) + 1 # n
      BY <3>1, SMT
    <3> QED  BY <1>5, <3>2, <3>3, Zenon
  <2> QED  BY <2>1, <2>2, <2>3, SMT
<1>6. w[0].frame = first /\ w[0].part = 1
  <2>1. CASE u = 0
    <3>1. w[0 + 0].frame = last + 1 /\ w[0 + 0].part = 0 + 1
      BY <1>1, <2>1, SMT
    <3> QED  BY <2>1, <3>1, SMT DEF Layout
  <2>2. CASE u > 0
    <3>1. 0 \in 0 .. u - 1
      BY <2>2, SMT
    <3> QED  BY <2>2, <3>1, Zenon DEF Layout
  <2> QED  BY <2>1, <2>2, SMT
<1>7. w[(u + n) - 1].frame = last + 1
  <2>1. n - 1 \in 0 .. n - 1 /\ u + (n - 1) = (u + n) - 1
    BY SMT
  <2> QED  BY <1>1, <2>1, Zenon
<1>8. u + n > 0
  BY SMT
<1> QED  BY <1>4, <1>5, <1>6, <1>7, <1>8, SMT DEF Layout

\* The first pages are those of frame "first", in order.
Begins(v, p, u, first) ==
  /\ v[0].pages \in 1 .. u /\ v[0].next = Card!After(p, v[0].pages)
  /\ \A j \in 0 .. v[0].pages - 1 :
       v[j] = [frame |-> first, part |-> j + 1, next |-> v[0].next, pages |-> v[0].pages]

\* The first frame of a ring that holds one: it starts at the first page.
LEMMA FirstFrame ==
  ASSUME NEW u \in Nat \ {0}, NEW first, NEW last, NEW p, NEW v, Layout(v, p, u, first, last)
  PROVE  Begins(v, p, u, first)
<1>1. 0 \in 0 .. u - 1 /\ u > 0
  BY SMT
<1>2. InFrame(v, p, u, 0) /\ v[0].part = 1 /\ v[0].frame = first
  BY <1>1, Zenon DEF Layout
<1> DEFINE x == v[0]
<1>3. /\ x.pages \in Int /\ x.part <= x.pages /\ 0 - x.part + 1 + x.pages <= u
      /\ x.next = Card!After(p, 0 - x.part + 1 + x.pages)
      /\ \A j \in 0 .. x.pages - 1 :
           v[0 - x.part + 1 + j] = [frame |-> x.frame, part |-> j + 1, next |-> x.next, pages |-> x.pages]
  BY <1>2, Zenon DEF InFrame
<1>4. 0 - x.part + 1 + x.pages = x.pages /\ x.pages \in 1 .. u
  BY <1>2, <1>3, SMT
<1>5. \A j \in 0 .. x.pages - 1 : 0 - x.part + 1 + j = j
  BY <1>2, SMT
<1> QED  BY <1>2, <1>3, <1>4, <1>5, Zenon DEF Begins

\* The first frame is taken from the ring.
LEMMA LayoutShrinks ==
  ASSUME NEW u \in Nat \ {0}, u <= RingPages - 1, NEW first \in Int, NEW last \in Int, NEW p \in Card!Ring, NEW v, NEW w,
         Layout(v, p, u, first, last), \A o \in 0 .. (u - v[0].pages) - 1 : w[o] = v[v[0].pages + o]
  PROVE  Layout(w, v[0].next, u - v[0].pages, first + 1, last)
<1> DEFINE n == v[0].pages
           q == Card!After(p, n)
<1>1. /\ n \in 1 .. u /\ v[0].next = q
      /\ \A j \in 0 .. n - 1 : v[j] = [frame |-> first, part |-> j + 1, next |-> v[0].next, pages |-> n]
  <2>1. Begins(v, p, u, first)
    BY FirstFrame
  <2> QED  BY <2>1 DEF Begins
<1>2. v[n - 1].frame = first /\ v[n - 1].part = n /\ v[n - 1].pages = n
  <2>1. n - 1 \in 0 .. n - 1
    BY <1>1, SMT
  <2>2. v[n - 1] = [frame |-> first, part |-> (n - 1) + 1, next |-> v[0].next, pages |-> n]
    BY <1>1, <2>1, Zenon
  <2>3. (n - 1) + 1 = n
    BY <1>1, SMT
  <2> HIDE DEF n
  <2> QED  BY <2>2, <2>3, SMT
<1>3. \A o \in 0 .. (u - n) - 1 : w[o] = v[n + o]
  OBVIOUS
<1>4. n \in Int
  BY <1>1, SMT
<1>5. \A e \in 0 .. u - n : Card!After(q, e) = Card!After(p, n + e)
  <2> SUFFICES ASSUME NEW e \in 0 .. u - n PROVE Card!After(q, e) = Card!After(p, n + e)
    BY Zenon
  <2>1. n \in 0 .. RingPages - 1 /\ e \in 0 .. RingPages - 1 /\ n + e <= RingPages - 1
    BY <1>1, RingConstants, SMT
  <2> HIDE DEF n
  <2> QED  BY <2>1, AfterIs, Zenon
<1> HIDE DEF n, q
<1>6. ASSUME NEW o \in 0 .. (u - n) - 1 PROVE InFrame(w, q, u - n, o)
  <2> DEFINE m == n + o
             x == v[m]
             st == m - x.part + 1
  <2>1. m \in 0 .. u - 1 /\ w[o] = x /\ m >= n
    BY <1>1, <1>3, SMT
  <2>2. InFrame(v, p, u, m)
    BY <2>1, Zenon DEF Layout
  <2>3. /\ x.frame \in Int /\ x.part \in Int /\ x.pages \in Int
        /\ 1 <= x.part /\ x.part <= x.pages /\ 0 <= st /\ st + x.pages <= u
        /\ x.next = Card!After(p, st + x.pages)
        /\ \A j \in 0 .. x.pages - 1 :
             v[st + j] = [frame |-> x.frame, part |-> j + 1, next |-> x.next, pages |-> x.pages]
    BY <2>2, Zenon DEF InFrame
  <2> HIDE DEF x
  <2>4. st >= n
    <3> SUFFICES ASSUME st < n PROVE FALSE
      BY <1>4, <2>1, <2>3, SMT
    <3>1. (n - 1) - st \in 0 .. x.pages - 1 /\ st + ((n - 1) - st) = n - 1
      BY <1>1, <2>1, <2>3, SMT
    <3>2. v[n - 1] = [frame |-> x.frame, part |-> ((n - 1) - st) + 1, next |-> x.next, pages |-> x.pages]
      BY <2>3, <3>1, Zenon
    <3>3. v[n - 1].part = ((n - 1) - st) + 1 /\ v[n - 1].pages = x.pages
      BY <3>2, SMT
    <3>4. n = ((n - 1) - st) + 1 /\ n = x.pages
      BY <1>2, <3>3, Zenon
    <3>5. st = 0
      BY <1>1, <2>1, <2>3, <3>4, SMT
    <3> QED  BY <1>1, <2>1, <2>3, <3>4, <3>5, SMT
  <2>5. /\ o - x.part + 1 = st - n
        /\ 0 <= o - x.part + 1 /\ o - x.part + 1 + x.pages <= u - n
        /\ o - x.part + 1 + x.pages \in 0 .. u - n
        /\ n + (o - x.part + 1 + x.pages) = st + x.pages
    BY <1>1, <2>1, <2>3, <2>4, SMT
  <2>6. x.next = Card!After(q, o - x.part + 1 + x.pages)
    BY <1>5, <2>3, <2>5, Zenon
  <2>7. \A j \in 0 .. x.pages - 1 :
          w[o - x.part + 1 + j] = [frame |-> x.frame, part |-> j + 1, next |-> x.next, pages |-> x.pages]
    <3> SUFFICES ASSUME NEW j \in 0 .. x.pages - 1
                 PROVE  w[o - x.part + 1 + j] = [frame |-> x.frame, part |-> j + 1, next |-> x.next, pages |-> x.pages]
      BY Zenon
    <3>1. o - x.part + 1 + j \in 0 .. (u - n) - 1 /\ n + (o - x.part + 1 + j) = st + j
      BY <1>1, <2>1, <2>3, <2>4, <2>5, SMT
    <3> QED  BY <1>3, <2>3, <3>1, Zenon
  <2> QED  BY <2>1, <2>3, <2>5, <2>6, <2>7, Zenon DEF InFrame
<1>7. ASSUME NEW o \in 0 .. (u - n) - 2, w[o].part = w[o].pages
      PROVE  w[o + 1].part = 1 /\ w[o + 1].frame = w[o].frame + 1
  <2>1. n + o \in 0 .. u - 2 /\ o \in 0 .. (u - n) - 1 /\ o + 1 \in 0 .. (u - n) - 1 /\ n + (o + 1) = (n + o) + 1
    BY <1>1, SMT
  <2>2. w[o] = v[n + o] /\ w[o + 1] = v[(n + o) + 1]
    <3>1. w[o] = v[n + o] /\ w[o + 1] = v[n + (o + 1)]
      BY <1>3, <2>1, Zenon
    <3> QED  BY <2>1, <3>1
  <2> QED  BY <1>7, <2>1, <2>2, Zenon DEF Layout
<1>8. CASE u - n > 0
  <2>1. /\ n - 1 \in 0 .. u - 2 /\ (n - 1) + 1 = n /\ n + 0 = n /\ 0 \in 0 .. (u - n) - 1
        /\ (u - n) - 1 \in 0 .. (u - n) - 1 /\ n + ((u - n) - 1) = u - 1
    BY <1>1, <1>8, SMT
  <2>2. w[0] = v[n] /\ w[(u - n) - 1] = v[u - 1]
    BY <1>3, <2>1, Zenon
  <2>3. v[n].part = 1 /\ v[n].frame = first + 1
    BY <1>2, <2>1, Zenon DEF Layout
  <2>4. v[u - 1].frame = last
    BY SMT DEF Layout
  <2>5. ~(u - n = 0)
    BY <1>8, SMT
  <2>6. Layout(w, q, u - n, first + 1, last)
    BY <1>6, <1>7, <2>2, <2>3, <2>4, <2>5, Zenon DEF Layout
  <2> QED  BY <1>1, <2>6 DEF n
<1>9. CASE ~(u - n > 0)
  <2>1. u - n = 0 /\ u - 1 = n - 1 /\ u > 0
    BY <1>1, <1>9, SMT
  <2>2. v[n - 1].frame = last
    BY <2>1, Zenon DEF Layout
  <2>3. first + 1 = last + 1
    BY <1>2, <2>2
  <2>4. Layout(w, q, u - n, first + 1, last)
    BY <1>6, <1>7, <1>9, <2>1, <2>3, Zenon DEF Layout
  <2> QED  BY <1>1, <2>4 DEF n
<1> QED  BY <1>8, <1>9

\* The card's registers and the driver's, of which c and d are the records.
Used(c1, d) == Ahead(d.next, c1.curr_page)

Placed(c1, d) ==
  /\ c1.page_start = RingStart /\ c1.page_stop = Card!Stop
  /\ d.next \in Card!Ring /\ c1.curr_page \in Card!Ring
  /\ c1.bound_ptr = (IF d.next - d.lag < RingStart THEN Card!Stop - 1 ELSE d.next - d.lag)
  /\ Used(c1, d) + d.lag <= RingPages - 1

Filled(c1, d, m, first, last) == Layout(Seen(m, d.next, Used(c1, d)), d.next, Used(c1, d), first, last)

Reading(c1, d, m) ==
  (d.got # <<>> \/ c1.remote_bytes > 0) =>
    /\ d.draining /\ d.next # c1.curr_page
    /\ c1.remote_dma = Card!After(d.next, Len(d.got)) /\ Len(d.got) + c1.remote_bytes = m[d.next].pages

ReadWhole(d, first) == \A k \in 1 .. Len(d.got) : d.got[k] = [frame |-> first, part |-> k]

Known(c1, d, mk) == d.next # c1.curr_page => d.draining \/ "rx" \in c1.ISR \/ "rx" \in mk

\* The frames in the ring are those stored and not yet read, in order and complete;
\* what the driver has read of the next one is its beginning; and it knows of them.
CardRing ==
  /\ cardDrv.lag \in {0, 1} /\ stored \in Int /\ read \in Int
  /\ cardDrv.got \in Seq([frame : Int, part : Int]) /\ card.remote_bytes \in Nat
  /\ ~cardDrv.ready => /\ read = stored /\ cardDrv.got = <<>> /\ card.remote_bytes = 0 /\ card.stop
                       /\ ~cardDrv.draining /\ ~cardDrv.handling
  /\ cardDrv.ready => /\ Placed(card, cardDrv) /\ Filled(card, cardDrv, mem, read + 1, stored)
                      /\ Reading(card, cardDrv, mem) /\ ReadWhole(cardDrv, read + 1)
                      /\ Known(card, cardDrv, masked)

SameCard(c1, c2) ==
  /\ c2.curr_page = c1.curr_page /\ c2.bound_ptr = c1.bound_ptr /\ c2.page_start = c1.page_start
  /\ c2.page_stop = c1.page_stop /\ c2.remote_dma = c1.remote_dma /\ c2.remote_bytes = c1.remote_bytes

SameDriver(d1, d2) == d2.next = d1.next /\ d2.lag = d1.lag /\ d2.got = d1.got

\* A step that moves no frame.
LEMMA RingQuiet ==
  ASSUME CardRing, SameCard(card, card'), SameDriver(cardDrv, cardDrv'), UNCHANGED <<mem, stored, read>>,
         cardDrv'.ready = cardDrv.ready, cardDrv.draining => cardDrv'.draining,
         ~cardDrv.ready => card'.stop = card.stop /\ cardDrv' = cardDrv,
         Known(card, cardDrv, masked) => Known(card', cardDrv', masked')
  PROVE  CardRing'
<1>1. /\ cardDrv'.lag \in {0, 1} /\ stored' \in Int /\ read' \in Int
      /\ cardDrv'.got \in Seq([frame : Int, part : Int]) /\ card'.remote_bytes \in Nat
  BY Zenon DEF CardRing, SameCard, SameDriver
<1>2. ~cardDrv'.ready => /\ read' = stored' /\ cardDrv'.got = <<>> /\ card'.remote_bytes = 0 /\ card'.stop
                         /\ ~cardDrv'.draining /\ ~cardDrv'.handling
  BY Zenon DEF CardRing, SameCard
<1>3. ASSUME cardDrv'.ready
      PROVE  /\ Placed(card', cardDrv') /\ Filled(card', cardDrv', mem', read' + 1, stored')
             /\ Reading(card', cardDrv', mem') /\ ReadWhole(cardDrv', read' + 1)
             /\ Known(card', cardDrv', masked')
  <2>1. /\ Placed(card, cardDrv) /\ Filled(card, cardDrv, mem, read + 1, stored)
        /\ Reading(card, cardDrv, mem) /\ ReadWhole(cardDrv, read + 1)
        /\ Known(card, cardDrv, masked)
    BY <1>3, Zenon DEF CardRing
  <2>2. Used(card', cardDrv') = Used(card, cardDrv)
    BY Zenon DEF Used, SameCard, SameDriver
  <2>3. Placed(card', cardDrv')
    BY <2>1, <2>2, Zenon DEF Placed, SameCard, SameDriver
  <2>4. Filled(card', cardDrv', mem', read' + 1, stored')
    BY <2>1, <2>2, Zenon DEF Filled, SameDriver
  <2>5. Reading(card', cardDrv', mem')
    BY <2>1, Zenon DEF Reading, SameCard, SameDriver
  <2>6. ReadWhole(cardDrv', read' + 1)
    BY <2>1, Zenon DEF ReadWhole, SameDriver
  <2> QED  BY <2>1, <2>3, <2>4, <2>5, <2>6
<1> QED  BY <1>1, <1>2, <1>3, Zenon DEF CardRing

\* The ring as it begins.
LEMMA RingStarts ==
  ASSUME Card!Init
  PROVE  CardRing
<1>1. card.remote_bytes = 0 /\ card.stop = TRUE /\ stored = 0 /\ read = 0
  BY SMT DEF Card!Init, Card!reset
<1>2. /\ cardDrv.lag \in {0, 1} /\ cardDrv.ready = FALSE /\ cardDrv.draining = FALSE /\ cardDrv.handling = FALSE
      /\ cardDrv.got = <<>>
  <2>1. cardDrv = Card!Idle(0) \/ cardDrv = Card!Idle(1)
    BY Zenon DEF Card!Init
  <2>2. CASE cardDrv = Card!Idle(0)
    BY <2>2, SMT DEF Card!Idle
  <2>3. CASE cardDrv = Card!Idle(1)
    BY <2>3, SMT DEF Card!Idle
  <2> QED  BY <2>1, <2>2, <2>3
<1>3. <<>> \in Seq([frame : Int, part : Int]) /\ 0 \in Nat /\ 0 \in Int
  BY SMT
<1> QED  BY <1>1, <1>2, <1>3, Zenon DEF CardRing

\* The steps of the card and the driver that move no frame.
LEMMA RingOthers ==
  ASSUME CardLine, CardRing,
         \/ Card!StopCard \/ Card!StartCard \/ Card!Transmit \/ Card!WriteIMR \/ Card!tx_timer
         \/ Card!TakeInterrupt \/ (\E b \in Card!Events : Card!Acknowledge(b))
  PROVE  CardRing'
<1>0. DOMAIN card = CardFields /\ DOMAIN cardDrv = DriverFields
  BY Zenon DEF CardLine
<1>1. CASE Card!StopCard
  <2>1. SameCard(card, card') /\ card'.ISR = card.ISR \cup {"reset"}
    BY <1>0, <1>1, SMT DEF Card!StopCard, CardFields, SameCard
  <2>2. cardDrv.ready /\ UNCHANGED <<mem, stored, read, masked, cardDrv>>
    BY <1>1, Zenon DEF Card!StopCard
  <2>3. Known(card, cardDrv, masked) => Known(card', cardDrv', masked')
    BY <2>1, <2>2, Zenon DEF Known, SameCard
  <2> QED  BY <2>1, <2>2, <2>3, RingQuiet, Zenon DEF SameDriver
<1>2. CASE Card!StartCard
  <2>1. SameCard(card, card') /\ card'.ISR = card.ISR \ {"reset"}
    BY <1>0, <1>2, SMT DEF Card!StartCard, CardFields, SameCard
  <2>2. cardDrv.ready /\ UNCHANGED <<mem, stored, read, masked, cardDrv>> /\ "reset" # "rx"
    BY <1>2, Zenon DEF Card!StartCard
  <2>3. Known(card, cardDrv, masked) => Known(card', cardDrv', masked')
    BY <2>1, <2>2, Zenon DEF Known, SameCard
  <2> QED  BY <2>1, <2>2, <2>3, RingQuiet, Zenon DEF SameDriver
<1>3. CASE Card!Transmit
  <2>1. SameCard(card, card') /\ card'.ISR = card.ISR
    BY <1>0, <1>3, SMT DEF Card!Transmit, CardFields, SameCard
  <2>2. cardDrv' = [cardDrv EXCEPT !.waiting = TRUE]
    BY <1>3, Zenon DEF Card!Transmit
  <2>3. SameDriver(cardDrv, cardDrv') /\ cardDrv'.ready = cardDrv.ready /\ cardDrv'.draining = cardDrv.draining
    BY <1>0, <2>2, SMT DEF DriverFields, SameDriver
  <2>4. cardDrv.ready /\ UNCHANGED <<mem, stored, read>> /\ masked' = masked \ {"tx"} /\ "tx" # "rx"
    BY <1>3, Zenon DEF Card!Transmit
  <2>5. Known(card, cardDrv, masked) => Known(card', cardDrv', masked')
    BY <2>1, <2>3, <2>4, Zenon DEF Known, SameCard, SameDriver
  <2> QED  BY <2>1, <2>3, <2>4, <2>5, RingQuiet, Zenon
<1>4. CASE Card!WriteIMR
  <2>0. PICK m : card' = [card EXCEPT !.IMR = m]
    BY <1>4, Zenon DEF Card!WriteIMR
  <2>1. SameCard(card, card') /\ card'.ISR = card.ISR
    BY <1>0, <2>0, SMT DEF CardFields, SameCard
  <2>2. cardDrv.ready /\ UNCHANGED <<mem, stored, read, masked, cardDrv>>
    BY <1>4, Zenon DEF Card!WriteIMR
  <2>3. Known(card, cardDrv, masked) => Known(card', cardDrv', masked')
    BY <2>1, <2>2, Zenon DEF Known, SameCard
  <2> QED  BY <2>1, <2>2, <2>3, RingQuiet, Zenon DEF SameDriver
<1>5. CASE Card!tx_timer
  <2> DEFINE r == [card EXCEPT !.tx_timer_active = FALSE]
  <2>1. (card' = r \/ card' = [r EXCEPT !.ISR = @ \cup {"tx"}]) /\ masked \subseteq masked'
    BY <1>5, Zenon DEF Card!tx_timer, Card!Signal
  <2>2. DOMAIN r = CardFields /\ SameCard(card, r) /\ r.ISR = card.ISR /\ r.stop = card.stop
    BY <1>0, SMT DEF CardFields, SameCard
  <2> HIDE DEF r
  <2>3. SameCard(card, card') /\ card.ISR \subseteq card'.ISR /\ card'.stop = card.stop
    <3>1. CASE card' = r
      BY <2>2, <3>1, Zenon
    <3>2. CASE card' = [r EXCEPT !.ISR = @ \cup {"tx"}]
      <4>1. SameCard(r, card') /\ card'.ISR = r.ISR \cup {"tx"} /\ card'.stop = r.stop
        BY <2>2, <3>2, SMT DEF CardFields, SameCard
      <4> QED  BY <2>2, <4>1, Zenon DEF SameCard
    <3> QED  BY <2>1, <3>1, <3>2
  <2>4. UNCHANGED <<mem, stored, read, cardDrv>>
    BY <1>5, Zenon DEF Card!tx_timer
  <2>5. Known(card, cardDrv, masked) => Known(card', cardDrv', masked')
    BY <2>1, <2>3, <2>4, Zenon DEF Known, SameCard
  <2> QED  BY <2>3, <2>4, <2>5, RingQuiet, Zenon DEF SameDriver
<1>6. CASE Card!TakeInterrupt
  <2>1. cardDrv' = [cardDrv EXCEPT !.handling = TRUE] /\ UNCHANGED <<card, mem, stored, read, masked>> /\ cardDrv.ready
    BY <1>6, Zenon DEF Card!TakeInterrupt
  <2>0. cardDrv' = [cardDrv EXCEPT !.handling = TRUE]
    BY <2>1
  <2>2. SameDriver(cardDrv, cardDrv') /\ cardDrv'.ready = cardDrv.ready /\ cardDrv'.draining = cardDrv.draining
    BY <1>0, <2>0, SMT DEF DriverFields, SameDriver
  <2>3. Known(card, cardDrv, masked) => Known(card', cardDrv', masked')
    BY <2>1, <2>2, Zenon DEF Known, SameDriver
  <2> QED  BY <2>1, <2>2, <2>3, RingQuiet, Zenon DEF SameCard
<1>7. CASE \E b \in Card!Events : Card!Acknowledge(b)
  <2>1. PICK b \in Card!Events : Card!Acknowledge(b)
    BY <1>7
  <2>2. /\ card' = [card EXCEPT !.ISR = @ \ {b}] /\ cardDrv.handling
        /\ cardDrv' = IF b = "rx" THEN [cardDrv EXCEPT !.draining = TRUE] ELSE [cardDrv EXCEPT !.waiting = FALSE]
        /\ masked' = masked \ {b} /\ UNCHANGED <<mem, stored, read>>
    BY <2>1, Zenon DEF Card!Acknowledge, Card!Cleared
  <2>3. SameCard(card, card') /\ card'.ISR = card.ISR \ {b}
    BY <1>0, <2>2, SMT DEF CardFields, SameCard
  <2>4. cardDrv.ready
    BY <2>2, Zenon DEF CardRing
  <2>5. /\ SameDriver(cardDrv, cardDrv') /\ cardDrv'.ready = cardDrv.ready
        /\ IF b = "rx" THEN cardDrv'.draining = TRUE ELSE cardDrv'.draining = cardDrv.draining
    <3>1. CASE b = "rx"
      <4>1. cardDrv' = [cardDrv EXCEPT !.draining = TRUE]
        BY <2>2, <3>1
      <4> QED  BY <1>0, <3>1, <4>1, SMT DEF DriverFields, SameDriver
    <3>2. CASE b # "rx"
      <4>1. cardDrv' = [cardDrv EXCEPT !.waiting = FALSE]
        BY <2>2, <3>2
      <4> QED  BY <1>0, <3>2, <4>1, SMT DEF DriverFields, SameDriver
    <3> QED  BY <3>1, <3>2
  <2>6. Known(card, cardDrv, masked) => Known(card', cardDrv', masked')
    BY <2>2, <2>3, <2>5, Zenon DEF Known, SameCard, SameDriver
  <2>7. cardDrv.draining => cardDrv'.draining
    BY <2>5, Zenon
  <2> QED  BY <2>2, <2>3, <2>4, <2>5, <2>6, <2>7, RingQuiet, Zenon
<1> QED  BY <1>1, <1>2, <1>3, <1>4, <1>5, <1>6, <1>7, Zenon

\* The handler leaves.
LEMMA ReturnRing ==
  ASSUME CardLine, CardRing, Card!HandlerReturns
  PROVE  CardRing'
<1>0. DOMAIN cardDrv = DriverFields
  BY Zenon DEF CardLine
<1>1. /\ cardDrv' = [cardDrv EXCEPT !.handling = FALSE] /\ UNCHANGED <<card, mem, stored, read, masked>>
      /\ cardDrv.handling
  BY Zenon DEF Card!HandlerReturns
<1>2. cardDrv' = [cardDrv EXCEPT !.handling = FALSE]
  BY <1>1
<1>3. SameDriver(cardDrv, cardDrv') /\ cardDrv'.ready = cardDrv.ready /\ cardDrv'.draining = cardDrv.draining
  BY <1>0, <1>2, SMT DEF DriverFields, SameDriver
<1>4. cardDrv.ready
  BY <1>1, Zenon DEF CardRing
<1>5. Known(card, cardDrv, masked) => Known(card', cardDrv', masked')
  BY <1>1, <1>3, Zenon DEF Known, SameDriver
<1> QED  BY <1>1, <1>3, <1>4, <1>5, RingQuiet, Zenon DEF SameCard

\* The ring has nothing to read once the driver has caught up: every frame is read,
\* and the driver is in the middle of none.
LEMMA DrainedRing ==
  ASSUME CardLine, CardRing, Card!RingDrained
  PROVE  CardRing'
<1>0. DOMAIN cardDrv = DriverFields
  BY Zenon DEF CardLine
<1>1. /\ cardDrv' = [cardDrv EXCEPT !.draining = FALSE] /\ UNCHANGED <<card, mem, stored, read, masked>>
      /\ cardDrv.draining /\ cardDrv.next = card.curr_page /\ cardDrv.got = <<>>
  BY Zenon DEF Card!RingDrained
<1>2. cardDrv' = [cardDrv EXCEPT !.draining = FALSE]
  BY <1>1
<1>3. SameDriver(cardDrv, cardDrv') /\ cardDrv'.ready = cardDrv.ready /\ cardDrv'.draining = FALSE
  BY <1>0, <1>2, SMT DEF DriverFields, SameDriver
<1>4. cardDrv.ready
  BY <1>1, Zenon DEF CardRing
<1>5. /\ Placed(card, cardDrv) /\ Filled(card, cardDrv, mem, read + 1, stored)
      /\ Reading(card, cardDrv, mem) /\ ReadWhole(cardDrv, read + 1)
  BY <1>4, Zenon DEF CardRing
<1>6. ~(cardDrv.got # <<>> \/ card.remote_bytes > 0)
  BY <1>1, <1>5, Zenon DEF Reading
<1>7. Used(card', cardDrv') = Used(card, cardDrv)
  BY <1>1, <1>3, Zenon DEF Used, SameDriver
<1>8. Placed(card', cardDrv') /\ Filled(card', cardDrv', mem', read' + 1, stored') /\ ReadWhole(cardDrv', read' + 1)
  <2>1. Placed(card', cardDrv')
    BY <1>1, <1>3, <1>5, <1>7, Zenon DEF Placed, SameDriver
  <2>2. Filled(card', cardDrv', mem', read' + 1, stored')
    BY <1>1, <1>3, <1>5, <1>7, Zenon DEF Filled, SameDriver
  <2>3. ReadWhole(cardDrv', read' + 1)
    BY <1>1, <1>3, <1>5, Zenon DEF ReadWhole, SameDriver
  <2> QED  BY <2>1, <2>2, <2>3
<1>9. Reading(card', cardDrv', mem')
  BY <1>1, <1>3, <1>6, Zenon DEF Reading, SameDriver
<1>10. Known(card', cardDrv', masked')
  BY <1>1, <1>3, Zenon DEF Known, SameDriver
<1>11. /\ cardDrv'.lag \in {0, 1} /\ stored' \in Int /\ read' \in Int
       /\ cardDrv'.got \in Seq([frame : Int, part : Int]) /\ card'.remote_bytes \in Nat
  BY <1>1, <1>3, Zenon DEF CardRing, SameDriver
<1> QED  BY <1>3, <1>4, <1>8, <1>9, <1>10, <1>11, Zenon DEF CardRing

\* A reset of the card drops what its ring holds.
LEMMA AsicResetRing ==
  ASSUME CardLine, CardRing, Card!AsicReset
  PROVE  CardRing'
<1>1. card' = Card!reset /\ cardDrv' = Card!Idle(cardDrv.lag) /\ read' = stored /\ stored' = stored
  BY Zenon DEF Card!AsicReset
<1>2. card'.remote_bytes = 0 /\ card'.stop = TRUE
  BY <1>1, SMT DEF Card!reset
<1>3. /\ cardDrv'.lag = cardDrv.lag /\ cardDrv'.ready = FALSE /\ cardDrv'.draining = FALSE
      /\ cardDrv'.handling = FALSE /\ cardDrv'.got = <<>>
  BY <1>1, SMT DEF Card!Idle
<1>4. <<>> \in Seq([frame : Int, part : Int]) /\ 0 \in Nat
  BY SMT
<1> QED  BY <1>1, <1>2, <1>3, <1>4, Zenon DEF CardRing

\* The driver starts the card with an empty ring.
LEMMA SetupRing ==
  ASSUME CardLine, CardRing, Card!Setup
  PROVE  CardRing'
<1> DEFINE top == Card!Stop
           page == RingStart + cardDrv.lag
           none == {}
           all == Card!Events
           idle == Card!Idle(cardDrv.lag)
<1>1. PICK promisc, loop :
        card' = [card EXCEPT !.stop = FALSE, !.start = TRUE, !.ISR = none, !.IMR = all, !.promisc = promisc, !.loop = loop,
                             !.page_start = RingStart, !.page_stop = top, !.curr_page = page, !.bound_ptr = RingStart]
  BY Zenon DEF Card!Setup
<1>2. /\ cardDrv' = [idle EXCEPT !.ready = TRUE, !.next = page] /\ UNCHANGED <<mem, stored, read, masked>>
      /\ ~cardDrv.ready
  BY Zenon DEF Card!Setup
<1>3. /\ DOMAIN idle = DriverFields /\ idle.lag = cardDrv.lag /\ idle.got = <<>>
  BY SMT DEF Card!Idle, DriverFields
<1>4. /\ read = stored /\ cardDrv.got = <<>> /\ card.remote_bytes = 0 /\ cardDrv.lag \in {0, 1} /\ stored \in Int
  BY <1>2, Zenon DEF CardRing
<1>5. RingStart \in Nat \ {0} /\ RingPages \in Nat /\ RingPages >= 2
  BY RingConstants
<1>6. top = RingStart + RingPages /\ page \in Card!Ring
  BY <1>4, <1>5, SMT DEF Card!Stop, Card!Ring
<1> HIDE DEF top, page, none, all, idle
<1>7. DOMAIN card = CardFields
  BY Zenon DEF CardLine
<1>8. /\ card'.page_start = RingStart /\ card'.page_stop = top /\ card'.curr_page = page
      /\ card'.bound_ptr = RingStart /\ card'.remote_bytes = card.remote_bytes
  BY ONLY <1>1, <1>7, SMT DEF CardFields
<1>9. cardDrv' = [idle EXCEPT !.ready = TRUE, !.next = page]
  BY <1>2
<1>10. cardDrv'.ready = TRUE /\ cardDrv'.next = page /\ cardDrv'.lag = cardDrv.lag /\ cardDrv'.got = <<>>
  BY ONLY <1>3, <1>9, SMT DEF DriverFields
<1>11. Used(card', cardDrv') = 0
  <2>1. Ahead(page, page) = 0
    BY <1>6, SMT DEF Ahead, Card!Ring
  <2> QED  BY <1>8, <1>10, <2>1, Zenon DEF Used
<1>12. Placed(card', cardDrv')
  <2>1. RingStart = IF page - cardDrv.lag < RingStart THEN top - 1 ELSE page - cardDrv.lag
    BY <1>4, <1>5, SMT DEF page
  <2>2. 0 + cardDrv.lag <= RingPages - 1
    BY <1>4, <1>5, SMT
  <2> QED  BY <1>6, <1>8, <1>10, <1>11, <2>1, <2>2, Zenon DEF Placed, top
<1>13. Filled(card', cardDrv', mem', read' + 1, stored')
  <2>1. /\ \A o \in 0 .. 0 - 1 : FALSE
        /\ \A o \in 0 .. 0 - 2 : FALSE
        /\ ~(0 > 0)
    BY SMT
  <2>2. \A v, p, f : Layout(v, p, 0, f + 1, f)
    BY <2>1, Zenon DEF Layout
  <2> QED  BY <1>2, <1>4, <1>11, <2>2, Zenon DEF Filled
<1>14. Reading(card', cardDrv', mem')
  <2>1. ~(0 > 0)
    BY SMT
  <2> QED  BY <1>4, <1>8, <1>10, <2>1, Zenon DEF Reading
<1>15. ReadWhole(cardDrv', read' + 1)
  <2>1. Len(<<>>) = 0 /\ \A k \in 1 .. 0 : FALSE
    BY SMT
  <2> QED  BY <1>10, <2>1, Zenon DEF ReadWhole
<1>16. Known(card', cardDrv', masked')
  BY <1>8, <1>10, Zenon DEF Known
<1>17. /\ cardDrv'.lag \in {0, 1} /\ stored' \in Int /\ read' \in Int
       /\ cardDrv'.got \in Seq([frame : Int, part : Int]) /\ card'.remote_bytes \in Nat
  <2>1. <<>> \in Seq([frame : Int, part : Int]) /\ 0 \in Nat
    BY SMT
  <2> QED  BY <1>2, <1>4, <1>8, <1>10, <2>1, Zenon
<1> QED  BY <1>10, <1>12, <1>13, <1>14, <1>15, <1>16, <1>17, Zenon DEF CardRing

\* The ring after frame f, of n pages, is written at page e.
Put(m, e, n, f) ==
  [q \in Card!Ring |->
     IF \E k \in 0 .. (n - 1) : Card!After(e, k) = q
     THEN [frame |-> f, part |-> 1 + CHOOSE k \in 0 .. (n - 1) : Card!After(e, k) = q,
           next |-> Card!After(e, n), pages |-> n]
     ELSE m[q]]

\* Of the pages from page p on, u are as before and the next n hold frame f.
Added(m, w, p, u, n, f) ==
  /\ \A o \in 0 .. u - 1 : w[Card!After(p, o)] = m[Card!After(p, o)]
  /\ \A k \in 0 .. n - 1 : w[Card!After(p, u + k)] =
       [frame |-> f, part |-> k + 1, next |-> Card!After(p, u + n), pages |-> n]

\* What the card writes of a frame of n pages at page e of the ring, u pages from
\* page p: its parts in order, and nothing else.
LEMMA FramePut ==
  ASSUME NEW p \in Card!Ring, NEW u \in Nat, NEW n \in Nat \ {0}, NEW m, NEW f, NEW e,
         u + n <= RingPages - 1, e = Card!After(p, u)
  PROVE  Added(m, Put(m, e, n, f), p, u, n, f)
<1> DEFINE w == Put(m, e, n, f)
<1>1. RingPages \in Nat /\ RingPages >= 2
  BY RingConstants
<1>2. /\ \A o \in 0 .. RingPages - 1 : Card!After(p, o) \in Card!Ring /\ Ahead(p, Card!After(p, o)) = o
      /\ \A a, b \in 0 .. RingPages - 1 : a + b <= RingPages - 1 => Card!After(Card!After(p, a), b) = Card!After(p, a + b)
  BY AfterIs
<1>3. ASSUME NEW k \in 0 .. n PROVE Card!After(e, k) = Card!After(p, u + k) /\ u + k \in 0 .. RingPages - 1
  <2>1. u \in 0 .. RingPages - 1 /\ k \in 0 .. RingPages - 1 /\ u + k <= RingPages - 1 /\ u + k \in 0 .. RingPages - 1
    BY <1>1, SMT
  <2> QED  BY <1>2, <2>1, Zenon
<1>4. \A k \in 0 .. n - 1 : k \in 0 .. n
  BY SMT
<1>5. ASSUME NEW o \in 0 .. u - 1 PROVE w[Card!After(p, o)] = m[Card!After(p, o)]
  <2> DEFINE q == Card!After(p, o)
  <2>1. o \in 0 .. RingPages - 1
    BY <1>1, SMT
  <2>2. q \in Card!Ring /\ Ahead(p, q) = o
    BY <1>2, <2>1, Zenon
  <2>3. ASSUME NEW k \in 0 .. n - 1, Card!After(e, k) = q PROVE FALSE
    <3>1. Ahead(p, q) = u + k
      BY <1>2, <1>3, <1>4, <2>3, Zenon
    <3>2. u + k # o
      BY SMT
    <3> QED  BY <2>2, <3>1, <3>2
  <2> HIDE DEF q
  <2>4. ~\E k \in 0 .. (n - 1) : Card!After(e, k) = q
    BY <2>3, Zenon
  <2>5. w[q] = m[q]
    BY <2>2, <2>4, Zenon DEF Put
  <2> QED  BY <2>5 DEF q
<1>6. ASSUME NEW k \in 0 .. n - 1
      PROVE  w[Card!After(p, u + k)] = [frame |-> f, part |-> k + 1, next |-> Card!After(p, u + n), pages |-> n]
  <2> DEFINE q == Card!After(p, u + k)
             found == CHOOSE j \in 0 .. (n - 1) : Card!After(e, j) = q
  <2>1. q = Card!After(e, k) /\ u + k \in 0 .. RingPages - 1
    BY <1>3, <1>4, Zenon
  <2>2. q \in Card!Ring /\ Ahead(p, q) = u + k
    BY <1>2, <2>1, Zenon
  <2>3. found \in 0 .. n - 1 /\ Card!After(e, found) = q
    <3>1. \E j \in 0 .. (n - 1) : Card!After(e, j) = q
      BY <2>1, Zenon
    <3> HIDE DEF q
    <3> QED  BY <3>1, Zenon
  <2> HIDE DEF found
  <2>4. found = k
    <3>1. Ahead(p, q) = u + found
      BY <1>2, <1>3, <1>4, <2>3, Zenon
    <3>2. u + found = u + k
      BY <2>2, <3>1
    <3> QED  BY <2>3, <3>2, SMT
  <2>5. \E j \in 0 .. (n - 1) : Card!After(e, j) = q
    BY <2>1, Zenon
  <2> HIDE DEF q
  <2>6. w[q] = [frame |-> f, part |-> 1 + CHOOSE j \in 0 .. (n - 1) : Card!After(e, j) = q,
                next |-> Card!After(e, n), pages |-> n]
    BY <2>2, <2>5, Zenon DEF Put
  <2>7. w[q] = [frame |-> f, part |-> 1 + k, next |-> Card!After(e, n), pages |-> n]
    BY <2>4, <2>6 DEF found
  <2>8. 1 + k = k + 1 /\ n \in 0 .. n
    BY SMT
  <2>9. Card!After(e, n) = Card!After(p, u + n)
    BY <1>3, <2>8, Zenon
  <2> QED  BY <2>7, <2>8, <2>9 DEF q
<1> HIDE DEF w
<1>7. Added(m, w, p, u, n, f)
  BY <1>5, <1>6, Zenon DEF Added
<1> QED  BY <1>7 DEF w

\* A frame fits only when it leaves a page of the ring free.
LEMMA FitsIn ==
  ASSUME CardRing, cardDrv.ready, NEW n \in Nat \ {0}, Card!Fits(n)
  PROVE  /\ Used(card, cardDrv) \in Nat /\ Used(card, cardDrv) + n + cardDrv.lag <= RingPages - 1
         /\ card.curr_page = Card!After(cardDrv.next, Used(card, cardDrv))
<1> DEFINE u == Used(card, cardDrv)
           p == cardDrv.next
           e == card.curr_page
           g == cardDrv.lag
           b == card.bound_ptr
<1>0. RingStart \in Nat \ {0} /\ RingPages \in Nat /\ RingPages >= 2
  BY RingConstants
<1>1. /\ p \in Card!Ring /\ e \in Card!Ring /\ g \in {0, 1} /\ u + g <= RingPages - 1
      /\ b = (IF p - g < RingStart THEN Card!Stop - 1 ELSE p - g)
      /\ card.page_start = RingStart /\ card.page_stop = Card!Stop
  BY Zenon DEF CardRing, Placed
<1>2. n < IF e < b THEN b - e ELSE (Card!Stop - RingStart) - (e - b)
  BY <1>1, Zenon DEF Card!Fits, Card!avail
<1>3. u = Ahead(p, e)
  BY DEF Used
<1> HIDE DEF u, p, e, g, b
<1>4. u \in 0 .. RingPages - 1 /\ Card!After(p, u) = e
  <2>1. \A q \in Card!Ring : Ahead(p, q) \in 0 .. RingPages - 1 /\ Card!After(p, Ahead(p, q)) = q
    BY <1>1, AfterIs
  <2> QED  BY <1>1, <1>3, <2>1, Zenon
<1>5. u + n + g <= RingPages - 1
  BY <1>0, <1>1, <1>2, <1>3, <1>4, SMT DEF Ahead, Card!Ring, Card!Stop
<1>6. u \in Nat
  BY <1>4, SMT
<1> QED  BY <1>4, <1>5, <1>6 DEF u, p, e, g

\* A frame that arrives is put behind the others and announced; what the driver
\* reads meanwhile stays as it is.
LEMMA RxRing ==
  ASSUME CardLine, CardRing, NEW n \in PagesOfFrame, NEW own, Card!rx_frame(n, own), UNCHANGED <<cardDrv, read>>
  PROVE  CardRing'
<1>1. CASE UNCHANGED <<card, mem, stored, masked>>
  <2>1. SameCard(card, card') /\ SameDriver(cardDrv, cardDrv') /\ card'.stop = card.stop
    BY <1>1, Zenon DEF SameCard, SameDriver
  <2>2. Known(card, cardDrv, masked) => Known(card', cardDrv', masked')
    BY <1>1, Zenon DEF Known
  <2> QED  BY <1>1, <2>1, <2>2, RingQuiet, Zenon
<1>2. CASE ~UNCHANGED <<card, mem, stored, masked>>
  <2> DEFINE u == Used(card, cardDrv)
             p == cardDrv.next
             e == card.curr_page
             r == [card EXCEPT !.curr_page = Card!After(e, n)]
  <2>1. /\ Card!Listening /\ Card!Fits(n) /\ stored' = stored + 1
        /\ Card!Signal(r, "rx") /\ masked' = Card!Marked("rx")
    BY <1>2, Zenon DEF Card!rx_frame
  <2>2. mem' = Put(mem, e, n, stored + 1)
    BY <1>2, Zenon DEF Card!rx_frame, Put
  <2>3. cardDrv.ready
    BY <2>1, Zenon DEF CardRing, Card!Listening
  <2>4. n \in Nat \ {0}
    BY RingConstants
  <2>5. /\ Placed(card, cardDrv) /\ Filled(card, cardDrv, mem, read + 1, stored)
        /\ Reading(card, cardDrv, mem) /\ ReadWhole(cardDrv, read + 1)
        /\ cardDrv.lag \in {0, 1} /\ stored \in Int /\ read \in Int
    BY <2>3, Zenon DEF CardRing
  <2>6. u \in Nat /\ u + n + cardDrv.lag <= RingPages - 1 /\ e = Card!After(p, u)
    BY <2>1, <2>3, <2>4, FitsIn
  <2>7. card' = [r EXCEPT !.ISR = @ \cup {"rx"}]
    BY <2>1, Zenon DEF Card!Signal
  <2>8. DOMAIN r = CardFields
    BY Zenon DEF CardLine
  <2>9. /\ r.curr_page = Card!After(e, n) /\ r.bound_ptr = card.bound_ptr /\ r.page_start = card.page_start
        /\ r.page_stop = card.page_stop /\ r.remote_dma = card.remote_dma /\ r.remote_bytes = card.remote_bytes
    BY SMT DEF CardLine, CardFields
  <2> HIDE DEF r
  <2>10. SameCard(r, card') /\ "rx" \in card'.ISR
    BY <2>7, <2>8, SMT DEF CardFields, SameCard
  <2>11. p \in Card!Ring
    BY <2>5, Zenon DEF Placed
  <2> HIDE DEF u, p, e
  <2>12. /\ u + n \in 0 .. RingPages - 1 /\ u \in 0 .. RingPages - 1 /\ n \in 0 .. RingPages - 1
         /\ u + n <= RingPages - 1 /\ u + n \in Nat /\ u + n # 0
    BY <2>4, <2>5, <2>6, RingConstants, SMT
  <2>13. /\ card'.curr_page = Card!After(p, u + n) /\ card'.curr_page \in Card!Ring
         /\ Ahead(p, card'.curr_page) = u + n
    <3>1. card'.curr_page = Card!After(e, n)
      BY <2>9, <2>10, Zenon DEF SameCard
    <3>2. \A a, b \in 0 .. RingPages - 1 : a + b <= RingPages - 1 => Card!After(Card!After(p, a), b) = Card!After(p, a + b)
      BY <2>11, AfterIs
    <3>3. \A o \in 0 .. RingPages - 1 : Card!After(p, o) \in Card!Ring /\ Ahead(p, Card!After(p, o)) = o
      BY <2>11, AfterIs
    <3>4. Card!After(e, n) = Card!After(p, u + n)
      BY <2>6, <2>12, <3>2, Zenon
    <3> QED  BY <2>12, <3>1, <3>3, <3>4, Zenon
  <2>14. p = cardDrv'.next /\ Used(card', cardDrv') = u + n
    BY <2>13, Zenon DEF Used, p
  <2>15. Placed(card', cardDrv')
    <3>1. u + n + cardDrv.lag <= RingPages - 1
      BY <2>6
    <3> QED  BY <2>5, <2>9, <2>10, <2>13, <2>14, <3>1, Zenon DEF Placed, SameCard
  <2>16. /\ \A o \in 0 .. u - 1 : mem'[Card!After(p, o)] = mem[Card!After(p, o)]
         /\ \A k \in 0 .. n - 1 : mem'[Card!After(p, u + k)] =
              [frame |-> stored + 1, part |-> k + 1, next |-> Card!After(p, u + n), pages |-> n]
    <3>1. e = Card!After(p, u) /\ u \in Nat /\ u + n <= RingPages - 1
      BY <2>6, <2>12
    <3>2. Added(mem, Put(mem, e, n, stored + 1), p, u, n, stored + 1)
      BY <2>4, <2>11, <3>1, FramePut, Zenon
    <3> QED  BY <2>2, <3>2, Zenon DEF Added
  <2>17. Filled(card', cardDrv', mem', read' + 1, stored')
    <3> DEFINE v == Seen(mem, p, u)
               w == Seen(mem', p, u + n)
    <3>1. \A o \in 0 .. u - 1 : o \in 0 .. (u + n) - 1
      BY <2>4, <2>6, SMT
    <3>2. \A k \in 0 .. n - 1 : u + k \in 0 .. (u + n) - 1
      BY <2>4, <2>6, SMT
    <3>3. \A o \in 0 .. u - 1 : w[o] = v[o]
      BY <2>16, <3>1, Zenon DEF Seen
    <3>4. \A k \in 0 .. n - 1 : w[u + k] =
            [frame |-> stored + 1, part |-> k + 1, next |-> Card!After(p, u + n), pages |-> n]
      BY <2>16, <3>2, Zenon DEF Seen
    <3>5. Layout(v, p, u, read + 1, stored)
      BY <2>5, Zenon DEF Filled, u, p
    <3>6. read + 1 \in Int
      BY <2>5, SMT
    <3> HIDE DEF v, w
    <3>7. Layout(w, p, u + n, read + 1, stored + 1)
      BY <2>4, <2>5, <2>6, <3>3, <3>4, <3>5, <3>6, LayoutGrows
    <3> QED  BY <2>1, <2>14, <3>7, Zenon DEF Filled, w
  <2>18. Reading(card', cardDrv', mem')
    <3>1. ASSUME cardDrv.got # <<>> \/ card.remote_bytes > 0
          PROVE  /\ cardDrv.draining /\ p # card'.curr_page
                 /\ mem'[p] = mem[p]
      <4>1. cardDrv.draining /\ p # e
        BY <2>5, <3>1, Zenon DEF Reading, p, e
      <4>2. Card!After(p, 0) = p /\ Ahead(p, p) = 0
        BY <2>11, RingConstants, SMT DEF Card!After, Ahead, Card!Ring, Card!Stop
      <4>3. u # 0
        BY <2>6, <4>1, <4>2
      <4>4. 0 \in 0 .. u - 1
        BY <2>6, <4>3, SMT
      <4>5. mem'[p] = mem[p]
        BY <2>16, <4>2, <4>4, Zenon
      <4>6. p # card'.curr_page
        BY <2>12, <2>13, <4>2
      <4> QED  BY <4>1, <4>5, <4>6
    <3> QED  BY <2>5, <2>9, <2>10, <3>1, Zenon DEF Reading, SameCard, p
  <2>19. Known(card', cardDrv', masked')
    BY <2>10, Zenon DEF Known
  <2>20. ReadWhole(cardDrv', read' + 1)
    BY <2>5, Zenon
  <2>21. /\ cardDrv'.lag \in {0, 1} /\ stored' \in Int /\ read' \in Int
         /\ cardDrv'.got \in Seq([frame : Int, part : Int]) /\ card'.remote_bytes \in Nat
    <3>1. stored' \in Int
      BY <2>1, <2>5, SMT
    <3>2. card'.remote_bytes = card.remote_bytes
      BY <2>9, <2>10, Zenon DEF SameCard
    <3> QED  BY <2>5, <3>1, <3>2, Zenon DEF CardRing
  <2> QED  BY <2>3, <2>15, <2>17, <2>18, <2>19, <2>20, <2>21, Zenon DEF CardRing
<1> QED  BY <1>1, <1>2

\* A frame that waits starts at the page the driver reads next.
LEMMA NextFrame ==
  ASSUME CardRing, cardDrv.ready, cardDrv.next # card.curr_page
  PROVE  LET p == cardDrv.next
             u == Used(card, cardDrv)
         IN  /\ p \in Card!Ring /\ u \in Nat \ {0} /\ u <= RingPages - 1 /\ mem[p] = Seen(mem, p, u)[0]
             /\ mem[p].pages \in 1 .. u /\ mem[p].next = Card!After(p, mem[p].pages)
             /\ \A j \in 0 .. mem[p].pages - 1 :
                  mem[Card!After(p, j)] =
                    [frame |-> read + 1, part |-> j + 1, next |-> mem[p].next, pages |-> mem[p].pages]
<1> DEFINE p == cardDrv.next
           u == Used(card, cardDrv)
           e == card.curr_page
           v == Seen(mem, p, u)
<1>1. p \in Card!Ring /\ e \in Card!Ring /\ Layout(v, p, u, read + 1, stored)
  BY Zenon DEF CardRing, Placed, Filled
<1>2. u = Ahead(p, e) /\ p # e
  BY DEF Used
<1>3. RingStart \in Nat \ {0} /\ RingPages \in Nat /\ RingPages >= 2
  BY RingConstants
<1> HIDE DEF p, u, e
<1>4. u \in 0 .. RingPages - 1 /\ u \in Nat \ {0} /\ u <= RingPages - 1 /\ Card!After(p, 0) = p
  BY <1>1, <1>2, <1>3, SMT DEF Ahead, Card!Ring, Card!Stop, Card!After
<1>5. /\ \A o \in 0 .. u - 1 : v[o] = mem[Card!After(p, o)]
      /\ 0 \in 0 .. u - 1
  BY <1>4, SMT DEF Seen
<1>6. v[0] = mem[p]
  BY <1>4, <1>5, Zenon
<1> HIDE DEF v
<1>7. /\ v[0].pages \in 1 .. u /\ v[0].next = Card!After(p, v[0].pages)
      /\ \A j \in 0 .. v[0].pages - 1 :
           v[j] = [frame |-> read + 1, part |-> j + 1, next |-> v[0].next, pages |-> v[0].pages]
  <2>1. Begins(v, p, u, read + 1)
    BY <1>1, <1>4, FirstFrame, Zenon
  <2> QED  BY <2>1, Zenon DEF Begins
<1>8. \A j \in 0 .. v[0].pages - 1 : j \in 0 .. u - 1
  BY <1>4, <1>7, SMT
<1>9. \A j \in 0 .. mem[p].pages - 1 :
        mem[Card!After(p, j)] = [frame |-> read + 1, part |-> j + 1, next |-> mem[p].next, pages |-> mem[p].pages]
  <2> SUFFICES ASSUME NEW j \in 0 .. mem[p].pages - 1
               PROVE  mem[Card!After(p, j)] =
                        [frame |-> read + 1, part |-> j + 1, next |-> mem[p].next, pages |-> mem[p].pages]
    BY Zenon
  <2>1. j \in 0 .. v[0].pages - 1 /\ j \in 0 .. u - 1
    BY <1>6, <1>8
  <2>2. v[j] = [frame |-> read + 1, part |-> j + 1, next |-> v[0].next, pages |-> v[0].pages]
    BY <1>7, <2>1, Zenon
  <2>3. v[j] = mem[Card!After(p, j)]
    BY <1>5, <2>1, Zenon
  <2> QED  BY <1>6, <2>2, <2>3
<1> QED  BY <1>1, <1>4, <1>6, <1>7, <1>9 DEF p, u, v

\* The driver sets up the remote DMA for a whole frame, from its first page, with
\* either command.
LEMMA StartRing ==
  ASSUME CardLine, CardRing, Card!StartFrame
  PROVE  CardRing'
<1> DEFINE p == cardDrv.next
<1>1. PICK from \in {p, card.bound_ptr} :
        /\ from = p \/ (cardDrv.lag = 0 /\ from = card.bound_ptr)
        /\ card' = [card EXCEPT !.remote_dma = from, !.remote_bytes = mem[from].pages]
  BY Zenon DEF Card!StartFrame
<1>2. /\ cardDrv.draining /\ p # card.curr_page /\ cardDrv.got = <<>> /\ UNCHANGED <<mem, cardDrv, stored, read, masked>>
  BY Zenon DEF Card!StartFrame
<1>3. cardDrv.ready
  BY <1>2, Zenon DEF CardRing
<1>4. /\ Placed(card, cardDrv) /\ Filled(card, cardDrv, mem, read + 1, stored) /\ ReadWhole(cardDrv, read + 1)
      /\ cardDrv.lag \in {0, 1} /\ stored \in Int /\ read \in Int /\ cardDrv.got \in Seq([frame : Int, part : Int])
  BY <1>3, Zenon DEF CardRing
<1>5. /\ p \in Card!Ring /\ mem[p].pages \in 1 .. Used(card, cardDrv) /\ Used(card, cardDrv) \in Nat
  BY <1>2, <1>3, NextFrame
<1>6. from = p
  <2>1. CASE cardDrv.lag = 0
    <3>1. card.bound_ptr = IF p - 0 < RingStart THEN Card!Stop - 1 ELSE p - 0
      BY <1>4, <2>1, Zenon DEF Placed
    <3>2. p \in Int /\ p >= RingStart
      BY <1>5, RingConstants, SMT DEF Card!Ring, Card!Stop
    <3> HIDE DEF p
    <3>3. card.bound_ptr = p
      BY <3>1, <3>2, RingConstants, SMT
    <3> QED  BY <1>1, <3>3
  <2>2. CASE cardDrv.lag # 0
    BY <1>1, <2>2
  <2> QED  BY <2>1, <2>2
<1>7. card' = [card EXCEPT !.remote_dma = p, !.remote_bytes = mem[p].pages]
  BY <1>1, <1>6
<1>8. DOMAIN card = CardFields
  BY Zenon DEF CardLine
<1> HIDE DEF p
<1>9. /\ card'.curr_page = card.curr_page /\ card'.bound_ptr = card.bound_ptr /\ card'.page_start = card.page_start
      /\ card'.page_stop = card.page_stop /\ card'.remote_dma = p /\ card'.remote_bytes = mem[p].pages
  BY ONLY <1>7, <1>8, SMT DEF CardFields
<1>10. Used(card', cardDrv') = Used(card, cardDrv)
  BY <1>2, <1>9, Zenon DEF Used
<1>11. Placed(card', cardDrv') /\ Filled(card', cardDrv', mem', read' + 1, stored') /\ ReadWhole(cardDrv', read' + 1)
  <2>1. Placed(card', cardDrv')
    BY <1>2, <1>4, <1>9, <1>10, Zenon DEF Placed
  <2>2. Filled(card', cardDrv', mem', read' + 1, stored')
    BY <1>2, <1>4, <1>10, Zenon DEF Filled
  <2> QED  BY <1>2, <1>4, <2>1, <2>2, Zenon
<1>12. Reading(card', cardDrv', mem')
  <2>1. Len(cardDrv.got) = 0
    BY <1>2
  <2>2. Card!After(p, 0) = p /\ 0 + mem[p].pages = mem[p].pages
    BY <1>5, RingConstants, SMT DEF Card!After, Card!Ring, Card!Stop
  <2> QED  BY <1>2, <1>9, <2>1, <2>2, Zenon DEF Reading, p
<1>13. Known(card', cardDrv', masked')
  BY <1>2, Zenon DEF Known
<1>14. card'.remote_bytes \in Nat
  BY <1>5, <1>9, SMT
<1> QED  BY <1>2, <1>3, <1>4, <1>11, <1>12, <1>13, <1>14, Zenon DEF CardRing

\* The next page that the driver reads is the next part of the frame.
LEMMA AsicReadRing ==
  ASSUME CardLine, CardRing, Card!asic_read
  PROVE  CardRing'
<1> DEFINE p == cardDrv.next
           got == cardDrv.got
           l == Len(got)
           rest == card.remote_bytes
           address == Card!NextAddress
           status == IF rest = 1 THEN card.ISR \cup {"rdma"} ELSE card.ISR
           page == [frame |-> mem[card.remote_dma].frame, part |-> mem[card.remote_dma].part]
<1>1. /\ rest > 0 /\ UNCHANGED <<mem, stored, read, masked>>
      /\ card' = [card EXCEPT !.remote_dma = address, !.remote_bytes = rest - 1, !.ISR = status]
      /\ cardDrv' = [cardDrv EXCEPT !.got = Append(got, page)]
  BY Zenon DEF Card!asic_read
<1>2. rest \in Nat /\ got \in Seq([frame : Int, part : Int])
  BY Zenon DEF CardRing
<1>3. cardDrv.ready
  <2>1. ~(0 > 0)
    BY SMT
  <2> QED  BY <1>1, <2>1, Zenon DEF CardRing
<1>4. /\ Placed(card, cardDrv) /\ Filled(card, cardDrv, mem, read + 1, stored) /\ ReadWhole(cardDrv, read + 1)
      /\ cardDrv.lag \in {0, 1} /\ stored \in Int /\ read \in Int /\ Reading(card, cardDrv, mem)
  BY <1>3, Zenon DEF CardRing
<1>5. /\ cardDrv.draining /\ p # card.curr_page
      /\ card.remote_dma = Card!After(p, l) /\ l + rest = mem[p].pages
  BY <1>1, <1>4, Zenon DEF Reading
<1>6. /\ p \in Card!Ring /\ Used(card, cardDrv) \in Nat \ {0} /\ Used(card, cardDrv) <= RingPages - 1
      /\ mem[p].pages \in 1 .. Used(card, cardDrv)
      /\ \A j \in 0 .. mem[p].pages - 1 :
           mem[Card!After(p, j)] = [frame |-> read + 1, part |-> j + 1, next |-> mem[p].next, pages |-> mem[p].pages]
  BY <1>3, <1>5, NextFrame
<1>7. l \in Nat
  BY <1>2, SMT
<1>8. page = [frame |-> read + 1, part |-> l + 1]
  <2>1. l \in 0 .. mem[p].pages - 1
    <3> HIDE DEF l, rest, p
    <3> QED  BY <1>1, <1>2, <1>5, <1>6, <1>7, SMT
  <2>2. mem[card.remote_dma] = [frame |-> read + 1, part |-> l + 1, next |-> mem[p].next, pages |-> mem[p].pages]
    BY <1>5, <1>6, <2>1, Zenon
  <2>3. mem[card.remote_dma].frame = read + 1 /\ mem[card.remote_dma].part = l + 1
    <3> DEFINE x == mem[card.remote_dma]
               f == read + 1
               k == l + 1
               y == mem[p].next
               z == mem[p].pages
    <3>1. x = [frame |-> f, part |-> k, next |-> y, pages |-> z]
      BY <2>2
    <3> HIDE DEF x, f, k, y, z
    <3>2. x.frame = f /\ x.part = k
      BY ONLY <3>1, SMT
    <3> QED  BY <3>2 DEF x, f, k
  <2> QED  BY <2>3
<1>9. address = Card!After(p, l + 1)
  <2>1. card.page_stop = Card!Stop /\ card.page_start = RingStart
    BY <1>4, Zenon DEF Placed
  <2>2. l + 1 <= RingPages - 1 /\ l + 1 >= 1
    <3> HIDE DEF l, rest, p
    <3> QED  BY <1>1, <1>2, <1>5, <1>6, <1>7, RingConstants, SMT
  <2>3. address = IF card.remote_dma + 1 = Card!Stop THEN RingStart ELSE card.remote_dma + 1
    BY <2>1, Zenon DEF Card!NextAddress
  <2> HIDE DEF l, rest, p, address
  <2> QED  BY <1>5, <1>6, <1>7, <2>2, <2>3, RingConstants, SMT DEF Card!After, Card!Ring, Card!Stop
<1>10. DOMAIN card = CardFields /\ DOMAIN cardDrv = DriverFields
  BY Zenon DEF CardLine
<1> DEFINE longer == Append(got, page)
           less == rest - 1
<1>11. card' = [card EXCEPT !.remote_dma = address, !.remote_bytes = less, !.ISR = status]
  BY <1>1
<1>12. cardDrv' = [cardDrv EXCEPT !.got = longer]
  BY <1>1
<1>13. /\ longer \in Seq([frame : Int, part : Int]) /\ Len(longer) = l + 1
       /\ \A k \in 1 .. l : longer[k] = got[k]
       /\ longer[l + 1] = [frame |-> read + 1, part |-> l + 1]
  <2> DEFINE D == [frame : Int, part : Int]
  <2>1. page \in D
    <3>1. [frame |-> read + 1, part |-> l + 1] \in D
      BY <1>4, <1>7, SMT
    <3> QED  BY <1>8, <3>1
  <2>2. got \in Seq(D) /\ l = Len(got)
    BY <1>2
  <2> HIDE DEF D, page, got, l
  <2>3. Append(got, page) \in Seq(D) /\ Len(Append(got, page)) = l + 1
        /\ (\A k \in 1 .. l : Append(got, page)[k] = got[k]) /\ Append(got, page)[l + 1] = page
    BY ONLY <2>1, <2>2, SMT
  <2> QED  BY <1>8, <2>3 DEF D
<1>14. less \in Nat /\ (l + 1) + less = mem[p].pages
  <2> HIDE DEF l, p, rest
  <2>1. rest - 1 \in Nat /\ (l + 1) + (rest - 1) = l + rest
    BY <1>1, <1>2, <1>7, SMT
  <2> QED  BY <1>5, <2>1
<1> HIDE DEF address, less, status, longer
<1>15. /\ card'.curr_page = card.curr_page /\ card'.bound_ptr = card.bound_ptr /\ card'.page_start = card.page_start
       /\ card'.page_stop = card.page_stop /\ card'.remote_dma = address /\ card'.remote_bytes = less
  BY ONLY <1>10, <1>11, SMT DEF CardFields
<1>16. /\ cardDrv'.next = p /\ cardDrv'.lag = cardDrv.lag /\ cardDrv'.ready = cardDrv.ready
       /\ cardDrv'.draining = cardDrv.draining /\ cardDrv'.got = longer
  BY ONLY <1>10, <1>12, SMT DEF DriverFields
<1>17. Used(card', cardDrv') = Used(card, cardDrv)
  BY <1>15, <1>16, Zenon DEF Used
<1>18. Placed(card', cardDrv')
  BY <1>4, <1>15, <1>16, <1>17, Zenon DEF Placed
<1>19. Filled(card', cardDrv', mem', read' + 1, stored')
  BY <1>1, <1>4, <1>16, <1>17, Zenon DEF Filled
<1>20. Reading(card', cardDrv', mem')
  BY <1>1, <1>5, <1>9, <1>13, <1>14, <1>15, <1>16, Zenon DEF Reading
<1>21. ReadWhole(cardDrv', read' + 1)
  <2>1. \A k \in 1 .. l : got[k] = [frame |-> read + 1, part |-> k]
    BY <1>4, Zenon DEF ReadWhole
  <2>2. \A k \in 1 .. l + 1 : k \in 1 .. l \/ k = l + 1
    BY <1>7, SMT
  <2>3. \A k \in 1 .. l + 1 : longer[k] = [frame |-> read + 1, part |-> k]
    BY <1>13, <2>1, <2>2, Zenon
  <2> QED  BY <1>1, <1>13, <1>16, <2>3, Zenon DEF ReadWhole
<1>22. Known(card', cardDrv', masked')
  BY <1>5, <1>16, Zenon DEF Known
<1> QED  BY <1>1, <1>3, <1>4, <1>13, <1>14, <1>15, <1>16, <1>18, <1>19, <1>20, <1>21, <1>22, Zenon DEF CardRing

\* The driver has read a frame: the boundary follows it, and the frame behind it is next.
LEMMA FinishRing ==
  ASSUME CardLine, CardRing, Card!FinishFrame
  PROVE  CardRing'
<1> DEFINE p == cardDrv.next
           q == mem[p].next
           n == mem[p].pages
           u == Used(card, cardDrv)
           e == card.curr_page
           behind == IF q - cardDrv.lag < RingStart THEN Card!Stop - 1 ELSE q - cardDrv.lag
           status == card.ISR \ {"rdma"}
           v == Seen(mem, p, u)
           w == Seen(mem, q, u - n)
<1>1. /\ cardDrv.got # <<>> /\ card.remote_bytes = 0 /\ read' = read + 1 /\ UNCHANGED <<mem, stored, masked>>
      /\ card' = [card EXCEPT !.bound_ptr = behind, !.ISR = status]
      /\ cardDrv' = [cardDrv EXCEPT !.next = q, !.got = <<>>]
  BY Zenon DEF Card!FinishFrame
<1>2. cardDrv.ready
  BY <1>1, Zenon DEF CardRing
<1>3. /\ Placed(card, cardDrv) /\ Filled(card, cardDrv, mem, read + 1, stored)
      /\ cardDrv.lag \in {0, 1} /\ stored \in Int /\ read \in Int /\ Reading(card, cardDrv, mem)
  BY <1>2, Zenon DEF CardRing
<1>4. cardDrv.draining /\ p # e
  BY <1>1, <1>3, Zenon DEF Reading
<1>5. /\ p \in Card!Ring /\ u \in Nat \ {0} /\ u <= RingPages - 1 /\ mem[p] = v[0]
      /\ n \in 1 .. u /\ q = Card!After(p, n)
  BY <1>2, <1>4, NextFrame
<1>6. u + cardDrv.lag <= RingPages - 1 /\ e \in Card!Ring
  BY <1>3, Zenon DEF Placed
<1>7. Layout(v, p, u, read + 1, stored)
  BY <1>3, Zenon DEF Filled
<1>8. u = Ahead(p, e)
  BY DEF Used
<1>9. DOMAIN card = CardFields /\ DOMAIN cardDrv = DriverFields
  BY Zenon DEF CardLine
<1>10. card' = [card EXCEPT !.bound_ptr = behind, !.ISR = status]
  BY <1>1
<1>11. cardDrv' = [cardDrv EXCEPT !.next = q, !.got = <<>>]
  BY <1>1
<1>12. v[0].pages = n /\ v[0].next = q
  BY <1>5
<1>13. \A o \in 0 .. u - 1 : v[o] = mem[Card!After(p, o)]
  BY <1>5, Zenon DEF Seen
<1>14. \A o \in 0 .. (u - n) - 1 : w[o] = mem[Card!After(q, o)]
  BY <1>5, Zenon DEF Seen
<1> HIDE DEF p, q, n, u, e, behind, status, v, w
<1>15. /\ card'.curr_page = e /\ card'.bound_ptr = behind /\ card'.page_start = card.page_start
       /\ card'.page_stop = card.page_stop /\ card'.remote_bytes = card.remote_bytes
  <2>1. card'.curr_page = card.curr_page /\ card'.bound_ptr = behind /\ card'.page_start = card.page_start
        /\ card'.page_stop = card.page_stop /\ card'.remote_bytes = card.remote_bytes
    BY ONLY <1>9, <1>10, SMT DEF CardFields
  <2> QED  BY <2>1 DEF e
<1>16. /\ cardDrv'.next = q /\ cardDrv'.lag = cardDrv.lag /\ cardDrv'.ready = cardDrv.ready
       /\ cardDrv'.draining = cardDrv.draining /\ cardDrv'.got = <<>>
  BY ONLY <1>9, <1>11, SMT DEF DriverFields
<1>17. /\ \A a, b \in 0 .. RingPages - 1 : a + b <= RingPages - 1 => Card!After(Card!After(p, a), b) = Card!After(p, a + b)
       /\ \A o \in 0 .. RingPages - 1 : Card!After(p, o) \in Card!Ring /\ Ahead(p, Card!After(p, o)) = o
       /\ Card!After(p, Ahead(p, e)) = e
  BY <1>5, <1>6, AfterIs
<1>18. /\ n \in 0 .. RingPages - 1 /\ u - n \in 0 .. RingPages - 1 /\ n + (u - n) = u /\ u - n \in Nat
       /\ n + (u - n) <= RingPages - 1
  BY <1>5, RingConstants, SMT
<1>19. q \in Card!Ring /\ Card!After(q, u - n) = e
  <2>1. Card!After(q, u - n) = Card!After(p, n + (u - n))
    BY <1>5, <1>17, <1>18, Zenon
  <2>2. Card!After(p, n + (u - n)) = e
    BY <1>8, <1>17, <1>18
  <2> QED  BY <1>5, <1>17, <1>18, <2>1, <2>2, Zenon
<1>20. Ahead(q, e) = u - n
  <2>1. \A o \in 0 .. RingPages - 1 : Ahead(q, Card!After(q, o)) = o
    BY <1>19, AfterIs
  <2> QED  BY <1>18, <1>19, <2>1, Zenon
<1>21. Used(card', cardDrv') = u - n
  BY <1>15, <1>16, <1>20, Zenon DEF Used
<1>22. Placed(card', cardDrv')
  <2>1. (u - n) + cardDrv.lag <= RingPages - 1
    BY <1>3, <1>5, <1>6, RingConstants, SMT
  <2>2. card.page_start = RingStart /\ card.page_stop = Card!Stop
    BY <1>3, Zenon DEF Placed
  <2>3. card'.bound_ptr = IF cardDrv'.next - cardDrv'.lag < RingStart THEN Card!Stop - 1 ELSE cardDrv'.next - cardDrv'.lag
    BY <1>15, <1>16 DEF behind
  <2> QED  BY <1>6, <1>15, <1>16, <1>19, <1>21, <2>1, <2>2, <2>3, Zenon DEF Placed
<1>23. \A o \in 0 .. (u - n) - 1 : w[o] = v[n + o]
  <2> SUFFICES ASSUME NEW o \in 0 .. (u - n) - 1 PROVE w[o] = v[n + o]
    BY Zenon
  <2>1. n + o \in 0 .. u - 1 /\ n + o <= RingPages - 1 /\ o \in 0 .. RingPages - 1
    BY <1>5, RingConstants, SMT
  <2>2. Card!After(q, o) = Card!After(p, n + o)
    BY <1>5, <1>17, <1>18, <2>1, Zenon
  <2>3. v[n + o] = mem[Card!After(p, n + o)]
    BY <1>13, <2>1, Zenon
  <2> QED  BY <1>14, <2>2, <2>3
<1>24. Layout(w, q, u - n, (read + 1) + 1, stored)
  <2>1. read + 1 \in Int
    BY <1>3, SMT
  <2>2. \A o \in 0 .. (u - v[0].pages) - 1 : w[o] = v[v[0].pages + o]
    BY <1>12, <1>23
  <2>3. Layout(w, v[0].next, u - v[0].pages, (read + 1) + 1, stored)
    BY <1>3, <1>5, <1>7, <2>1, <2>2, LayoutShrinks
  <2> QED  BY <1>12, <2>3
<1>25. Filled(card', cardDrv', mem', read' + 1, stored')
  BY <1>1, <1>16, <1>21, <1>24, Zenon DEF Filled, w
<1>26. Reading(card', cardDrv', mem')
  <2>1. ~(0 > 0)
    BY SMT
  <2> QED  BY <1>1, <1>15, <1>16, <2>1, Zenon DEF Reading
<1>27. ReadWhole(cardDrv', read' + 1)
  <2>1. Len(<<>>) = 0 /\ \A k \in 1 .. 0 : FALSE
    BY SMT
  <2> QED  BY <1>16, <2>1, Zenon DEF ReadWhole
<1>28. Known(card', cardDrv', masked')
  BY <1>4, <1>16, Zenon DEF Known
<1>29. /\ cardDrv'.lag \in {0, 1} /\ stored' \in Int /\ read' \in Int
       /\ cardDrv'.got \in Seq([frame : Int, part : Int]) /\ card'.remote_bytes \in Nat
  <2>1. read + 1 \in Int /\ <<>> \in Seq([frame : Int, part : Int]) /\ 0 \in Nat
    BY <1>3, SMT
  <2> QED  BY <1>1, <1>3, <1>15, <1>16, <2>1, Zenon
<1> QED  BY <1>2, <1>16, <1>22, <1>25, <1>26, <1>27, <1>28, <1>29, Zenon DEF CardRing

\* Every step of the card and its driver.
LEMMA CardRingKeeps ==
  ASSUME CardLine, CardRing, Card!Next
  PROVE  CardRing'
<1>1. CASE Card!Receive
  <2>1. (\E n \in PagesOfFrame, own \in BOOLEAN : Card!rx_frame(n, own)) /\ UNCHANGED <<cardDrv, read>>
    BY <1>1, Zenon DEF Card!Receive
  <2> QED  BY <2>1, RxRing, Zenon
<1>2. CASE Card!LoopBack
  <2>1. (\E n \in PagesOfFrame : Card!rx_frame(n, TRUE)) /\ UNCHANGED <<cardDrv, read>>
    BY <1>2, Zenon DEF Card!LoopBack
  <2> QED  BY <2>1, RxRing, Zenon
<1>3. CASE Card!Setup
  BY <1>3, SetupRing
<1>4. CASE Card!AsicReset
  BY <1>4, AsicResetRing
<1>5. CASE Card!HandlerReturns
  BY <1>5, ReturnRing
<1>6. CASE Card!StartFrame
  BY <1>6, StartRing
<1>7. CASE Card!asic_read
  BY <1>7, AsicReadRing
<1>8. CASE Card!FinishFrame
  BY <1>8, FinishRing
<1>9. CASE Card!RingDrained
  BY <1>9, DrainedRing
<1>10. CASE \/ Card!StopCard \/ Card!StartCard \/ Card!Transmit \/ Card!WriteIMR \/ Card!tx_timer
            \/ Card!TakeInterrupt \/ (\E b \in Card!Events : Card!Acknowledge(b))
  BY <1>10, RingOthers
<1> QED  BY <1>1, <1>2, <1>3, <1>4, <1>5, <1>6, <1>7, <1>8, <1>9, <1>10, Zenon DEF Card!Next

\* What the invariant says of the card to its driver.
LEMMA CardSays ==
  ASSUME CardLine, CardRing
  PROVE  Card!EnabledFrameIsAnnounced /\ Card!OnlyMaskedCompletionIsLost /\ Card!FramesReadWhole
<1>1. "rx" \in Card!Events /\ "tx" \in Card!Events /\ "tx" # "rx"
  BY SMT DEF Card!Events
<1>2. Card!EnabledFrameIsAnnounced
  BY <1>1, Zenon DEF Card!EnabledFrameIsAnnounced, CardLine, CardRing, Known, Card!Line
<1>3. Card!OnlyMaskedCompletionIsLost
  BY <1>1, Zenon DEF Card!OnlyMaskedCompletionIsLost, CardLine, Card!Line
<1>4. Card!FramesReadWhole
  <2>1. CASE cardDrv.ready
    BY <2>1, Zenon DEF CardRing, ReadWhole, Card!FramesReadWhole
  <2>2. CASE ~cardDrv.ready
    <3>1. cardDrv.got = <<>>
      BY <2>2, Zenon DEF CardRing
    <3>2. Len(<<>>) = 0 /\ \A k \in 1 .. 0 : FALSE
      BY SMT
    <3> QED  BY <3>1, <3>2, Zenon DEF Card!FramesReadWhole
  <2> QED  BY <2>1, <2>2
<1> QED  BY <1>2, <1>3, <1>4

-----------------------------------------------------------------------------
(* The devices of the run.  The device that is driven is sound; the others *)
(* stay as they began.                                                     *)

DevicesIInv ==
  /\ driven = "keyboard" => KbdSound
  /\ driven = "network" => CardLine /\ CardRing
  /\ driven = "time" => ClockSound
  /\ driven \in {"sound", "both"} => SoundSound

\* Every device is sound as it begins.
LEMMA DevicesStart == Init => DevicesIInv
<1> SUFFICES ASSUME Init PROVE DevicesIInv
  OBVIOUS
<1>1. KbdSound
  <2>1. Kbd!Init
    BY Zenon DEF Init
  <2> QED  BY <2>1, KbdStarts
<1>2. CardLine /\ CardRing
  <2>1. Card!Init
    BY Zenon DEF Init
  <2> QED  BY <2>1, CardLineStarts, RingStarts
<1>3. ClockSound
  <2>1. Clock!Init
    BY Zenon DEF Init
  <2> QED  BY <2>1, ClockStarts
<1>4. SoundSound
  <2>1. Disks!Init
    BY Zenon DEF Init
  <2> QED  BY <2>1, SoundStarts
<1> QED  BY <1>1, <1>2, <1>3, <1>4, Zenon DEF DevicesIInv

\* A step of the device that is driven keeps it sound, and loses no scan code.
LEMMA DevicesKeep == DevicesIInv /\ [Next]_vars => DevicesIInv' /\ (UNCHANGED kbd \/ KbdOrder)
<1> SUFFICES ASSUME DevicesIInv, [Next]_vars PROVE DevicesIInv' /\ (UNCHANGED kbd \/ KbdOrder)
  OBVIOUS
<1>1. CASE driven = "keyboard" /\ Kbd!Next /\ UNCHANGED driven
  <2>1. KbdSound' /\ KbdOrder
    BY <1>1, KbdKeeps, Zenon DEF DevicesIInv
  <2>2. driven' = "keyboard"
    BY <1>1
  <2> QED  BY <2>1, <2>2 DEF DevicesIInv
<1>2. CASE driven = "network" /\ Card!Next /\ UNCHANGED <<driven, kbd>>
  <2>1. CardLine' /\ CardRing'
    BY <1>2, CardLineKeeps, CardRingKeeps, Zenon DEF DevicesIInv
  <2>2. driven' = "network"
    BY <1>2
  <2> QED  BY <1>2, <2>1, <2>2 DEF DevicesIInv
<1>3. CASE driven = "time" /\ Clock!Next /\ UNCHANGED <<driven, kbd>>
  <2>1. ClockSound'
    BY <1>3, ClockKeeps, Zenon DEF DevicesIInv
  <2>2. driven' = "time"
    BY <1>3
  <2> QED  BY <1>3, <2>1, <2>2 DEF DevicesIInv
<1>4. CASE driven \in {"drives", "disks"} /\ UNCHANGED <<driven, kbd>>
  BY <1>4 DEF DevicesIInv
<1>5. CASE driven \in {"sound", "both"} /\ Sound!Next /\ UNCHANGED <<driven, kbd>>
  <2>1. SoundSound'
    BY <1>5, SoundKeeps, Zenon DEF DevicesIInv
  <2>2. driven' \in {"sound", "both"} /\ driven' \notin {"keyboard", "network", "time"}
    BY <1>5
  <2> QED  BY <1>5, <2>1, <2>2 DEF DevicesIInv
<1>6. CASE UNCHANGED vars
  <2>1. /\ UNCHANGED <<driven, pic>> /\ UNCHANGED keyboard /\ UNCHANGED network /\ UNCHANGED time
        /\ UNCHANGED channels
    BY <1>6, Zenon DEF vars
  <2>2. KbdSound => KbdSound'
    BY <2>1, Zenon DEF keyboard, KbdSound
  <2>3. CardLine /\ CardRing => CardLine' /\ CardRing'
    BY <2>1, Zenon DEF network, CardLine, CardRing
  <2>4. ClockSound => ClockSound'
    BY <2>1, Zenon DEF time, ClockSound, Clock!TimeReadWhole
  <2>5. SoundSound => SoundSound'
    BY <2>1, Zenon DEF channels, SoundSound
  <2>6. UNCHANGED kbd
    BY <2>1, Zenon DEF keyboard
  <2> QED  BY <2>1, <2>2, <2>3, <2>4, <2>5, <2>6, Zenon DEF DevicesIInv
<1>7. Next \/ UNCHANGED vars
  OBVIOUS
<1>8. ASSUME Next
      PROVE  \/ driven = "keyboard" /\ Kbd!Next /\ UNCHANGED driven
             \/ driven = "network" /\ Card!Next /\ UNCHANGED <<driven, kbd>>
             \/ driven = "time" /\ Clock!Next /\ UNCHANGED <<driven, kbd>>
             \/ driven \in {"drives", "disks"} /\ UNCHANGED <<driven, kbd>>
             \/ driven \in {"sound", "both"} /\ Sound!Next /\ UNCHANGED <<driven, kbd>>
  BY <1>8, Zenon DEF Next, keyboard
<1> QED  BY <1>1, <1>2, <1>3, <1>4, <1>5, <1>6, <1>7, <1>8

\* Keyboard, card, clock and sound card are sound at every instant.
THEOREM DevicesInvariant == Spec => []DevicesIInv
<1>1. Init => DevicesIInv
  BY DevicesStart
<1>2. DevicesIInv /\ [Next]_vars => DevicesIInv'
  BY DevicesKeep
<1> QED  BY <1>1, <1>2, PTL DEF Spec

\* An event that the keyboard controller, the network card, the clock or the sound
\* card has pending is requested, or a handler that will look is at work; the named
\* exceptions are the only ones.
THEOREM EventsAreAnnounced == Spec => []InterruptsAreSeen
<1>1. DevicesIInv => InterruptsAreSeen
  BY KbdSays, CardSays, SoundSays, Zenon DEF DevicesIInv, InterruptsAreSeen, ClockSound, Clock!OnlyResetSilences
<1> QED  BY <1>1, DevicesInvariant, PTL

\* What the driver reads of the card's ring is the next frame, whole and in order,
\* whatever arrives meanwhile; a mouse packet is queued whole; a time is one time.
THEOREM NothingIsTorn == Spec => []NothingTorn
<1>1. DevicesIInv => NothingTorn
  BY KbdSays, CardSays, Zenon DEF DevicesIInv, NothingTorn, ClockSound
<1> QED  BY <1>1, DevicesInvariant, PTL

\* The guest reads scan codes in the order in which keys were struck, none twice; the
\* commands that empty the keyboard's queue are the only ones that lose any.
THEOREM KeysStayInOrder == Spec => KeysReadInOrder
<1>1. DevicesIInv /\ [Next]_vars =>
        [\A n \in Kbd!Pending \ Kbd!Pending' :
           \/ kbd.outb /\ ~kbd.auxb /\ kbd.kbdByte = <<"key", n>> /\ \A m \in Kbd!Pending : n <= m
           \/ \E b \in {"f5", "f6", "ff", "ed", "05"} : kbd' = Kbd!kbd_ctrl_to_kbd([kbd EXCEPT !.port60 = "none"], b)
           \/ ~kbd.tested /\ kbd'.tested]_<<kbd>>
  BY DevicesKeep, Zenon DEF KbdOrder, Loses
<1> QED  BY <1>1, DevicesInvariant, PTL DEF Spec, KeysReadInOrder, Kbd!KeysReadInOrder
=============================================================================
