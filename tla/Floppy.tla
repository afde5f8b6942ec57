------------------------------- MODULE Floppy --------------------------------
(***************************************************************************)
(* The floppy disk controller (iodev/floppy.cc) and a driver of the guest  *)
(* that gives a command, waits for the interrupt and reads the results, or *)
(* tires of waiting and resets the controller.  A command is given with    *)
(* all its bytes at once; the four bytes of a sector's header are one; of  *)
(* a sector, only which one it is is followed.  The disk has two sides.    *)
(***************************************************************************)
EXTENDS Dma, Sequences

CONSTANTS
  Tracks, Spt,     \* tracks of a side, sectors of a track
  SectorBytes,     \* bytes of a sector: 512
  ResultBytes,     \* result bytes of a transfer: 7
  Starts,          \* <<cylinder, head, sector>> at which the driver's transfers start
  Counts,          \* bytes of its transfers
  MaxCommands      \* bound: commands and resets of the driver

FloppyConstantsOK ==
  /\ {Tracks, Spt, SectorBytes} \subseteq Nat \ {0} /\ ResultBytes \in Nat \ {0, 1} /\ MaxCommands \in Nat
  /\ Starts \subseteq (0 .. Tracks - 1) \X {0, 1} \X (1 .. Spt + 1) /\ Counts \subseteq Nat \ {0}

VARIABLES
  fdc,             \* the controller
  media,           \* the disk of drives 0 and 1
  drv,             \* the driver
  moved,           \* history: the transfer, and the sectors that it moved
  hung,            \* history: why a command may never be answered
  commands         \* commands and resets so far

floppy == <<fdc, media, drv, moved, hung, commands>>

FloppyIrq == 6
Channel == 2
Drives == 0 .. 2        \* nothing is connected as drive 2
Media == {"none", "writable", "protected"}
Transfers == {"read", "write", "format"}
Nothing == [from |-> <<0, 0, 1>>, both |-> FALSE, seen |-> <<>>]
Tracked == [cyl : 0 .. Tracks, head : {0, 1}, sector : 0 .. (Spt + 1)]

FloppyTypeOK ==
  /\ fdc \in [normal : BOOLEAN, drive : Drives, motor : SUBSET {0, 1}, data : {"ready", "busy", "results"},
              pending : Transfers \union {"none", "specify", "status", "seek", "sense", "id", "reset"},
              at : [Drives -> Tracked], loaded : 0 .. (2 * Spt * (Tracks + 1)), index : 0 .. (SectorBytes + 2),
              st0 : {"ok", "abnormal", "invalid", "sought", "changed"}, results : 0 .. ResultBytes, size : 0 .. ResultBytes,
              unit : -1 .. 3, pending_irq : BOOLEAN, sensei : 0 .. 4, both : BOOLEAN, headers : 0 .. Spt,
              timer : BOOLEAN]
  /\ drv \in [does : {"idle", "prepared", "in reset", "waits", "senses"}, about : Transfers \union {"none", "status", "seek", "id", "reset"},
              told : BOOLEAN, heard : Seq(-1 .. 3)]
  /\ hung \subseteq {"drive", "motor", "part", "request"} /\ commands \in 0 .. MaxCommands

\* init, the reset that follows it, and a driver that has seen its interrupt.
FloppyInit ==
  /\ fdc = [normal |-> TRUE, drive |-> 0, motor |-> {}, data |-> "ready", pending |-> "none",
            at |-> [d \in Drives |-> [cyl |-> 0, head |-> 0, sector |-> 0]], loaded |-> 0, index |-> 0, st0 |-> "ok",
            results |-> 0, size |-> 0, unit |-> 0, pending_irq |-> FALSE, sensei |-> 0, both |-> FALSE, headers |-> 0,
            timer |-> FALSE]
  /\ media \in [{0, 1} -> Media] /\ drv = [does |-> "idle", about |-> "none", told |-> FALSE, heard |-> <<>>]
  /\ moved = Nothing /\ hung = {} /\ commands = 0

-----------------------------------------------------------------------------
(* Phases. *)

enter_idle_phase(f) == [f EXCEPT !.data = "ready", !.pending = "none", !.index = 0]

\* Results are entered with an interrupt after a transfer and a read ID, and
\* with the size of the last ones if no command is pending.
Size(f) == IF f.st0 = "invalid" \/ f.pending = "status" THEN 1 ELSE IF f.pending = "sense" THEN 2
           ELSE IF f.pending \in Transfers \union {"id"} THEN ResultBytes ELSE f.size
Interrupts(f) == f.st0 # "invalid" /\ f.pending \in Transfers \union {"id"}
Interrupting(f) == [f EXCEPT !.pending_irq = TRUE, !.sensei = 0]
enter_result_phase(f) ==
  LET shown == [f EXCEPT !.data = "results", !.results = Size(f), !.size = Size(f)]
  IN  IF Interrupts(f) THEN Interrupting(shown) ELSE shown
InterruptOf(f, p) == IF Interrupts(f) THEN raise_irq(p, FloppyIrq) ELSE p

Failed(f) == enter_result_phase([f EXCEPT !.st0 = "abnormal"])

\* reset, but for the line and the request that it lowers.
Reset(f) ==
  enter_idle_phase([f EXCEPT !.pending_irq = FALSE, !.sensei = 0, !.st0 = "ok",
                             !.at = [d \in Drives |-> [cyl |-> 0, head |-> 0, sector |-> 0]]])

Drops(d) == set_DRQ(d, Channel, FALSE)

-----------------------------------------------------------------------------
(* Where a transfer goes on. *)

Logical(a) == (a.cyl * 2 + a.head) * Spt + a.sector - 1

\* increment_sector.  The wrong version stays on the side.
StaysOnSide(f, a) == [a EXCEPT !.cyl = @ + 1]
NextTrack(f, a) ==
  IF ~f.both THEN [a EXCEPT !.cyl = @ + 1]
  ELSE IF a.head = 0 THEN [a EXCEPT !.head = 1] ELSE [a EXCEPT !.head = 0, !.cyl = @ + 1]
Incremented(f, a) ==
  LET next == IF a.sector < Spt THEN [a EXCEPT !.sector = @ + 1] ELSE [NextTrack(f, a) EXCEPT !.sector = 1]
  IN  IF a.sector = Spt /\ next.cyl >= Tracks THEN [next EXCEPT !.cyl = Tracks] ELSE next
increment_sector(f) == [f EXCEPT !.at[f.drive] = Incremented(f, @)]

Loaded(f) == [f EXCEPT !.loaded = Logical(f.at[f.drive])]

-----------------------------------------------------------------------------
(* The driver. *)

Commands(does, about) ==
  /\ commands < MaxCommands /\ commands' = commands + 1
  /\ drv' = [does |-> does, about |-> about, told |-> FALSE, heard |-> <<>>]
Quietly == UNCHANGED <<dma, pic, media>>
CanCommand == drv.does = "idle" /\ fdc.data = "ready"

GetStatus ==
  /\ CanCommand /\ Commands("waits", "status")
  /\ fdc' = enter_result_phase([fdc EXCEPT !.pending = "status"])
  /\ Quietly /\ UNCHANGED <<moved, hung>>

\* Recalibrating is a seek to cylinder 0 that turns a motor on.
Seek == \E d \in Drives, c \in 0 .. Tracks - 1 :
  /\ CanCommand /\ Commands("waits", "seek")
  /\ fdc' = [fdc EXCEPT !.pending = "seek", !.drive = d, !.at[d].cyl = c, !.data = "busy", !.timer = TRUE]
  /\ Quietly /\ UNCHANGED <<moved, hung>>

\* With the motor off, a read ID stays busy.
ReadId == \E d \in {0, 1} :
  /\ CanCommand /\ Commands("waits", "id")
  /\ fdc' = [fdc EXCEPT !.pending = "id", !.drive = d, !.data = "busy", !.timer = @ \/ d \in fdc.motor,
                        !.st0 = IF d \in fdc.motor THEN "ok" ELSE @]
  /\ hung' = IF d \in fdc.motor THEN hung ELSE hung \union {"motor"}
  /\ Quietly /\ UNCHANGED moved

\* Turns the motor on, and programs the DMA channel.  A format is told the headers
\* of one track.
Prepare == \E d \in {0, 1}, kind \in Transfers, n \in Counts \union {Spt} :
  /\ drv.does = "idle" /\ (kind = "format" <=> n \notin Counts) /\ (kind = "format" => media[d] # "none")
  /\ Commands("prepared", kind)
  /\ dma' = Programmed(dma, Channel, n, FALSE, kind = "read")
  /\ fdc' = [fdc EXCEPT !.drive = d, !.motor = @ \union {d}]
  /\ moved' = Nothing /\ UNCHANGED <<media, pic, hung>>

Fails(f) == fdc' = Failed(f) /\ pic' = InterruptOf([f EXCEPT !.st0 = "abnormal"], pic)

Transfer == \E start \in Starts, both \in BOOLEAN :
  LET place == [cyl |-> start[1], head |-> start[2], sector |-> start[3]]
      begun == [fdc EXCEPT !.pending = drv.about, !.both = both]
  IN  /\ drv.does = "prepared" /\ drv.about # "format" /\ fdc.data = "ready"
      /\ drv' = [drv EXCEPT !.does = "waits"]
      /\ moved' = [from |-> start, both |-> both, seen |-> <<>>]
      /\ IF media[fdc.drive] = "none" THEN Fails(begun) /\ UNCHANGED dma
         ELSE IF place.sector > Spt THEN Fails([begun EXCEPT !.at[fdc.drive] = [place EXCEPT !.sector = Spt]]) /\ UNCHANGED dma
         ELSE LET there == [begun EXCEPT !.at[fdc.drive] = place, !.data = "busy"]
              IN  /\ fdc' = IF drv.about = "read" THEN Loaded(there) ELSE there
                  /\ dma' = set_DRQ(dma, Channel, TRUE) /\ UNCHANGED pic
      /\ UNCHANGED <<media, hung, commands>>

Format == \E h \in {0, 1} :
  LET begun == [fdc EXCEPT !.pending = "format", !.at[fdc.drive].head = h] IN
  /\ drv.does = "prepared" /\ drv.about = "format" /\ fdc.data = "ready"
  /\ drv' = [drv EXCEPT !.does = "waits"]
  /\ moved' = [from |-> <<fdc.at[fdc.drive].cyl, h, 1>>, both |-> FALSE, seen |-> <<>>]
  /\ IF media[fdc.drive] = "protected" THEN Fails(begun) /\ UNCHANGED dma
     ELSE /\ fdc' = [begun EXCEPT !.headers = Spt, !.data = "busy"]
          /\ dma' = set_DRQ(dma, Channel, TRUE) /\ UNCHANGED pic
  /\ UNCHANGED <<media, hung, commands>>

\* The driver does not wait for ever, and may close its channel.
StartReset == \E closes \in BOOLEAN :
  /\ drv.does \in {"idle", "prepared", "waits"} /\ Commands("in reset", "reset")
  /\ fdc' = [fdc EXCEPT !.normal = FALSE, !.data = "busy", !.pending = "reset"]
  /\ dma' = IF closes THEN Masked(dma, Channel) ELSE dma
  /\ UNCHANGED <<media, pic, moved, hung>>

EndReset ==
  /\ drv.does = "in reset" /\ drv' = [drv EXCEPT !.does = "waits"]
  /\ fdc' = [fdc EXCEPT !.normal = TRUE, !.timer = TRUE]
  /\ Quietly /\ UNCHANGED <<moved, hung, commands>>

TakeFloppyInterrupt ==
  /\ FloppyIrq \in pic.irr /\ pic' = take_irq(pic, FloppyIrq)
  /\ drv' = [drv EXCEPT !.told = TRUE] /\ UNCHANGED <<dma, fdc, media, moved, hung, commands>>

\* Sense interrupt status, after a seek, and four times after a reset.
Sense ==
  /\ drv.does = "waits" /\ drv.told /\ drv.about \in {"seek", "reset"} /\ fdc.data = "ready"
  /\ LET known == IF ~fdc.pending_irq THEN [fdc EXCEPT !.st0 = "invalid", !.unit = -1]
                  ELSE IF fdc.sensei > 0 THEN [fdc EXCEPT !.unit = 4 - fdc.sensei, !.sensei = @ - 1]
                  ELSE [fdc EXCEPT !.unit = fdc.drive]
     IN  fdc' = enter_result_phase([known EXCEPT !.pending = "sense"])
  /\ drv' = [drv EXCEPT !.does = "senses"]
  /\ Quietly /\ UNCHANGED <<moved, hung, commands>>

\* A result byte; with the last one the line falls.  The wrong version takes the
\* interrupt back with the first of the four answers.
AnsweredOnce(f) == [f EXCEPT !.pending_irq = FALSE]
Answered(f) == IF f.sensei = 0 THEN [f EXCEPT !.pending_irq = FALSE] ELSE f

Heard ==
  IF drv.does # "senses" THEN [drv EXCEPT !.does = "idle", !.told = FALSE]
  ELSE LET now == Append(drv.heard, fdc.unit)
       IN  [drv EXCEPT !.heard = now, !.does = IF drv.about = "reset" /\ Len(now) < 4 THEN "waits" ELSE "idle"]

ReadResult ==
  /\ fdc.data = "results"
  /\ drv.does = "senses" \/ (drv.does = "waits" /\ (drv.told \/ drv.about = "status") /\ drv.about \notin {"seek", "reset"})
  /\ IF fdc.results > 1
     THEN fdc' = [fdc EXCEPT !.results = @ - 1] /\ UNCHANGED <<pic, drv>>
     ELSE fdc' = enter_idle_phase(Answered([fdc EXCEPT !.results = 0]))
          /\ pic' = lower_irq(pic, FloppyIrq) /\ drv' = Heard
  /\ UNCHANGED <<dma, media, moved, hung, commands>>

-----------------------------------------------------------------------------
(* The controller. *)

timer ==
  /\ fdc.timer
  /\ LET off == [fdc EXCEPT !.timer = FALSE] IN
     CASE fdc.pending = "seek" ->
            LET sought == [off EXCEPT !.st0 = "sought"] IN
            IF fdc.drive > 1 THEN fdc' = sought /\ hung' = hung \union {"drive"} /\ UNCHANGED <<dma, pic>>
            ELSE /\ fdc' = Interrupting(enter_idle_phase(sought)) /\ pic' = raise_irq(pic, FloppyIrq)
                 /\ UNCHANGED <<dma, hung>>
       [] fdc.pending = "id" ->
            fdc' = enter_result_phase(off) /\ pic' = InterruptOf(off, pic) /\ UNCHANGED <<dma, hung>>
       [] fdc.pending = "reset" ->
            /\ fdc' = [Interrupting(Reset(off)) EXCEPT !.st0 = "changed", !.sensei = 4]
            /\ pic' = raise_irq(lower_irq(pic, FloppyIrq), FloppyIrq)
            /\ dma' = Drops(dma) /\ hung' = {}
       [] OTHER -> fdc' = off /\ UNCHANGED <<dma, pic, hung>>   \* a panic, if a transfer is pending
  /\ moved' = IF fdc.pending = "reset" THEN Nothing ELSE moved
  /\ UNCHANGED <<media, drv, commands>>

\* The end of a transfer.
Done(f) ==
  LET ended == [f EXCEPT !.st0 = "ok"] IN
  fdc' = enter_result_phase(ended) /\ pic' = InterruptOf(ended, pic)

\* dma_write: from the disk.  The next sector is read as soon as the last one is
\* taken; the end of the count is looked at only then.
FromDisk(atEnd) ==
  LET byte == [fdc EXCEPT !.index = @ + 1]
      next == [increment_sector(byte) EXCEPT !.index = 0]
  IN  IF byte.index < SectorBytes THEN fdc' = byte /\ UNCHANGED <<pic, moved>>
      ELSE /\ IF atEnd THEN Done(next) ELSE fdc' = Loaded(next) /\ UNCHANGED pic
           /\ moved' = [moved EXCEPT !.seen = Append(@, fdc.loaded)]

\* dma_read: to the disk, or the header of a sector to be formatted.
ToDisk(atEnd) ==
  LET byte == [fdc EXCEPT !.index = @ + 1]
      next == [increment_sector(byte) EXCEPT !.index = 0]
      header == [fdc EXCEPT !.headers = @ - 1, !.at[fdc.drive].sector = Spt - fdc.headers + 1]
  IN  IF fdc.pending = "format"
      THEN /\ IF header.headers = 0 \/ atEnd THEN Done(header) ELSE fdc' = header /\ UNCHANGED pic
           /\ moved' = [moved EXCEPT !.seen = Append(@, Logical(header.at[fdc.drive]))]
      ELSE IF byte.index < SectorBytes THEN fdc' = byte /\ UNCHANGED <<pic, moved>>
      ELSE IF media[fdc.drive] = "protected" THEN Fails(byte) /\ UNCHANGED moved
      ELSE /\ IF atEnd THEN Done(next) ELSE fdc' = next /\ UNCHANGED pic
           /\ moved' = [moved EXCEPT !.seen = Append(@, Logical(fdc.at[fdc.drive]))]

\* The DMA controller calls with a datum, whatever the command.  A sector that
\* cannot be written ends the command, but leaves the request up; what would be
\* written behind the buffer is left out.
Refused == Channel \notin dma.inward /\ fdc.pending # "format" /\ media[fdc.drive] = "protected"
AtSectorEnd == fdc.pending # "format" /\ fdc.index + 1 = SectorBytes
EndsWith(atEnd) ==
  IF Channel \notin dma.inward /\ fdc.pending = "format" THEN atEnd \/ fdc.headers = 1
  ELSE atEnd /\ AtSectorEnd /\ ~Refused

FloppyMoves(d, atEnd) ==
  /\ fdc.index < SectorBytes
  /\ fdc.drive \in DOMAIN media /\ (fdc.pending = "format" => fdc.data = "busy")   \* else a panic
  /\ IF Channel \in dma.inward THEN FromDisk(atEnd) ELSE ToDisk(atEnd)
  /\ dma' = Ended(IF EndsWith(atEnd) THEN Drops(d) ELSE d, Channel, atEnd)
  /\ hung' = hung \union (IF AtSectorEnd /\ Refused THEN {"request"}
                          ELSE IF atEnd /\ ~EndsWith(atEnd) THEN {"part"} ELSE {})
  /\ UNCHANGED <<media, drv, commands>>

FloppyNext ==
  \/ GetStatus \/ Seek \/ ReadId \/ Prepare \/ Transfer \/ Format \/ StartReset \/ EndReset
  \/ TakeFloppyInterrupt \/ Sense \/ ReadResult \/ timer

-----------------------------------------------------------------------------
\* A transfer moves the sectors that follow the first one asked for, on both sides
\* or on one, none twice, whatever the bytes of the count and the other channels
\* do in between.
SectorsFollow ==
  LET a == moved.from
      track(k) == (a[3] - 1 + k) \div Spt
      after(k) == (a[3] - 1 + k) % Spt
      sector(k) == IF moved.both THEN (a[1] * 2 + a[2]) * Spt + a[3] - 1 + k
                   ELSE ((a[1] + track(k)) * 2 + a[2]) * Spt + after(k)
  IN  "request" \notin hung => \A i \in DOMAIN moved.seen : moved.seen[i] = sector(i - 1)

\* A driver that waits will be told, or has been hung: by a drive that is not there,
\* by a motor that is off, by a count that ends within a sector, or by a request
\* that was left up behind the error of a protected disk.
FloppyWaitIsTold ==
  drv.does = "waits" /\ ~drv.told /\ drv.about # "status" /\ hung = {} =>
    \/ fdc.timer \/ FloppyIrq \in pic.irr
    \/ fdc.pending \in Transfers /\ Channel \in dma.requests \ dma.masked

\* Four senses after a reset answer for the four drives in turn, and one after a
\* seek for its drive.
SensesAnswer ==
  \A i \in DOMAIN drv.heard : drv.heard[i] = IF drv.about = "reset" THEN i - 1 ELSE fdc.drive
=============================================================================
