-------------------------------- MODULE Ata --------------------------------
(***************************************************************************)
(* The ATA channel (iodev/harddrv.cc): a disk as drive 0 and, as drive 1,  *)
(* the CD-ROM drive with its packet commands or another disk.  "c" holds   *)
(* the two controllers; the guest writes the registers of both and reads   *)
(* those of the selected one.  A sector is two accesses of the data port;  *)
(* an access moves two of the Block bytes of a CD-ROM block.  The contents *)
(* of a sector are its number.  The images behind the disks may fail any   *)
(* call.  The guest's driver is external: it gives a command, waits for    *)
(* the interrupt, or polls when it has disabled it, and moves data while   *)
(* DRQ is set; it may abandon a command or reset the channel at any time.  *)
(* Both drives are present, with the option newharddrivesupport.  Where    *)
(* the code panics (the geometry of INITIALIZE DRIVE PARAMETERS, disk      *)
(* commands to the CD-ROM drive) the driver does nothing that makes it.    *)
(* Commands that do the same are one: "features" is SET FEATURES with the  *)
(* subcommand that is supported, and "unknown" is it with another, PACKET  *)
(* with DMA or overlap, and every command that is only aborted.            *)
(***************************************************************************)
EXTENDS Integers, Sequences, IrqLines

CONSTANTS
  Slaves,          \* devices that drive 1 may be: "disk" or "cdrom"
  Cylinders, Heads, Spt,
  Byte,            \* what a register of one byte holds: 256
  Block,           \* bytes of a CD-ROM block: 2048
  Capacity,        \* blocks of the CD-ROM
  Firsts,          \* sectors at which the driver starts: -1 is sector 0 of a track
  Limits,          \* byte counts that the driver asks for
  Lengths,         \* bytes of the answers of packet commands, and of what the driver allocates
  MaxCommands      \* bound: commands, resets and changes of nIEN

Sectors == Cylinders * Heads * Spt
Line == 14

ConstantsOK ==
  /\ Slaves \subseteq {"disk", "cdrom"}
  /\ {Cylinders, Heads, Spt, Byte, Capacity, MaxCommands} \subseteq Nat \ {0}
  /\ Block \in Nat /\ Block > 0 /\ Block % 2 = 0
  /\ Firsts \subseteq -1 .. Sectors
  /\ Limits \subseteq 2 .. (2 * Block) /\ Lengths \subseteq 1 .. Block

VARIABLES
  c,               \* the controllers of drives 0 and 1
  sel,             \* drive_select
  kind,            \* what each drive is
  cd,              \* the packet command that the CD-ROM drive answers
  pic,             \* interrupt line 14
  drv,             \* the driver
  at,              \* history: the last sector moved, and which part of it
  short,           \* history: a command ended without an error and short of data
  wrapped,         \* history: the transfer has stepped past the end of the disk
  commands         \* commands, resets and changes of nIEN so far

vars == <<c, sel, kind, cd, pic, drv, at, short, wrapped, commands>>

\* buffer: the sector or block it holds; idx: accesses (CD-ROM: bytes) done in
\* it.  cyl and count are also the byte count and the interrupt reason of a
\* packet command.
Fresh ==
  [cmd |-> "none", drq |-> FALSE, err |-> FALSE, busy |-> FALSE, srst |-> FALSE, nIEN |-> FALSE,
   lba |-> FALSE, cyl |-> 0, head |-> 0, sec |-> 1, count |-> 1, idx |-> 0, buffer |-> -1]

NoPacket == [command |-> "none", drq_bytes |-> 0, drq_index |-> 0, total |-> 0, next |-> 0, remaining |-> 0,
             ready |-> TRUE]

\* op: the command the driver gave; first: its first sector; left and moved:
\* accesses it has to make (in this phase of a packet) and has made in all;
\* waits: for an interrupt; told: it has come
Resting == [op |-> "none", first |-> 0, left |-> 0, moved |-> 0, bytes |-> 0, waits |-> FALSE,
            told |-> FALSE]

DataCommands == {"read", "write", "identify", "identifypacket"}
OtherCommands == {"seek", "recalibrate", "verify", "diagnose", "parameters", "setmultiple", "features", "power",
                  "reset", "unknown"}

TypeOK ==
  /\ \A d \in {0, 1} :
       /\ c[d].cmd \in DataCommands \union {"none", "packet"}
       /\ {c[d].drq, c[d].err, c[d].busy, c[d].srst, c[d].nIEN, c[d].lba} \subseteq BOOLEAN
       /\ c[d].cyl \in Nat /\ c[d].head \in 0 .. (Heads - 1)
       /\ c[d].sec \in 0 .. (Byte - 1) /\ c[d].count \in 0 .. (Byte - 1)
       /\ c[d].idx \in 0 .. Block /\ c[d].buffer \in -1 .. (Sectors + Capacity)
  /\ sel \in {0, 1} /\ kind[0] = "disk" /\ kind[1] \in Slaves
  /\ cd.ready \in BOOLEAN /\ cd.remaining \in 0 .. Capacity /\ cd.next \in 0 .. Capacity
  /\ pic \in IrqType({Line}) /\ {short, wrapped} \subseteq BOOLEAN
  /\ commands \in 0 .. MaxCommands

Init ==
  /\ c = [d \in {0, 1} |-> Fresh] /\ sel = 0
  /\ \E k \in Slaves : kind = [d \in {0, 1} |-> IF d = 0 THEN "disk" ELSE k]
  /\ cd = NoPacket /\ pic = NoIrq 
  /\ drv = Resting /\ at = <<-1, 0>> /\ short = FALSE /\ wrapped = FALSE /\ commands = 0

-----------------------------------------------------------------------------
(* One controller. *)

raise_interrupt(k, p) == IF k.nIEN THEN p ELSE raise_irq(p, Line)

\* A write of the command port and a read of the status lower the line.
StaysRaised(p) == p
Cleared(p) == lower_irq(p, Line)

command_aborted(k) ==
  [k EXCEPT !.cmd = "none", !.busy = FALSE, !.err = TRUE, !.drq = FALSE, !.idx = 0]

\* The sector that the registers name, or -1 when the disk does not have it.
calculate_logical_address(k) ==
  LET n == IF k.lba THEN k.cyl * Byte + k.sec
           ELSE (k.cyl * Heads + k.head) * Spt + k.sec - 1
  IN  IF n \in 0 .. (Sectors - 1) THEN n ELSE -1

SkipsHeads(k) ==
  IF k.sec + 1 <= Spt THEN [k EXCEPT !.sec = @ + 1]
  ELSE [k EXCEPT !.sec = 1, !.cyl = IF @ + 1 >= Cylinders THEN Cylinders - 1 ELSE @ + 1]

NextCHS(k) ==
  IF k.sec + 1 <= Spt THEN [k EXCEPT !.sec = @ + 1]
  ELSE IF k.head + 1 < Heads THEN [k EXCEPT !.sec = 1, !.head = @ + 1]
  ELSE [k EXCEPT !.sec = 1, !.head = 0, !.cyl = IF @ + 1 >= Cylinders THEN Cylinders - 1 ELSE @ + 1]

\* The count goes down from 0 as from 256.  A CHS address that is stepped past
\* the end of the disk stays in the last cylinder.
CountDown(n) == (n - 1) % Byte

increment_address(k) ==
  LET n == calculate_logical_address(k) + 1
      r == [k EXCEPT !.count = CountDown(@)]
  IN  IF k.lba THEN [r EXCEPT !.cyl = n \div Byte, !.sec = n % Byte] ELSE NextCHS(r)

\* The next sector is read into the buffer, unless the address is bad or the
\* image fails.
Fetched(k, fails) ==
  LET n == calculate_logical_address(k)
  IN  IF n = -1 \/ fails THEN command_aborted(k)
      ELSE [k EXCEPT !.drq = TRUE, !.err = FALSE, !.buffer = n, !.idx = 0]

Ended(k) == [k EXCEPT !.busy = FALSE, !.drq = FALSE, !.err = FALSE]
Offered(k, op) == [k EXCEPT !.cmd = op, !.drq = TRUE, !.err = FALSE, !.idx = 0]

Signature(k, isDisk) == [k EXCEPT !.head = 0, !.count = 1, !.sec = 1, !.cyl = IF isDisk THEN 0 ELSE 2 * Block]

\* A command to a disk that is written to its command port.
DiskCommand(k, op, fails) ==
  CASE op = "read" -> IF ~k.lba /\ k.head = 0 /\ k.cyl = 0 /\ k.sec = 0 THEN command_aborted(k)
                      ELSE Fetched([k EXCEPT !.cmd = "read"], fails)
    [] op \in {"write", "identify"} -> Offered(k, op)
    [] op = "seek" -> IF calculate_logical_address(k) = -1 THEN command_aborted(k)
                      ELSE [Ended(k) EXCEPT !.idx = 0]
    [] op = "recalibrate" -> [Ended(k) EXCEPT !.cyl = 0]
    [] op = "setmultiple" -> Ended(IF k.count = 2 THEN k ELSE command_aborted(k))
    [] op = "power" -> [Ended(k) EXCEPT !.count = Byte - 1]
    [] op \in {"verify", "diagnose", "parameters", "features"} -> Ended(k)
    [] OTHER -> command_aborted(k)

\* A command to the CD-ROM drive; the others make it panic.
CdCommands == {"read", "identify", "identifypacket", "packet", "reset", "seek", "power", "unknown"}

CdCommand(k, op) ==
  CASE op = "packet" -> [Offered(k, op) EXCEPT !.count = 1]
    [] op = "identifypacket" -> Offered(k, op)
    [] op = "reset" -> Ended(Signature(k, FALSE))
    [] op = "power" -> [Ended(k) EXCEPT !.count = Byte - 1]
    [] op = "identify" -> command_aborted(Signature(k, FALSE))
    [] OTHER -> command_aborted(k)

\* Commands after which a driver has nothing to wait for: it sends data, or polls.
Silent == {"write", "packet", "reset"}

\* Commands that end without the interrupt that a driver waits for: EXECUTE
\* DEVICE DIAGNOSTIC, and SET MULTIPLE MODE of a number of sectors that is
\* supported (of those of the model 2 only).
Forgets(k, op) == op = "diagnose" \/ (op = "setmultiple" /\ k.count = 2)

-----------------------------------------------------------------------------
(* The driver gives a command: it selects a drive, writes the registers of *)
(* both drives and then the command.  It selects another drive only when   *)
(* none has data to move.                                                  *)

GiveCommand(d, op, lba, cyl, head, sec, count) ==
  LET set(k) == [k EXCEPT !.lba = lba, !.cyl = cyl, !.head = head, !.sec = sec, !.count = count]
      k == set(c[d])
      accesses == CASE op \in {"read", "write"} -> 2 * (IF count = 0 THEN Byte ELSE count)
                    [] op \in {"identify", "identifypacket"} -> 2
                    [] OTHER -> 0
  IN  /\ drv.op = "none" /\ ~c[d].busy
      /\ commands < MaxCommands /\ commands' = commands + 1
      /\ d = sel \/ ~c[sel].drq
      /\ kind[d] = "cdrom" => op \in CdCommands
      /\ sel' = d
      /\ \E fails \in BOOLEAN :
           LET r == IF kind[d] = "disk" THEN DiskCommand(k, op, fails) ELSE CdCommand(k, op)
               says == IF op \in Silent THEN r.err ELSE ~Forgets(k, op)
           IN  /\ c' = [e \in {0, 1} |-> IF e = d THEN r ELSE set(c[e])]
               /\ pic' = IF says THEN raise_interrupt(k, Cleared(pic)) ELSE Cleared(pic)
               /\ drv' = [Resting EXCEPT !.op = op, !.first = calculate_logical_address(k), !.left = accesses,
                                         !.waits = op \notin Silent /\ ~k.nIEN]
      /\ at' = <<-1, 0>> /\ wrapped' = FALSE
      /\ UNCHANGED <<kind, cd, short>>

Interrupt ==
  /\ Line \in pic.irr /\ drv.waits
  /\ pic' = take_irq(pic, Line)
  /\ drv' = [drv EXCEPT !.waits = FALSE, !.told = TRUE]
  /\ UNCHANGED <<c, sel, kind, cd, at, short, wrapped, commands>>

\* It reads the status and goes by what it says.  A command that ends without
\* an error has moved all it should.
ReadStatus ==
  LET k == c[sel]
      seen == [drv EXCEPT !.told = FALSE]
  IN  /\ drv.op # "none" /\ ~drv.waits /\ (drv.told \/ drv.left = 0 \/ k.err)
      /\ pic' = Cleared(pic)
      /\ drv' = IF k.err \/ ~k.drq THEN [seen EXCEPT !.op = "none"]
                ELSE IF drv.op = "answer" THEN [seen EXCEPT !.left = (k.cyl + 1) \div 2]
                ELSE seen
      /\ short' = (short \/ (~k.err /\ ~k.drq /\ (drv.left > 0 \/ 2 * drv.moved < drv.bytes)))
      /\ UNCHANGED <<c, sel, kind, cd, at, wrapped, commands>>

\* It gives up, and may give the same drive another command.
Abandon ==
  /\ drv.op # "none"
  /\ drv' = Resting
  /\ UNCHANGED <<c, sel, kind, cd, pic, at, short, wrapped, commands>>

\* A write of the control register: nIEN, and the two halves of a reset.
Control(srst, nIEN) ==
  LET k == [d \in {0, 1} |-> [c[d] EXCEPT !.srst = srst, !.nIEN = nIEN]]
      reset(r) == [r EXCEPT !.busy = TRUE, !.drq = FALSE, !.err = FALSE, !.cmd = "none", !.idx = 0,
                            !.lba = FALSE, !.nIEN = FALSE]
  IN  /\ drv.op = "none"
      /\ \/ c[sel].srst /\ ~srst
         \/ <<srst, nIEN>> # <<c[sel].srst, c[sel].nIEN>> /\ commands < MaxCommands
      /\ commands' = IF c[sel].srst THEN commands ELSE commands + 1
      /\ IF srst /\ ~c[sel].srst THEN c' = [d \in {0, 1} |-> reset(k[d])] /\ pic' = lower_irq(pic, Line)
         ELSE IF c[sel].busy /\ ~srst
         THEN /\ c' = [d \in {0, 1} |-> [Signature(k[d], kind[d] = "disk") EXCEPT !.busy = FALSE]]
              /\ UNCHANGED pic
         ELSE c' = k /\ UNCHANGED pic
      /\ UNCHANGED <<sel, kind, cd, drv, at, short, wrapped>>

-----------------------------------------------------------------------------
(* The data port. *)

Moving == ~drv.waits /\ ~drv.told /\ drv.left > 0 /\ c[sel].drq
Last(k) == k.idx = 1

\* Half a sector is read.  With the last half the next sector is fetched and
\* announced, if there is one; the end of the last one is not announced.
ReadData ==
  LET k == c[sel]
      next == increment_address([k EXCEPT !.idx = 0])
  IN  /\ drv.op = "read" /\ Moving
      /\ at' = <<k.buffer, k.idx>>
      /\ drv' = [drv EXCEPT !.left = @ - 1, !.moved = @ + 1, !.op = IF drv.left = 1 THEN "none" ELSE @,
                            !.waits = Last(k) /\ drv.left > 1 /\ ~k.nIEN]
      /\ \E fails \in BOOLEAN :
           LET r == IF ~Last(k) THEN [k EXCEPT !.idx = 1]
                    ELSE IF next.count = 0 THEN Ended(next) ELSE Fetched(next, fails)
           IN  /\ c' = [c EXCEPT ![sel] = r]
               /\ pic' = IF Last(k) /\ next.count # 0 THEN raise_interrupt(k, pic) ELSE pic
      /\ wrapped' = (wrapped \/ (Last(k) /\ calculate_logical_address(k) = Sectors - 1))
      /\ UNCHANGED <<sel, kind, cd, short, commands>>

\* Half a sector is written.  With the last half it goes to the image, and the
\* interrupt asks for the next one or announces the end.
WriteData ==
  LET k == c[sel]
      n == calculate_logical_address(k)
      next == increment_address([k EXCEPT !.idx = 0])
  IN  /\ drv.op = "write" /\ Moving
      /\ at' = IF Last(k) THEN <<n, 1>> ELSE at
      /\ \E fails \in BOOLEAN :
           LET aborts == n = -1 \/ fails
               r == IF ~Last(k) THEN [k EXCEPT !.idx = 1]
                    ELSE IF aborts THEN command_aborted(k)
                    ELSE IF next.count # 0 THEN [next EXCEPT !.err = FALSE] ELSE Ended(next)
           IN  /\ c' = [c EXCEPT ![sel] = r]
               /\ pic' = IF Last(k) THEN raise_interrupt(k, pic) ELSE pic
               /\ drv' = [drv EXCEPT !.left = @ - 1, !.moved = @ + 1, !.waits = Last(k) /\ ~k.nIEN]
      /\ wrapped' = (wrapped \/ (Last(k) /\ n = Sectors - 1))
      /\ UNCHANGED <<sel, kind, cd, short, commands>>

IdentifyData ==
  LET k == c[sel]
  IN  /\ drv.op \in {"identify", "identifypacket"} /\ Moving
      /\ c' = [c EXCEPT ![sel] = [k EXCEPT !.idx = @ + 1, !.err = FALSE, !.drq = ~Last(k)]]
      /\ drv' = [drv EXCEPT !.left = @ - 1, !.op = IF drv.left = 1 THEN "none" ELSE @]
      /\ UNCHANGED <<sel, kind, cd, pic, at, short, wrapped, commands>>

-----------------------------------------------------------------------------
(* Packet commands. *)

Reason(k) == [k EXCEPT !.count = 3, !.busy = FALSE, !.drq = FALSE]

atapi_cmd_nop(k) == [Reason(k) EXCEPT !.err = FALSE]
atapi_cmd_error(k) == [Reason(k) EXCEPT !.err = TRUE]

AtMost(n, m) == IF n < m THEN n ELSE m

\* The byte count that the first phase of an answer of "req" bytes moves, of
\* which the driver allocated "alloc".
FirstPhase(k, req, alloc) ==
  LET even == IF k.cyl % 2 = 1 /\ alloc > k.cyl THEN k.cyl - 1 ELSE k.cyl
  IN  AtMost(AtMost(even, req), IF alloc = 0 THEN even ELSE alloc)

init_send_atapi_command(k, command, req, alloc, lazy) ==
  LET n == FirstPhase(k, req, alloc)
  IN  /\ c' = [c EXCEPT ![sel] = [k EXCEPT !.count = 2, !.busy = FALSE, !.drq = TRUE, !.err = FALSE, !.cyl = n,
                                           !.idx = IF lazy THEN Block ELSE 0]]
      /\ cd' = [cd EXCEPT !.command = command, !.drq_bytes = n, !.drq_index = 0,
                          !.total = IF alloc = 0 THEN AtMost(req, n) ELSE AtMost(req, alloc)]

\* The packet is complete: a command without data, one that answers with data,
\* one that the drive refuses, an eject, or a read.
Sent == drv.op = "packet" /\ c[sel].drq

Answered(bytes, first) ==
  /\ drv' = [drv EXCEPT !.op = "answer", !.bytes = bytes, !.first = first, !.waits = ~c[sel].nIEN]
  /\ pic' = raise_interrupt(c[sel], pic)
  /\ UNCHANGED <<sel, kind, at, short, wrapped, commands>>

PacketWithoutData ==
  /\ Sent
  /\ \E k \in {atapi_cmd_nop(c[sel]), atapi_cmd_error(c[sel])} : c' = [c EXCEPT ![sel] = k]
  /\ UNCHANGED cd
  /\ Answered(0, 0)

PacketEject ==
  /\ Sent
  /\ c' = [c EXCEPT ![sel] = atapi_cmd_nop(c[sel])]
  /\ cd' = [cd EXCEPT !.ready = FALSE]
  /\ Answered(0, 0)

PacketWithData ==
  /\ Sent
  /\ \E req \in Lengths, alloc \in Lengths :
       /\ init_send_atapi_command(c[sel], "data", req, alloc, FALSE)
       /\ Answered(AtMost(req, alloc), 0)

PacketRead ==
  /\ Sent
  /\ \E lba \in 0 .. Capacity, n \in 0 .. Capacity :
       IF ~cd.ready \/ (n > 0 /\ lba + n > Capacity)
       THEN c' = [c EXCEPT ![sel] = atapi_cmd_error(c[sel])] /\ UNCHANGED cd /\ Answered(0, 0)
       ELSE IF n = 0
       THEN c' = [c EXCEPT ![sel] = atapi_cmd_nop(c[sel])] /\ UNCHANGED cd /\ Answered(0, 0)
       ELSE LET k == c[sel]
                phase == FirstPhase(k, n * Block, n * Block)
            IN  /\ c' = [c EXCEPT ![sel] = [k EXCEPT !.count = 2, !.busy = FALSE, !.drq = TRUE, !.err = FALSE,
                                                     !.cyl = phase, !.idx = Block]]
                /\ cd' = [cd EXCEPT !.command = "read", !.drq_bytes = phase, !.drq_index = 0, !.total = n * Block,
                                    !.next = lba, !.remaining = n]
                /\ Answered(n * Block, lba)

\* The limit of the next phase.
KeepsLimit(k, total) == k.cyl

NextLimit(k, total) == IF total < k.cyl THEN total ELSE k.cyl

\* Two bytes of the answer are read.  A block is loaded when the one before is
\* used up (the drive is ready: an eject is a packet that ends the answer);
\* the end of a phase announces the next one, or the end.
AnswerData ==
  LET loads == c[sel].idx >= Block /\ cd.command = "read"
      k == IF loads THEN [c[sel] EXCEPT !.buffer = cd.next, !.idx = 0] ELSE c[sel]
      moved == [k EXCEPT !.idx = @ + 2]
      m == IF loads THEN [cd EXCEPT !.next = @ + 1, !.remaining = @ - 1] ELSE cd
      ends == cd.drq_index + 2 >= cd.drq_bytes
      total == cd.total - cd.drq_bytes
      limit == NextLimit(k, total)
  IN  /\ drv.op = "answer" /\ Moving
      /\ at' = <<k.buffer, k.idx>>
      /\ drv' = [drv EXCEPT !.left = @ - 1, !.moved = @ + 1, !.waits = drv.left = 1 /\ ~k.nIEN]
      /\ IF ~ends
         THEN /\ c' = [c EXCEPT ![sel] = moved]
              /\ cd' = [m EXCEPT !.drq_index = @ + 2]
              /\ UNCHANGED pic
         ELSE /\ pic' = raise_interrupt(k, pic)
              /\ c' = [c EXCEPT ![sel] = IF total > 0 THEN [moved EXCEPT !.count = 2, !.drq = TRUE, !.cyl = limit]
                                                       ELSE atapi_cmd_nop(moved)]
              /\ cd' = [m EXCEPT !.drq_index = 0, !.total = total, !.drq_bytes = IF total > 0 THEN limit ELSE @]
      /\ UNCHANGED <<sel, kind, short, wrapped, commands>>

-----------------------------------------------------------------------------
GiveDiskCommand ==
  \E d \in {0, 1}, op \in DataCommands \union OtherCommands, lba \in BOOLEAN, first \in Firsts, count \in 0 .. 2 :
    /\ kind[d] = "disk"
    /\ op \in {"read", "write", "seek"} \/ (~lba /\ first = 0)
    /\ op \in {"read", "write", "setmultiple"} \/ count = 1
    /\ IF lba THEN first >= 0 /\ GiveCommand(d, op, TRUE, first \div Byte, 0, first % Byte, count)
       ELSE IF first = -1 THEN GiveCommand(d, op, FALSE, 0, 0, 0, count)
       ELSE GiveCommand(d, op, FALSE, first \div (Heads * Spt), (first \div Spt) % Heads, (first % Spt) + 1, count)

GivePacket ==
  \E op \in CdCommands, limit \in Limits :
    kind[1] = "cdrom" /\ GiveCommand(1, op, FALSE, limit, 0, 1, 1)

Next ==
  \/ GiveDiskCommand \/ GivePacket
  \/ Interrupt \/ ReadStatus \/ Abandon
  \/ \E srst, nIEN \in BOOLEAN : Control(srst, nIEN)
  \/ ReadData \/ WriteData \/ IdentifyData
  \/ PacketWithoutData \/ PacketEject \/ PacketWithData \/ PacketRead \/ AnswerData

Spec == Init /\ [][Next]_vars

-----------------------------------------------------------------------------
\* The sectors and blocks that a command moves are those it was given, in order
\* and complete.  The one exception is a CHS transfer over the end of the disk,
\* which goes on in the last cylinder.
MovesWhatWasAsked ==
  /\ drv.op \in {"read", "write"} /\ drv.moved > 0 /\ at # <<-1, 0>> /\ ~wrapped =>
       at[1] = drv.first + (IF drv.op = "read" THEN (drv.moved - 1) \div 2 ELSE (drv.moved \div 2) - 1)
  /\ drv.op = "answer" => 2 * drv.moved <= drv.bytes + 1
  /\ drv.op = "answer" /\ cd.command = "read" /\ drv.moved > 0 =>
       at = <<drv.first + (2 * (drv.moved - 1)) \div Block, (2 * (drv.moved - 1)) % Block>>

\* A command that ends without an error has moved everything, in as many phases
\* as it took.
NothingShort == ~short

\* A driver that waits is told: the interrupt is requested.  The exceptions are
\* the two commands whose end nothing announces: EXECUTE DEVICE DIAGNOSTIC
\* (2008-2018) and a successful SET MULTIPLE MODE (2150-2156).
WaitingIsTold == drv.waits => Line \in pic.irr \/ Forgets(c[sel], drv.op)
=============================================================================
