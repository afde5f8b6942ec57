------------------------------ MODULE MCDevices ------------------------------
(***************************************************************************)
(* Devices with their interrupt lines and a driver of the guest for each:  *)
(* keyboard and mouse, network card, clock, the two drives of an ATA       *)
(* channel, and floppy disk and sound on the DMA controllers.  One run     *)
(* drives each of them; the others stay in one initial state.              *)
(***************************************************************************)
EXTENDS Integers, Sequences, FiniteSets

CONSTANTS
  KbdQueue, MouseQueue, ControllerQueue, PacketMost,
  Movements,                     \* movements of the mouse that the host reports
  KbdCommands,                   \* bytes that the guest writes to port 64h
  KbdSettings,                   \* command bytes: sets of "irq1", "irq12", "kbdoff" and "auxoff"
  KbdSends, MouseSends,          \* bytes that the guest sends to the keyboard and to the mouse
  KeysStruck, MovementKept,      \* bounds: scan codes, movement not yet in a packet
  KbdWritten,                    \* bound: bytes the guest writes to the keyboard controller
  RingStart, RingPages, PagesOfFrame,
  FramesStored, CardWritten,     \* bounds: frames, transmissions and writes of the mask and the command
  DigitValues,
  SecondsCounted, ClockWritten,  \* bounds: seconds, registers written and resets
  SoundBlocks,                   \* samples of a block
  SoundOrders, OrdersBeside      \* bounds: orders to the sound card, alone and beside a floppy disk

VARIABLES
  driven,
  pic,
  kbd, keys, kbdWrites, handlers, stale,
  card, mem, cardTimer, cardDrv, stored, read, masked, cardWrites,
  clock, timers, reader, mine, clockDeaf, serving, seconds, clockWrites,
  c, sel, kind, cd, ataDrv, at, short, wrapped, ataCommands,
  dma, fdc, media, fdcDrv, moved, hung, fdcCommands,
  dsp, player, played, spoiled, soundDeaf, orders, overtaken

keyboard == <<kbd, keys, kbdWrites, handlers, stale>>
network == <<card, mem, cardTimer, cardDrv, stored, read, masked, cardWrites>>
time == <<clock, timers, reader, mine, clockDeaf, serving, seconds, clockWrites>>
drives == <<c, sel, kind, cd, ataDrv, at, short, wrapped, ataCommands>>
channels == <<dma, fdc, media, fdcDrv, moved, hung, fdcCommands,
              dsp, player, played, spoiled, soundDeaf, orders, overtaken>>

\* Every queue can run full; keyboard and mouse on and off, tests and resets.
Kbd == INSTANCE Keyboard WITH
  s <- kbd, writes <- kbdWrites,
  KbdElements <- KbdQueue, MouseElements <- MouseQueue, ControllerQ <- ControllerQueue,
  PacketLimit <- PacketMost, Motions <- Movements, Commands <- KbdCommands,
  CommandBytes <- {<<"irq1" \in v, "irq12" \in v, "kbdoff" \in v, "auxoff" \in v>> : v \in KbdSettings},
  KbdBytes <- KbdSends, MouseBytes <- MouseSends,
  MaxKeys <- KeysStruck, MaxMotion <- MovementKept, MaxWrites <- KbdWritten

\* A ring that wraps under frames of several pages.
Card == INSTANCE Ne2k WITH
  s <- card, timer <- cardTimer, drv <- cardDrv, writes <- cardWrites,
  First <- RingStart, Pages <- RingPages, FramePages <- PagesOfFrame,
  MaxFrames <- FramesStored, MaxWrites <- CardWritten

\* Two digits of the time, and an alarm.
Clock == INSTANCE Cmos WITH
  s <- clock, deaf <- clockDeaf, writes <- clockWrites,
  Digit <- DigitValues, MaxSeconds <- SecondsCounted, MaxWrites <- ClockWritten

\* A disk and another one, or a CD-ROM, whose answers may be longer than a byte
\* count and a block.
Drives == INSTANCE Ata WITH
  drv <- ataDrv, commands <- ataCommands,
  Slaves <- {"disk", "cdrom"}, Cylinders <- 2, Heads <- 2, Spt <- 2, Byte <- 4, Block <- 4, Capacity <- 3,
  Firsts <- {-1, 0, 6}, Limits <- {2, 3, 6}, Lengths <- {3, 4}, MaxCommands <- 2

\* Transfers over tracks and sides, of whole sectors and not; two commands.
Disks == INSTANCE IsaDma WITH
  drv <- fdcDrv, commands <- fdcCommands, deaf <- soundDeaf,
  Tracks <- 2, Spt <- 2, SectorBytes <- 2, ResultBytes <- 2, Starts <- {<<0, 0, 2>>, <<1, 1, 3>>, <<0, 1, 1>>},
  Counts <- {2, 3, 6}, MaxCommands <- 2, Blocks <- {1}, MaxOrders <- 0

\* Orders to the sound card, beside one command to a small disk or beside none.
Sound == INSTANCE IsaDma WITH
  drv <- fdcDrv, commands <- fdcCommands, deaf <- soundDeaf,
  Tracks <- 1, Spt <- 1, SectorBytes <- 2, ResultBytes <- 2, Starts <- {<<0, 0, 1>>},
  Counts <- {4}, MaxCommands <- 1, Blocks <- SoundBlocks, MaxOrders <- SoundOrders

NoDisk == fdcCommands' = 0
FewOrders == orders' <= OrdersBeside

ASSUME ConstantsAssumption ==
  /\ Kbd!ConstantsOK /\ Card!ConstantsOK /\ Clock!ConstantsOK /\ Drives!ConstantsOK
  /\ Disks!ConstantsOK /\ Sound!ConstantsOK /\ OrdersBeside \in Nat

vars == <<driven, pic, keyboard, network, time, drives, channels>>

Init ==
  /\ driven \in {"keyboard", "network", "time", "drives", "disks", "sound", "both"}
  /\ Kbd!Init /\ Card!Init /\ Clock!Init /\ Drives!Init /\ Disks!Init
  /\ driven # "network" => cardDrv = Card!Idle(0)
  /\ driven # "time" => clock.timeval = 0
  /\ driven # "drives" => kind[1] = "disk"
  /\ media[1] = "none"
  /\ driven # "disks" => media[0] = "writable"

Next ==
  \/ driven = "keyboard" /\ Kbd!Next /\ UNCHANGED <<driven, network, time, drives, channels>>
  \/ driven = "network" /\ Card!Next /\ UNCHANGED <<driven, keyboard, time, drives, channels>>
  \/ driven = "time" /\ Clock!Next /\ UNCHANGED <<driven, keyboard, network, drives, channels>>
  \/ driven = "drives" /\ Drives!Next /\ UNCHANGED <<driven, keyboard, network, time, channels>>
  \/ driven = "disks" /\ Disks!Next /\ UNCHANGED <<driven, keyboard, network, time, drives>>
  \/ driven = "sound" /\ Sound!Next /\ NoDisk /\ UNCHANGED <<driven, keyboard, network, time, drives>>
  \/ driven = "both" /\ Sound!Next /\ FewOrders /\ UNCHANGED <<driven, keyboard, network, time, drives>>

Spec == Init /\ [][Next]_vars

-----------------------------------------------------------------------------
\* Registers, queues, counts and drivers are well formed at any instant.
TypeOK ==
  /\ driven = "keyboard" => Kbd!TypeOK
  /\ driven = "network" => Card!TypeOK
  /\ driven = "time" => Clock!TypeOK
  /\ driven = "drives" => Drives!TypeOK
  /\ driven = "disks" => Disks!TypeOK
  /\ driven \in {"sound", "both"} => Sound!TypeOK

\* An event that a device has pending is announced: its interrupt is requested, or
\* a handler that will look is at work.  The exceptions are named: bytes of the
\* keyboard and the mouse that meet in the output buffer, a network card that is
\* masked, a clock or a sound card that is reset with its line high.
InterruptsAreSeen ==
  /\ driven = "keyboard" => Kbd!OnlyMixedBytesSilence
  /\ driven = "network" => Card!EnabledFrameIsAnnounced /\ Card!OnlyMaskedCompletionIsLost
  /\ driven = "time" => Clock!OnlyResetSilences
  /\ driven \in {"sound", "both"} => Sound!OnlyResetDeafens

\* A frame is read from the ring as it was stored, a mouse packet enters the queue
\* whole, and a time that is read between two updates is one time.
NothingTorn ==
  /\ driven = "keyboard" => Kbd!PacketsAreWhole
  /\ driven = "network" => Card!FramesReadWhole
  /\ driven = "time" => Clock!TimeReadWhole

\* What waits will be answered: a byte in a device whose clock runs, a driver of the
\* drives, of the floppy disk or of the sound card, and a request for DMA.  The
\* exceptions are named: two commands of the disks that end without the interrupt
\* (Ata.Forgets), floppy commands that hang by the code's own words, and a request
\* that is dropped when the transfer of another channel ends.
NothingStalls ==
  /\ driven = "keyboard" => Kbd!NoByteStalls
  /\ driven = "drives" => Drives!WaitingIsTold
  /\ driven = "disks" => Disks!FloppyWaitIsTold /\ Disks!SensesAnswer /\ Disks!OnlyExpiryStrands
  /\ driven \in {"sound", "both"} => Sound!FloppyWaitIsTold /\ Sound!BlockWillEnd /\ Sound!OnlyExpiryStrands

\* The sectors and blocks of a transfer are those that were asked for, in order,
\* once each and complete.
MovesWhatWasAsked ==
  /\ driven = "drives" => Drives!MovesWhatWasAsked /\ Drives!NothingShort
  /\ driven = "disks" => Disks!SectorsFollow
  /\ driven = "both" => Sound!SectorsFollow

\* Scan codes are read in the order in which keys were struck, none twice.
KeysReadInOrder == Kbd!KeysReadInOrder
=============================================================================
