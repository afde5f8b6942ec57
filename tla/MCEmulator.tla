----------------------------- MODULE MCEmulator ------------------------------
(***************************************************************************)
(* The emulator's thread: what the page asks of it, the picture that the   *)
(* graphics card draws and the page shows, the loop of its CPU with the    *)
(* events looked at in it, the floating-point unit, and the interval timer *)
(* that the emulator clocks.  One run drives each of the six; the others   *)
(* stay in one initial state.                                              *)
(***************************************************************************)
EXTENDS Integers, FiniteSets

CONSTANTS
  UserActions, GuestActions, GracePolls, MaxKeys,   \* of HostControl
  MaxEvents,                                        \* of CpuEvents
  Units, Digit, Delta,                              \* of Pit: Unit, Digit, Delta,
  LowDigits, HighDigits, MaxCounts                  \* Low, High and MaxWrites

VARIABLES
  driven,
  attached, _paused, queue, dialog, picker, delay, exited, _modifierToggleState,
  s_keyQueue, s_resetRequested, s_shutdownRequested, s_paused, m_panicResolved, m_panicChoice,
  emulator, unsaved, pressed, muted,
  fb, renderer, raced,
  card, accesses,
  cpu, owed, shadow, chain, began, hlda, events,
  unit, timer, pic, writes, ticks, pair,
  fpu, instruction, executed

control == <<attached, _paused, queue, dialog, picker, delay, exited, _modifierToggleState,
             s_keyQueue, s_resetRequested, s_shutdownRequested, s_paused, m_panicResolved, m_panicChoice,
             emulator, unsaved, pressed, muted>>
picture == <<fb, renderer, raced>>
screen == <<card, accesses>>
loop == <<cpu, owed, shadow, chain, began, hlda, events>>
clock == <<unit, timer, pic, writes, ticks, pair>>
stack == <<fpu, instruction, executed>>

Control == INSTANCE HostControl

\* Two sizes of the same number of pixels, and a larger one.
Picture == INSTANCE Display WITH Sizes <- {<<1, 2>>, <<2, 1>>, <<2, 2>>}, MaxDrawn <- 4, page <- renderer

Events == INSTANCE CpuEvents WITH s <- cpu

Timer == INSTANCE Pit WITH
  Unit <- Units, Low <- LowDigits, High <- HighDigits, MaxWrites <- MaxCounts

\* Three registers hold the operands of an instruction and what it pushes; three
\* instructions save a unit, change it and give it back.
Unit == INSTANCE Fpu WITH NRegs <- 3, MaxSteps <- 3, f <- fpu, last <- instruction, steps <- executed

\* A screen of two tiles in each direction at least, with lines of a few bytes.
Card == INSTANCE Vga WITH
  Y_TILESIZE <- 2, Width <- 32, Height <- 4, CgaLine <- 8, CgaBank <- 32, TextCols <- 4, FontRows <- 4,
  Window <- 64, VbeMemory <- 300, Offsets <- {0, 3, 4, 7, 8, 17, 36}, MaxWrites <- 2, k <- card, writes <- accesses

ASSUME ConstantsAssumption == Control!ConstantsOK /\ Events!ConstantsOK /\ Timer!ConstantsOK
ASSUME Picture!ConstantsOK /\ Unit!ConstantsOK /\ Card!ConstantsOK

vars == <<driven, control, picture, screen, loop, clock, stack>>

Init ==
  /\ driven \in {"control", "picture", "screen", "events", "timer", "fpu"}
  /\ Control!Init /\ Picture!Init /\ Events!Init /\ Timer!Init
  /\ driven # "timer" => unit = 0
  /\ IF driven = "screen" THEN Card!Init ELSE card = "off" /\ accesses = 0
  /\ IF driven = "fpu" THEN Unit!Init ELSE fpu = "off" /\ instruction = "none" /\ executed = 0

Next ==
  \/ driven = "control" /\ Control!Next /\ UNCHANGED <<driven, picture, screen, loop, clock, stack>>
  \/ driven = "picture" /\ Picture!Next /\ UNCHANGED <<driven, control, screen, loop, clock, stack>>
  \/ driven = "screen" /\ Card!Next /\ UNCHANGED <<driven, control, picture, loop, clock, stack>>
  \/ driven = "events" /\ Events!Next /\ UNCHANGED <<driven, control, picture, screen, clock, stack>>
  \/ driven = "timer" /\ Timer!Next /\ UNCHANGED <<driven, control, picture, screen, loop, stack>>
  \/ driven = "fpu" /\ Unit!Next /\ UNCHANGED <<driven, control, picture, screen, loop, clock>>

\* The emulator's thread and the page's thread run, a delay ends, and the device
\* tick never stops.  Nothing is assumed of the user or of the guest.
Fairness ==
  /\ WF_vars(driven = "control" /\ Control!Emulator /\ UNCHANGED <<driven, picture, screen, loop, clock, stack>>)
  /\ WF_vars(driven = "control" /\ Control!Dispatcher /\ UNCHANGED <<driven, picture, screen, loop, clock, stack>>)
  /\ WF_vars(driven = "control" /\ Control!Exit /\ UNCHANGED <<driven, picture, screen, loop, clock, stack>>)
  /\ WF_vars(driven = "events" /\ Events!Runs /\ UNCHANGED <<driven, control, picture, screen, clock, stack>>)
  /\ WF_vars(driven = "timer" /\ Timer!periodic /\ UNCHANGED <<driven, control, picture, screen, loop, stack>>)

Spec == Init /\ [][Next]_vars /\ Fairness

-----------------------------------------------------------------------------
\* Requests, queues, dialogs, the framebuffer, lines and counters are well formed at any instant.
TypeOK ==
  /\ driven = "control" => Control!TypeOK
  /\ driven = "picture" => Picture!TypeOK
  /\ driven = "screen" => Card!TypeOK
  /\ driven = "events" => Events!TypeOK
  /\ driven = "timer" => Timer!TypeOK
  /\ driven = "fpu" => Unit!TypeOK

\* Only an emulator that waits, paused or for the answer to a panic, is ended
\* with something left to save.
OnlyWaitingLoses == driven = "control" => Control!OnlyWaitingLoses

\* A dialog is about the panic that the emulator waits with, not a later one, and
\* the guest's keyboard follows the page's through resets and stops.
PageAgrees == driven = "control" => Control!DialogMatchesPanic /\ Control!ModifierAgrees

\* The framebuffer shows what the card's memory and registers say, tile by tile, and
\* no tile to be drawn is forgotten, but where the code draws nothing again; what
\* is kept beside a register follows it; a write leaves what the masks keep.
\* The page shows what was drawn last, laid out for the bitmap it is shown in,
\* unless the size changed between the calls of its last copy.
PictureIsRight ==
  /\ driven = "screen" => Card!VgaIsRight
  /\ driven = "picture" => Picture!OnlyResizeLosesFrame /\ Picture!OnlyResizeGarbles

\* Events are looked at between two instructions, in their order: none is
\* forgotten, a step's trap comes before the next instruction, an interrupt not
\* in the shadow of STI or of a load of SS, and a double fault only for a fault
\* within a fault.
EventsInOrder ==
  driven = "events" =>
    Events!NothingForgotten /\ Events!OnlyHltLosesStep /\ Events!ShadowHolds
      /\ Events!DoubleFaultIsReal /\ Events!OnlyInterruptsMixFrames

\* A latched count is read whole, and a one-shot of the timer ends on its tick.
CountsAreTrue == driven = "timer" => Timer!LatchedReadIsWhole /\ Timer!OneShotOnTime

\* Every instruction of the floating-point unit, on any operands, raises what it
\* should and nothing before the first of it, keeps the operands for a handler and
\* moves the stack otherwise, keeps tags and summary true, may be done again after
\* a page fault, and what was saved is restored: but for what is named there.
UnitIsRight == driven = "fpu" => Unit!UnitIsRight

\* An emulator that has shut down is not left behind a dead page, every panic it
\* waits with is shown, answered or ended; enabled requests are served, the bus is
\* given away, and the timer ticks on.
NothingIsLeftWaiting ==
  Control!DownIsExited /\ Control!PanicIsShown /\ Events!EventsAreServed /\ Timer!KeepsTicking
=============================================================================
