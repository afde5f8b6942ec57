---------------------------- MODULE HostControl -----------------------------
(***************************************************************************)
(* How the user interface stops, pauses and resets the emulator, and how   *)
(* the two end together.  The emulator runs on a thread of its own and     *)
(* looks at the requests only in handle_events(), which the devices' timer *)
(* calls now and then; the user interface (EmulatorPage.xaml.cs) is one    *)
(* thread with a queue of work, and ends the process some time after it    *)
(* asked the emulator to stop, without asking whether it has.              *)
(*                                                                         *)
(* "unsaved" says that files hold what only wpb_flush_all will save.  Of    *)
(* the keys, one modifier of the page's keyboard is kept, which stays      *)
(* pressed until it is touched again.                                      *)
(***************************************************************************)
EXTENDS Naturals, Sequences

CONSTANTS
  UserActions,     \* what the user does: a subset of UserAction
  GuestActions,    \* what the guest does: a subset of GuestAction
  GracePolls,      \* the polls that fit at least into the delay before Exit
  MaxKeys          \* bound: the keys pressed between two polls

UserAction == {"reset", "pause", "shutdown", "savelog", "answer", "modifier"}
GuestAction == {"panic", "poweroff"}

ConstantsOK ==
  /\ UserActions \subseteq UserAction
  /\ GuestActions \subseteq GuestAction
  /\ GracePolls \in Nat \ {0, 1}     \* one for a reset, one for the shutdown
  /\ MaxKeys \in Nat

VARIABLES
  \* the page
  attached,        \* _machine is set and its events are handled
  _paused,
  queue,           \* the work queued with Dispatcher.RunAsync
  dialog,          \* the panic dialog is shown
  picker,          \* the file picker that is shown, or None
  delay,           \* the polls left before Application.Current.Exit(), or Never
  exited,
  _modifierToggleState,  \* the modifier is shown as pressed
  \* shared
  s_keyQueue,      \* the events of its key, TRUE for "pressed"
  s_resetRequested, s_shutdownRequested, s_paused,
  m_panicResolved, m_panicChoice,
  \* the emulator's thread
  emulator,
  unsaved,
  pressed,         \* the key is pressed, for the guest's keyboard
  muted            \* panics of the device are only reported

keys == <<_modifierToggleState, s_keyQueue, pressed>>
page == <<attached, _paused, queue, dialog, picker, delay, exited>>
requests == <<s_resetRequested, s_shutdownRequested, s_paused>>
panic == <<m_panicResolved, m_panicChoice>>
thread == <<emulator, unsaved, muted>>
vars == <<page, requests, panic, thread, keys>>

None == "none"
Never == GracePolls + 1
Choice == 0 .. 2     \* continue, continue and do not ask again, die

TypeOK ==
  /\ attached \in BOOLEAN
  /\ _paused \in BOOLEAN
  /\ queue \in Seq({"stop", "panic"})
  /\ Len(queue) <= 2
  /\ dialog \in BOOLEAN
  /\ picker \in {None, "savelog", "panic"}
  /\ delay \in 0 .. Never
  /\ exited \in BOOLEAN
  /\ s_resetRequested \in BOOLEAN
  /\ s_shutdownRequested \in BOOLEAN
  /\ s_paused \in BOOLEAN
  /\ m_panicResolved \in BOOLEAN
  /\ m_panicChoice \in Choice
  /\ emulator \in {"running", "paused", "asking", "down"}
  /\ unsaved \in BOOLEAN
  /\ muted \in BOOLEAN
  /\ _modifierToggleState \in BOOLEAN
  /\ s_keyQueue \in Seq(BOOLEAN)
  /\ Len(s_keyQueue) <= MaxKeys + 1
  /\ pressed \in BOOLEAN

Init ==
  /\ attached = TRUE /\ _paused = FALSE
  /\ queue = <<>> /\ dialog = FALSE /\ picker = None
  /\ delay = Never /\ exited = FALSE
  /\ s_resetRequested = FALSE /\ s_shutdownRequested = FALSE /\ s_paused = FALSE
  /\ m_panicResolved = FALSE /\ m_panicChoice = 0
  /\ emulator = "running" /\ unsaved = FALSE /\ muted = FALSE
  /\ _modifierToggleState = FALSE /\ s_keyQueue = <<>> /\ pressed = FALSE

-----------------------------------------------------------------------------
(* The emulator's thread. *)

\* Wrong versions, which only a mutation uses: a reset taken for all requests;
\* an event of which the page is not told; a panic answered by the answer to
\* the one before; keys lost by a reset; a modifier released and still shown
\* as pressed.
BothTaken == FALSE
NotQueued(work) == queue
StillResolved == m_panicResolved
KeysDropped == <<>>
StaysHighlighted == _modifierToggleState

\* Time passes: one poll less before the page ends the process.
Elapsed == IF delay \in 1 .. GracePolls THEN delay - 1 ELSE delay

\* An event of the machine, handled by queueing work for the page's thread.
Notified(work) == IF attached THEN Append(queue, work) ELSE queue

GuestWrites ==
  /\ ~exited /\ emulator = "running"
  /\ unsaved' = TRUE
  /\ UNCHANGED <<page, requests, panic, emulator, muted, keys>>

\* Soft power off, through the ACPI registers.
GuestPowersOff ==
  /\ ~exited /\ emulator = "running"
  /\ "poweroff" \in GuestActions
  /\ ~s_shutdownRequested
  /\ queue' = Notified("stop")
  /\ s_shutdownRequested' = TRUE
  /\ UNCHANGED <<attached, _paused, dialog, picker, delay, exited,
                 s_resetRequested, s_paused, panic, thread, keys>>

\* BlockForPanicChoice forgets the answer to an earlier panic, then waits.
UnresolvedAtFirst == FALSE

GuestPanics ==
  /\ ~exited /\ emulator = "running"
  /\ "panic" \in GuestActions
  /\ ~muted
  /\ m_panicResolved' = UnresolvedAtFirst
  /\ queue' = Notified("panic")
  /\ emulator' = "asking"
  /\ UNCHANGED <<attached, _paused, dialog, picker, delay, exited,
                 requests, m_panicChoice, unsaved, muted, keys>>

\* fatal() flushes everything and does not return.
UnsavedAfter(choice) == unsaved /\ choice # 2

PanicAnswered ==
  /\ ~exited /\ emulator = "asking" /\ m_panicResolved
  /\ emulator' = IF m_panicChoice = 2 THEN "down" ELSE "running"
  /\ unsaved' = UnsavedAfter(m_panicChoice)
  /\ muted' = (muted \/ m_panicChoice = 1)
  /\ UNCHANGED <<page, requests, panic, keys>>

\* A reset leaves handle_events() by a longjmp; other requests wait for the
\* next poll.
ShutdownAfterReset == s_shutdownRequested

KeysAfterReset == s_keyQueue

PollReset ==
  /\ s_resetRequested
  /\ s_resetRequested' = FALSE
  /\ s_shutdownRequested' = ShutdownAfterReset
  /\ s_keyQueue' = KeysAfterReset
  /\ UNCHANGED <<emulator, unsaved, pressed>>

\* ShutdownNow flushes everything and does not return.
PollShutdown ==
  /\ ~s_resetRequested /\ s_shutdownRequested
  /\ s_shutdownRequested' = FALSE
  /\ emulator' = "down"
  /\ unsaved' = FALSE
  /\ UNCHANGED <<s_resetRequested, s_keyQueue, pressed>>

\* The queued keys are given to the guest's keyboard.
DeliverKeys ==
  /\ s_keyQueue' = <<>>
  /\ pressed' = IF s_keyQueue = <<>> THEN pressed ELSE s_keyQueue[Len(s_keyQueue)]

\* Without either, the poll waits while the machine is paused.
PollPause ==
  /\ ~s_resetRequested /\ ~s_shutdownRequested
  /\ \/ /\ s_paused
        /\ emulator' = "paused"
        /\ UNCHANGED <<s_keyQueue, pressed>>
     \/ /\ ~s_paused
        /\ DeliverKeys
        /\ UNCHANGED emulator
  /\ UNCHANGED <<s_resetRequested, s_shutdownRequested, unsaved>>

handle_events ==
  /\ ~exited /\ emulator = "running"
  /\ PollReset \/ PollShutdown \/ PollPause
  /\ delay' = Elapsed
  /\ UNCHANGED <<attached, _paused, queue, dialog, picker, exited, s_paused, panic, muted,
                 _modifierToggleState>>

Resume ==
  /\ ~exited /\ emulator = "paused" /\ ~s_paused
  /\ emulator' = "running"
  /\ DeliverKeys
  /\ UNCHANGED <<page, requests, panic, unsaved, muted, _modifierToggleState>>

-----------------------------------------------------------------------------
(* The page.  A dialog and a picker keep the user from the page's buttons.  *)

UserMay(action) ==
  /\ ~exited
  /\ action \in UserActions
  /\ ~dialog /\ picker = None

pauseButton_Click ==
  /\ UserMay("pause") /\ attached
  /\ _paused' = ~_paused
  /\ s_paused' = ~_paused
  /\ UNCHANGED <<attached, queue, dialog, picker, delay, exited,
                 s_resetRequested, s_shutdownRequested, panic, thread, keys>>

\* The modifier's key: after StopMachine it only changes the page.
KeyButton_PointerPressed ==
  /\ UserMay("modifier")
  /\ Len(s_keyQueue) < MaxKeys
  /\ _modifierToggleState' = ~_modifierToggleState
  /\ s_keyQueue' = IF attached THEN Append(s_keyQueue, ~_modifierToggleState) ELSE s_keyQueue
  /\ UNCHANGED <<page, requests, panic, thread, pressed>>

\* What the page shows once all modifiers are released.
Highlighted == FALSE

ReleaseAllModifiers ==
  /\ _modifierToggleState' = Highlighted
  /\ s_keyQueue' = IF _modifierToggleState /\ attached THEN Append(s_keyQueue, FALSE) ELSE s_keyQueue
  /\ UNCHANGED pressed

resetButton_Click ==
  /\ UserMay("reset") /\ attached
  /\ ReleaseAllModifiers
  /\ s_resetRequested' = TRUE
  /\ UNCHANGED <<page, s_shutdownRequested, s_paused, panic, thread>>

\* StopMachine does nothing the second time.
StopMachine ==
  /\ attached' = FALSE
  /\ s_shutdownRequested' = (s_shutdownRequested \/ attached)
  /\ IF attached THEN ReleaseAllModifiers ELSE UNCHANGED keys

\* Exit() follows after the delay; the first one ends the process.
ExitSoon == delay' = IF delay = Never THEN GracePolls ELSE delay

shutdownButton_Click ==
  /\ UserMay("shutdown")
  /\ StopMachine
  /\ ExitSoon
  /\ UNCHANGED <<_paused, queue, dialog, picker, exited,
                 s_resetRequested, s_paused, panic, thread>>

saveLogButton_Click ==
  /\ UserMay("savelog") /\ attached
  /\ _paused' = TRUE
  /\ s_paused' = TRUE
  /\ picker' = "savelog"
  /\ UNCHANGED <<attached, queue, dialog, delay, exited,
                 s_resetRequested, s_shutdownRequested, panic, thread, keys>>

ContinueFileSavePicker ==
  /\ ~exited /\ picker # None
  /\ picker' = None
  /\ \/ /\ picker = "savelog"
        /\ _paused' = FALSE
        /\ s_paused' = (s_paused /\ ~attached)
        /\ UNCHANGED delay
     \/ /\ picker = "panic"
        /\ ExitSoon
        /\ UNCHANGED <<_paused, s_paused>>
  /\ UNCHANGED <<attached, queue, dialog, exited,
                 s_resetRequested, s_shutdownRequested, panic, thread, keys>>

\* The work queued by Machine_AcpiShutdownRequested.
RunStop ==
  /\ ~exited /\ queue # <<>> /\ Head(queue) = "stop"
  /\ queue' = Tail(queue)
  /\ StopMachine
  /\ ExitSoon
  /\ UNCHANGED <<_paused, dialog, picker, exited, s_resetRequested, s_paused, panic, thread>>

ResolvePanic(choice) ==
  /\ m_panicResolved' = TRUE
  /\ m_panicChoice' = choice

\* The work queued by Machine_PanicRequested: it does nothing if the machine
\* was stopped meanwhile; a dialog that fails to be shown is answered by 0.
RunPanic ==
  /\ ~exited /\ queue # <<>> /\ Head(queue) = "panic"
  /\ queue' = Tail(queue)
  /\ \/ /\ ~attached
        /\ UNCHANGED <<dialog, panic>>
     \/ /\ attached
        /\ dialog' = TRUE
        /\ UNCHANGED panic
     \/ /\ attached
        /\ ResolvePanic(0)
        /\ UNCHANGED dialog
  /\ UNCHANGED <<attached, _paused, picker, delay, exited, requests, thread, keys>>

DialogCloses ==
  /\ ~exited /\ dialog
  /\ "answer" \in UserActions
  /\ dialog' = FALSE
  /\ UNCHANGED <<_paused, queue, exited, s_resetRequested, s_paused, thread>>

\* "Continue", "and don't ask again", the dialog closed otherwise, or the
\* machine stopped while it was shown.
AnswerContinue(choice) ==
  /\ DialogCloses
  /\ choice \in {0, 1}
  /\ attached \/ choice = 0
  /\ ResolvePanic(choice)
  /\ UNCHANGED <<attached, s_shutdownRequested, picker, delay, keys>>

AnswerDie ==
  /\ DialogCloses
  /\ attached
  /\ ResolvePanic(2)
  /\ StopMachine
  /\ ExitSoon
  /\ UNCHANGED picker

AnswerSaveAndExit ==
  /\ DialogCloses
  /\ attached
  /\ ResolvePanic(2)
  /\ StopMachine
  /\ picker' = "panic"
  /\ UNCHANGED delay

\* Nothing the emulator's thread waits for has come.
Blocked ==
  \/ emulator = "down"
  \/ emulator = "paused" /\ s_paused
  \/ emulator = "asking" /\ ~m_panicResolved

Exit ==
  /\ ~exited
  /\ delay = 0 \/ (delay # Never /\ Blocked)
  /\ exited' = TRUE
  /\ UNCHANGED <<attached, _paused, queue, dialog, picker, delay, requests, panic, thread, keys>>

Emulator == handle_events \/ PanicAnswered \/ Resume
Dispatcher == RunStop \/ RunPanic

Next ==
  \/ Emulator
  \/ GuestWrites
  \/ GuestPowersOff
  \/ GuestPanics
  \/ pauseButton_Click
  \/ KeyButton_PointerPressed
  \/ resetButton_Click
  \/ shutdownButton_Click
  \/ saveLogButton_Click
  \/ ContinueFileSavePicker
  \/ Dispatcher
  \/ \E choice \in {0, 1} : AnswerContinue(choice)
  \/ AnswerDie
  \/ AnswerSaveAndExit
  \/ Exit

\* The emulator's thread and the page's thread run, and a delay ends.  Nothing
\* is assumed of the user or of the guest.
Spec ==
  /\ Init /\ [][Next]_vars
  /\ WF_vars(Emulator) /\ WF_vars(Dispatcher) /\ WF_vars(Exit)

-----------------------------------------------------------------------------
\* "flushes every open externally-registered handle, call before exit()"
\* (wpb_file_io.h): the process ends with nothing left to save.
FlushedBeforeExit == exited => ~unsaved

\* Only an emulator that waits, paused or for the answer to a panic, is ended
\* with something left to save: one that polls in time has flushed everything.
OnlyWaitingLoses == exited /\ unsaved => emulator \in {"paused", "asking"}

\* A dialog, and the one that is about to be shown, are about the panic that
\* the emulator waits with: an answer never reaches a later one.
DialogMatchesPanic ==
  /\ dialog => emulator = "asking" /\ ~m_panicResolved
  /\ \A i \in 1 .. Len(queue) : queue[i] = "panic" => emulator = "asking" /\ ~m_panicResolved
  /\ ~(dialog /\ "panic" \in {queue[i] : i \in 1 .. Len(queue)})

\* While the page has a machine, the guest's keyboard was told, or is about to
\* be told, what the page shows: no modifier stays pressed behind a reset.
ModifierAgrees ==
  attached =>
    _modifierToggleState = IF s_keyQueue = <<>> THEN pressed ELSE s_keyQueue[Len(s_keyQueue)]

\* An emulator that has shut down is not left behind a dead page, unless the
\* user never closes the file picker.
DownIsExited == emulator = "down" ~> exited \/ picker = "panic"

\* Every panic the emulator waits with is put to the user, or answered, or the
\* process ends.
PanicIsShown ==
  emulator = "asking" ~> dialog \/ m_panicResolved \/ emulator # "asking" \/ exited
============================================================================
